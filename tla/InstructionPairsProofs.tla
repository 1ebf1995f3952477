----------------------- MODULE InstructionPairsProofs -----------------------
(***************************************************************************)
(* Every instruction the emitters know, and every one they leave to a      *)
(* helper, comes to what the interpreter makes of it, for every word size, *)
(* every state and every choice of cached locals, except where it is known *)
(* to differ; there it differs in its destination only.                    *)
(***************************************************************************)
EXTENDS InstructionPairs, EmittedCodeLemmas

-----------------------------------------------------------------------------
(* States of emitted code and the fields of a state.                       *)

\* States of emitted code have registers and frame as one frame.
LEMMA StateIsMachine ==
  ASSUME NEW m, IsMachineState(m)
  PROVE  /\ IsMachine(m) /\ DOMAIN m = Fields
         /\ DOMAIN View(m) = DOMAIN m.mem
         /\ \A at \in DOMAIN m.mem : View(m)[at] \in Word
         /\ m.vr \in Word \X Word /\ m.vr[1] \in Word /\ m.vr[2] \in Word
         /\ m.exc = "none" /\ m.local = FALSE
<1>1. IsMachine(m)
  BY DEF IsMachineState, IsMachine, Fields
<1>2. DOMAIN View(m) = DOMAIN m.mem
      /\ View(m) = [a \in DOMAIN m.mem |->
                         IF Fp - a \in DOMAIN m.reg THEN m.reg[Fp - a]
                         ELSE m.mem[a]]
  BY <1>1, ViewOfMachine
<1> QED  BY <1>1, <1>2 DEF IsMachineState

\* The interpreter's state, field by field.
LEMMA InterpretedFields ==
  ASSUME NEW m, IsMachineState(m)
  PROVE  /\ DOMAIN Interpreted(m) = Fields
         /\ Interpreted(m).mem = View(m) /\ Interpreted(m).reg = NoRegisters
         /\ Interpreted(m).vr = m.vr /\ Interpreted(m).sp = m.sp
         /\ Interpreted(m).object = m.object /\ Interpreted(m).exc = m.exc
BY DEF Interpreted, IsMachineState, Fields

\* Both words of the variable at o are words of the frame.
InFrame(m, o) == o \in Int /\ {Fp - o, Fp - o + 1} \subseteq DOMAIN m.mem

\* What emitted code loads is what the interpreter finds.
LEMMA LoadAgrees ==
  ASSUME NEW m, IsMachineState(m), NEW o, InFrame(m, o)
  PROVE  /\ LoadVar(m, o) = Var(Interpreted(m), o) /\ LoadVar(m, o) \in Word
         /\ LoadVar(m, o - 1) = Var(Interpreted(m), o - 1) /\ LoadVar(m, o - 1) \in Word
         /\ LoadVar64(m, o) = <<LoadVar(m, o), LoadVar(m, o - 1)>>
         /\ Var64(Interpreted(m), o) = Quad(LoadVar(m, o), LoadVar(m, o - 1))
<1>1. o \in Int /\ o - 1 \in Int /\ Fp - (o - 1) = Fp - o + 1
      /\ Fp - o \in DOMAIN m.mem /\ Fp - (o - 1) \in DOMAIN m.mem
  BY LocalCacheAssumption DEF InFrame
<1>2. LoadVar(m, o) = View(m)[Fp - o] /\ LoadVar(m, o - 1) = View(m)[Fp - (o - 1)]
  BY <1>1, StateIsMachine, LoadReadsView, Zenon
<1>3. View(m)[Fp - o] \in Word /\ View(m)[Fp - (o - 1)] \in Word
  BY <1>1, StateIsMachine, Zenon
<1> QED  BY <1>1, <1>2, <1>3, InterpretedFields DEF Var, Var64, LoadVar64

\* What an update of one field leaves.
LEMMA WithMem ==
  ASSUME NEW m, DOMAIN m = Fields, NEW f
  PROVE  LET n == [m EXCEPT !.mem = f]
         IN  /\ DOMAIN n = Fields /\ n.mem = f /\ n.reg = m.reg
             /\ n.vr = m.vr /\ n.sp = m.sp /\ n.object = m.object /\ n.exc = m.exc
             /\ n.local = m.local
BY DEF Fields

\* The same for the registers.
LEMMA WithReg ==
  ASSUME NEW m, DOMAIN m = Fields, NEW f
  PROVE  LET n == [m EXCEPT !.reg = f]
         IN  /\ DOMAIN n = Fields /\ n.reg = f /\ n.mem = m.mem
             /\ n.vr = m.vr /\ n.sp = m.sp /\ n.object = m.object /\ n.exc = m.exc
             /\ n.local = m.local
BY DEF Fields

\* A store leaves everything but the word it writes.
LEMMA StoreFields ==
  ASSUME NEW m, DOMAIN m = Fields, NEW o, NEW x
  PROVE  LET n == StoreVar(m, o, x)
         IN  /\ DOMAIN n = Fields /\ n.vr = m.vr /\ n.sp = m.sp
             /\ n.object = m.object /\ n.exc = m.exc /\ n.local = m.local
<1>1. CASE o \in Cached(m)
  <2>1. StoreVar(m, o, x) = [m EXCEPT !.reg = [m.reg EXCEPT ![o] = x]]
    BY <1>1 DEF StoreVar
  <2> QED  BY <2>1, WithReg
<1>2. CASE o \notin Cached(m)
  <2>1. StoreVar(m, o, x) = [m EXCEPT !.mem = [m.mem EXCEPT ![Fp - o] = x]]
    BY <1>2 DEF StoreVar
  <2> QED  BY <2>1, WithMem
<1> QED  BY <1>1, <1>2

\* The frame with the word at o set.
Put(f, o, x) == [f EXCEPT ![Fp - o] = x]

\* The interpreter's store.
LEMMA SetVarFields ==
  ASSUME NEW n, DOMAIN n = Fields, NEW o, NEW y
  PROVE  /\ DOMAIN SetVar(n, o, y) = Fields /\ SameRegisters(SetVar(n, o, y), n)
         /\ SetVar(n, o, y).reg = n.reg
         /\ SetVar(n, o, y).mem = Put(n.mem, o, Low(y, WordBits))
<1>1. SetVar(n, o, y) = [n EXCEPT !.mem = Put(n.mem, o, Low(y, WordBits))]
  BY DEF SetVar, Put
<1> QED  BY <1>1, WithMem DEF SameRegisters

\* The interpreter's 64-bit store.
LEMMA SetVar64Fields ==
  ASSUME NEW n, DOMAIN n = Fields, NEW o, NEW y
  PROVE  /\ DOMAIN SetVar64(n, o, y) = Fields /\ SameRegisters(SetVar64(n, o, y), n)
         /\ SetVar64(n, o, y).reg = n.reg
         /\ SetVar64(n, o, y).mem = Both(n.mem, o, Halves(y))
<1>1. SetVar64(n, o, y) = [n EXCEPT !.mem = Both(n.mem, o, Halves(y))]
  BY Zenon DEF SetVar64, Both, Halves
<1> QED  BY <1>1, WithMem DEF SameRegisters

-----------------------------------------------------------------------------
(* Twins: two states with the same program state, whatever is cached. Each *)
(* operation of the helpers gives twins from twins.                        *)

Twins(m, n, R, D) ==
  /\ DOMAIN m = Fields /\ DOMAIN n = Fields
  /\ m.mem = n.mem /\ SameRegisters(m, n)
  /\ m.reg = R /\ m.local = FALSE
  /\ DOMAIN m.mem = D /\ m.mem = [at \in D |-> m.mem[at]]

\* Twins with the same memory set.
LEMMA TwinsMem ==
  ASSUME NEW m, NEW n, NEW R, NEW D, Twins(m, n, R, D), NEW f,
         f = [at \in D |-> f[at]]
  PROVE  Twins([m EXCEPT !.mem = f], [n EXCEPT !.mem = f], R, D)
<1>1. DOMAIN f = D
  OBVIOUS
<1> QED  BY <1>1 DEF Twins, Fields, SameRegisters

\* Twins with the same value register set.
LEMMA TwinsVr ==
  ASSUME NEW m, NEW n, NEW R, NEW D, Twins(m, n, R, D), NEW x
  PROVE  Twins([m EXCEPT !.vr = x], [n EXCEPT !.vr = x], R, D)
BY Zenon DEF Twins, Fields, SameRegisters

\* Twins with the same stack pointer set.
LEMMA TwinsSp ==
  ASSUME NEW m, NEW n, NEW R, NEW D, Twins(m, n, R, D), NEW x
  PROVE  Twins([m EXCEPT !.sp = x], [n EXCEPT !.sp = x], R, D)
BY Zenon DEF Twins, Fields, SameRegisters

\* Twins with the same object register set.
LEMMA TwinsObject ==
  ASSUME NEW m, NEW n, NEW R, NEW D, Twins(m, n, R, D), NEW x
  PROVE  Twins([m EXCEPT !.object = x], [n EXCEPT !.object = x], R, D)
BY Zenon DEF Twins, Fields, SameRegisters

\* Twins with the same exception set.
LEMMA TwinsExc ==
  ASSUME NEW m, NEW n, NEW R, NEW D, Twins(m, n, R, D), NEW x
  PROVE  Twins(SetInternalException(m, x), SetInternalException(n, x), R, D)
BY Zenon DEF Twins, Fields, SameRegisters, SetInternalException

\* Twins with the same word written.
LEMMA TwinsWord ==
  ASSUME NEW m, NEW n, NEW R, NEW D, Twins(m, n, R, D), NEW at, NEW x
  PROVE  Twins([m EXCEPT !.mem[at] = x], [n EXCEPT !.mem[at] = x], R, D)
<1> DEFINE f == [m.mem EXCEPT ![at] = x]
<1>1. f = [y \in D |-> f[y]]
  BY DEF Twins
<1>2. [m EXCEPT !.mem[at] = x] = [m EXCEPT !.mem = f]
  OBVIOUS
<1>3. [n EXCEPT !.mem[at] = x] = [n EXCEPT !.mem = f]
  BY DEF Twins
<1> HIDE DEF f
<1> QED  BY <1>1, <1>2, <1>3, TwinsMem

\* SetVar
LEMMA TwinsSetVar ==
  ASSUME NEW m, NEW n, NEW R, NEW D, Twins(m, n, R, D), NEW o, NEW x
  PROVE  Twins(SetVar(m, o, x), SetVar(n, o, x), R, D)
BY TwinsWord, Zenon DEF SetVar

\* SetVar64
LEMMA TwinsSetVar64 ==
  ASSUME NEW m, NEW n, NEW R, NEW D, Twins(m, n, R, D), NEW o, NEW x
  PROVE  Twins(SetVar64(m, o, x), SetVar64(n, o, x), R, D)
<1> DEFINE f == Both(m.mem, o, Halves(x))
<1>1. f = [y \in D |-> f[y]]
  BY Zenon DEF Twins, Both
<1>2. SetVar64(m, o, x) = [m EXCEPT !.mem = f]
  BY Zenon DEF SetVar64, Both, Halves
<1>3. SetVar64(n, o, x) = [n EXCEPT !.mem = f]
  <2>1. SetVar64(n, o, x) = [n EXCEPT !.mem = Both(n.mem, o, Halves(x))]
    BY Zenon DEF SetVar64, Both, Halves
  <2> QED  BY <2>1, Zenon DEF Twins
<1> HIDE DEF f
<1> QED  BY <1>1, <1>2, <1>3, TwinsMem

\* SetResult
LEMMA TwinsSetResult ==
  ASSUME NEW m, NEW n, NEW R, NEW D, Twins(m, n, R, D), NEW x
  PROVE  Twins(SetResult(m, x), SetResult(n, x), R, D)
<1>1. SetResult(m, x) = [m EXCEPT !.vr = [m.vr EXCEPT ![1] = Low(x, WordBits)]]
  BY DEF SetResult
<1>2. SetResult(n, x) = [n EXCEPT !.vr = [m.vr EXCEPT ![1] = Low(x, WordBits)]]
  BY DEF SetResult, Twins, SameRegisters
<1> QED  BY <1>1, <1>2, TwinsVr

\* Pushed
LEMMA TwinsPushed ==
  ASSUME NEW m, NEW n, NEW R, NEW D, Twins(m, n, R, D), NEW words
  PROVE  Twins(Pushed(m, words), Pushed(n, words), R, D)
<1> DEFINE k == Len(words)
           f == [a \in DOMAIN m.mem |->
                   IF a \in m.sp - k..m.sp - 1
                   THEN words[a - (m.sp - k) + 1] ELSE m.mem[a]]
<1>1. f = [y \in D |-> f[y]]
  BY DEF Twins
<1>2. PICK g : g = f
  BY Zenon
<1>3. Pushed(m, words) = [[m EXCEPT !.sp = m.sp - k] EXCEPT !.mem = g]
  BY <1>2 DEF Pushed
<1>4. Pushed(n, words) = [[n EXCEPT !.sp = m.sp - k] EXCEPT !.mem = g]
  BY <1>2 DEF Pushed, Twins, SameRegisters
<1>5. g = [y \in D |-> g[y]]
  BY <1>1, <1>2
<1>6. PICK p, q : p = [m EXCEPT !.sp = m.sp - k] /\ q = [n EXCEPT !.sp = m.sp - k]
  BY Zenon
<1>7. Twins(p, q, R, D)
  BY <1>6, TwinsSp, Zenon
<1>8. Twins([p EXCEPT !.mem = g], [q EXCEPT !.mem = g], R, D)
  BY <1>5, <1>7, TwinsMem
<1> HIDE DEF f, k
<1> QED  BY <1>3, <1>4, <1>6, <1>8

\* Popped
LEMMA TwinsPopped ==
  ASSUME NEW m, NEW n, NEW R, NEW D, Twins(m, n, R, D)
  PROVE  Twins(Popped(m), Popped(n), R, D)
<1>1. Popped(m) = [m EXCEPT !.sp = m.sp + 1]
  BY DEF Popped
<1>2. Popped(n) = [n EXCEPT !.sp = m.sp + 1]
  BY DEF Popped, Twins, SameRegisters
<1> QED  BY <1>1, <1>2, TwinsSp

\* Twins have the same variables, stack and memory.
LEMMA TwinsRead ==
  ASSUME NEW m, NEW n, NEW R, NEW D, Twins(m, n, R, D)
  PROVE  /\ m.mem = n.mem /\ m.vr = n.vr /\ m.sp = n.sp /\ m.object = n.object
         /\ Top(m) = Top(n)
         /\ \A o : Var(m, o) = Var(n, o) /\ Var64(m, o) = Var64(n, o)
BY DEF Twins, SameRegisters, Top, Var, Var64

\* SetTop
LEMMA TwinsSetTop ==
  ASSUME NEW m, NEW n, NEW R, NEW D, Twins(m, n, R, D), NEW x
  PROVE  Twins(SetTop(m, x), SetTop(n, x), R, D)
<1>1. SetTop(m, x) = [m EXCEPT !.mem[m.sp] = x]
  BY DEF SetTop
<1>2. SetTop(n, x) = [n EXCEPT !.mem[m.sp] = x]
  BY TwinsRead DEF SetTop
<1>3. Twins([m EXCEPT !.mem[m.sp] = x], [n EXCEPT !.mem[m.sp] = x], R, D)
  BY TwinsWord, Zenon
<1> QED  BY <1>1, <1>2, <1>3, Zenon

\* AddRef and Release
LEMMA TwinsAddRef ==
  ASSUME NEW m, NEW n, NEW R, NEW D, Twins(m, n, R, D), NEW x
  PROVE  /\ Twins(AddRef(m, x), AddRef(n, x), R, D)
         /\ Twins(Release(m, x), Release(n, x), R, D)
<1>1. /\ AddRef(m, x) = [m EXCEPT !.mem[x] = m.mem[x] + 1]
      /\ Release(m, x) = [m EXCEPT !.mem[x] = m.mem[x] - 1]
  BY DEF AddRef, Release
<1>2. /\ AddRef(n, x) = [n EXCEPT !.mem[x] = m.mem[x] + 1]
      /\ Release(n, x) = [n EXCEPT !.mem[x] = m.mem[x] - 1]
  BY TwinsRead DEF AddRef, Release
<1>3. /\ Twins([m EXCEPT !.mem[x] = m.mem[x] + 1], [n EXCEPT !.mem[x] = m.mem[x] + 1], R, D)
      /\ Twins([m EXCEPT !.mem[x] = m.mem[x] - 1], [n EXCEPT !.mem[x] = m.mem[x] - 1], R, D)
  BY TwinsWord, Zenon
<1> QED  BY <1>1, <1>2, <1>3, Zenon

\* Replaced
LEMMA TwinsReplaced ==
  ASSUME NEW m, NEW n, NEW R, NEW D, Twins(m, n, R, D), NEW d, NEW s
  PROVE  Twins(Replaced(m, d, s), Replaced(n, d, s), R, D)
<1>1. m.mem[d] = n.mem[d]
  BY TwinsRead
<1>2. PICK p, q : /\ p = IF m.mem[d] = 0 THEN m ELSE Release(m, m.mem[d])
                  /\ q = IF m.mem[d] = 0 THEN n ELSE Release(n, m.mem[d])
  OBVIOUS
<1>3. Twins(p, q, R, D)
  BY <1>2, TwinsAddRef
<1>4. PICK v, w : /\ v = IF s = 0 THEN p ELSE AddRef(p, s)
                  /\ w = IF s = 0 THEN q ELSE AddRef(q, s)
  OBVIOUS
<1>5. Twins(v, w, R, D)
  BY <1>3, <1>4, TwinsAddRef
<1>6. Twins([v EXCEPT !.mem[d] = s], [w EXCEPT !.mem[d] = s], R, D)
  BY <1>5, TwinsWord
<1>7. Replaced(m, d, s) = [v EXCEPT !.mem[d] = s]
  BY <1>2, <1>4 DEF Replaced
<1>8. Replaced(n, d, s) = [w EXCEPT !.mem[d] = s]
  BY <1>1, <1>2, <1>4 DEF Replaced
<1> QED  BY <1>6, <1>7, <1>8

\* NullCheck
LEMMA TwinsNullCheck ==
  ASSUME NEW m, NEW n, NEW R, NEW D, Twins(m, n, R, D), NEW x,
         NEW r, NEW t, Twins(r, t, R, D)
  PROVE  Twins(NullCheck(m, x, r), NullCheck(n, x, t), R, D)
BY TwinsExc DEF NullCheck

-----------------------------------------------------------------------------
(* The helpers give twins from twins, group by group.                      *)

LEMMA NegateTwins ==
  ASSUME NEW m, NEW n, NEW R, NEW D, Twins(m, n, R, D), NEW i, i.op \in NegateOps
  PROVE  Twins(Negate(i, m), Negate(i, n), R, D)
BY TwinsRead, TwinsSetVar, TwinsSetVar64
   DEF Negate, NegateOps

LEMMA StepTwins ==
  ASSUME NEW m, NEW n, NEW R, NEW D, Twins(m, n, R, D), NEW i, i.op \in StepOps
  PROVE  Twins(Step(i, m), Step(i, n), R, D)
BY TwinsRead, TwinsSetVar, TwinsSetVar64
   DEF Step, StepOps

LEMMA StepVariableTwins ==
  ASSUME NEW m, NEW n, NEW R, NEW D, Twins(m, n, R, D), NEW i, i.op \in StepVariableOps
  PROVE  Twins(StepVariable(i, m), StepVariable(i, n), R, D)
BY TwinsRead, TwinsSetVar
   DEF StepVariable, StepVariableOps

LEMMA BitTwins ==
  ASSUME NEW m, NEW n, NEW R, NEW D, Twins(m, n, R, D), NEW i, i.op \in BitOps
  PROVE  Twins(Bit(i, m), Bit(i, n), R, D)
BY TwinsRead, TwinsSetVar
   DEF Bit, BitOps

LEMMA ConvertTwins ==
  ASSUME NEW m, NEW n, NEW R, NEW D, Twins(m, n, R, D), NEW i, i.op \in ConvertOps
  PROVE  Twins(Convert(i, m), Convert(i, n), R, D)
BY TwinsRead, TwinsSetVar
   DEF Convert, ConvertOps

LEMMA ExtendPartTwins ==
  ASSUME NEW m, NEW n, NEW R, NEW D, Twins(m, n, R, D), NEW i, i.op \in ExtendOps
  PROVE  Twins(ExtendPart(i, m), ExtendPart(i, n), R, D)
BY TwinsRead, TwinsSetVar
   DEF ExtendPart, ExtendOps

LEMMA ConvertDoubleTwins ==
  ASSUME NEW m, NEW n, NEW R, NEW D, Twins(m, n, R, D), NEW i, i.op \in ConvertDoubleOps
  PROVE  Twins(ConvertDouble(i, m), ConvertDouble(i, n), R, D)
BY TwinsRead, TwinsSetVar, TwinsSetVar64
   DEF ConvertDouble, ConvertDoubleOps

LEMMA IntegerTwins ==
  ASSUME NEW m, NEW n, NEW R, NEW D, Twins(m, n, R, D), NEW i, i.op \in IntegerOps
  PROVE  Twins(Integer(i, m), Integer(i, n), R, D)
BY TwinsRead, TwinsSetVar
   DEF Integer, IntegerOps

LEMMA DivideTwins ==
  ASSUME NEW m, NEW n, NEW R, NEW D, Twins(m, n, R, D), NEW i, i.op \in DivideOps
  PROVE  Twins(Divide(i, m), Divide(i, n), R, D)
BY TwinsRead, TwinsSetVar, TwinsExc
   DEF Divide, DivideOps, DivideSigned

LEMMA FloatTwins ==
  ASSUME NEW m, NEW n, NEW R, NEW D, Twins(m, n, R, D), NEW i, i.op \in FloatOps
  PROVE  Twins(Float(i, m), Float(i, n), R, D)
BY TwinsRead, TwinsSetVar, TwinsExc
   DEF Float, FloatOps

LEMMA DoubleTwins ==
  ASSUME NEW m, NEW n, NEW R, NEW D, Twins(m, n, R, D), NEW i, i.op \in DoubleOps
  PROVE  Twins(Double(i, m), Double(i, n), R, D)
BY TwinsRead, TwinsSetVar64, TwinsExc
   DEF Double, DoubleOps

LEMMA IntegerImmediateTwins ==
  ASSUME NEW m, NEW n, NEW R, NEW D, Twins(m, n, R, D), NEW i, i.op \in IntegerImmediateOps
  PROVE  Twins(IntegerImmediate(i, m), IntegerImmediate(i, n), R, D)
BY TwinsRead, TwinsSetVar
   DEF IntegerImmediate, IntegerImmediateOps

LEMMA FloatImmediateTwins ==
  ASSUME NEW m, NEW n, NEW R, NEW D, Twins(m, n, R, D), NEW i, i.op \in FloatImmediateOps
  PROVE  Twins(FloatImmediate(i, m), FloatImmediate(i, n), R, D)
BY TwinsRead, TwinsSetVar
   DEF FloatImmediate, FloatImmediateOps

LEMMA SetGlobalTwins ==
  ASSUME NEW m, NEW n, NEW R, NEW D, Twins(m, n, R, D), NEW i, i.op \in SetGlobalOps
  PROVE  Twins(SetGlobal(i, m), SetGlobal(i, n), R, D)
BY TwinsWord, Zenon DEF SetGlobal, SetGlobalOps

LEMMA NarrowTwins ==
  ASSUME NEW m, NEW n, NEW R, NEW D, Twins(m, n, R, D), NEW i, i.op \in NarrowOps
  PROVE  Twins(Narrow(i, m), Narrow(i, n), R, D)
BY TwinsRead, TwinsSetVar
   DEF Narrow, NarrowOps

LEMMA Convert64Twins ==
  ASSUME NEW m, NEW n, NEW R, NEW D, Twins(m, n, R, D), NEW i, i.op \in Convert64Ops
  PROVE  Twins(Convert64(i, m), Convert64(i, n), R, D)
BY TwinsRead, TwinsSetVar, TwinsSetVar64
   DEF Convert64, Convert64Ops

LEMMA Unary64Twins ==
  ASSUME NEW m, NEW n, NEW R, NEW D, Twins(m, n, R, D), NEW i, i.op \in Unary64Ops
  PROVE  Twins(Unary64(i, m), Unary64(i, n), R, D)
BY TwinsRead, TwinsSetVar64
   DEF Unary64, Unary64Ops

LEMMA Integer64Twins ==
  ASSUME NEW m, NEW n, NEW R, NEW D, Twins(m, n, R, D), NEW i, i.op \in Integer64Ops
  PROVE  Twins(Integer64(i, m), Integer64(i, n), R, D)
BY TwinsRead, TwinsSetVar64
   DEF Integer64, Integer64Ops

LEMMA Divide64Twins ==
  ASSUME NEW m, NEW n, NEW R, NEW D, Twins(m, n, R, D), NEW i, i.op \in Divide64Ops
  PROVE  Twins(Divide64(i, m), Divide64(i, n), R, D)
BY TwinsRead, TwinsSetVar64, TwinsExc
   DEF Divide64, Divide64Ops, DivideSigned

LEMMA Bit64Twins ==
  ASSUME NEW m, NEW n, NEW R, NEW D, Twins(m, n, R, D), NEW i, i.op \in Bit64Ops
  PROVE  Twins(Bit64(i, m), Bit64(i, n), R, D)
BY TwinsRead, TwinsSetVar64
   DEF Bit64, Bit64Ops

LEMMA Shift64Twins ==
  ASSUME NEW m, NEW n, NEW R, NEW D, Twins(m, n, R, D), NEW i, i.op \in Shift64Ops
  PROVE  Twins(Shift64(i, m), Shift64(i, n), R, D)
BY TwinsRead, TwinsSetVar64
   DEF Shift64, Shift64Ops

LEMMA Compare64Twins ==
  ASSUME NEW m, NEW n, NEW R, NEW D, Twins(m, n, R, D), NEW i, i.op \in Compare64Ops
  PROVE  Twins(Compare64(i, m), Compare64(i, n), R, D)
BY TwinsRead, TwinsSetResult
   DEF Compare64, Compare64Ops

LEMMA ClearHighTwins ==
  ASSUME NEW m, NEW n, NEW R, NEW D, Twins(m, n, R, D), NEW i, i.op \in ClearHighOps
  PROVE  Twins(ClearHigh(i, m), ClearHigh(i, n), R, D)
<1>1. ClearHigh(i, m) = [m EXCEPT !.vr = [m.vr EXCEPT ![1] = Low(m.vr[1], ByteBits)]]
  BY DEF ClearHigh
<1>2. ClearHigh(i, n) = [n EXCEPT !.vr = [m.vr EXCEPT ![1] = Low(m.vr[1], ByteBits)]]
  BY TwinsRead DEF ClearHigh
<1> QED  BY <1>1, <1>2, TwinsVr

LEMMA DivideUnsignedTwins ==
  ASSUME NEW m, NEW n, NEW R, NEW D, Twins(m, n, R, D), NEW i, i.op \in DivideUnsignedOps
  PROVE  Twins(DivideUnsigned(i, m), DivideUnsigned(i, n), R, D)
BY TwinsRead, TwinsSetVar, TwinsExc
   DEF DivideUnsigned, DivideUnsignedOps

LEMMA DivideUnsigned64Twins ==
  ASSUME NEW m, NEW n, NEW R, NEW D, Twins(m, n, R, D), NEW i, i.op \in DivideUnsigned64Ops
  PROVE  Twins(DivideUnsigned64(i, m), DivideUnsigned64(i, n), R, D)
BY TwinsRead, TwinsSetVar64, TwinsExc
   DEF DivideUnsigned64, DivideUnsigned64Ops

LEMMA TestTwins ==
  ASSUME NEW m, NEW n, NEW R, NEW D, Twins(m, n, R, D), NEW i, i.op \in TestOps
  PROVE  Twins(Test(i, m), Test(i, n), R, D)
<1> DEFINE Tested(w) ==
             LET x == Signed(w[1], WordBits)
                 holds == CASE i.op \in {"TZ", "TNZ"} -> (x = 0) = (i.op = "TZ")
                            [] i.op \in {"TS", "TNS"} -> (x < 0) = (i.op = "TS")
                            [] i.op \in {"TP", "TNP"} -> (x > 0) = (i.op = "TP")
             IN  <<Truth(holds), 0>>
<1>1. Test(i, m) = [m EXCEPT !.vr = Tested(m.vr)]
  BY Zenon DEF Test
<1>2. Test(i, n) = [n EXCEPT !.vr = Tested(n.vr)]
  BY Zenon DEF Test
<1> HIDE DEF Tested
<1>3. m.vr = n.vr
  BY TwinsRead
<1>4. Test(i, n) = [n EXCEPT !.vr = Tested(m.vr)]
  BY <1>2, <1>3, Zenon
<1> QED  BY <1>1, <1>4, TwinsVr

LEMMA CompareVariablesTwins ==
  ASSUME NEW m, NEW n, NEW R, NEW D, Twins(m, n, R, D), NEW i, i.op \in CompareOps
  PROVE  Twins(CompareVariables(i, m), CompareVariables(i, n), R, D)
BY TwinsRead, TwinsSetResult
   DEF CompareVariables, CompareOps

LEMMA RaiseToPowerTwins ==
  ASSUME NEW m, NEW n, NEW R, NEW D, Twins(m, n, R, D), NEW i, i.op \in PowerOps
  PROVE  Twins(RaiseToPower(i, m), RaiseToPower(i, n), R, D)
BY TwinsRead, TwinsSetVar, TwinsSetVar64, TwinsExc
   DEF RaiseToPower, PowerOps

LEMMA PushTwins ==
  ASSUME NEW m, NEW n, NEW R, NEW D, Twins(m, n, R, D), NEW i, i.op \in PushOps
  PROVE  Twins(Push(i, m), Push(i, n), R, D)
<1>1. CASE i.op = "SwapPtr"
  <2>1. PICK p, q : /\ p = [m EXCEPT !.mem[m.sp] = m.mem[m.sp + 1]]
                    /\ q = [n EXCEPT !.mem[m.sp] = m.mem[m.sp + 1]]
    BY Zenon
  <2>2. Twins(p, q, R, D)
    BY <2>1, TwinsWord, Zenon
  <2>3. Twins([p EXCEPT !.mem[m.sp + 1] = m.mem[m.sp]],
              [q EXCEPT !.mem[m.sp + 1] = m.mem[m.sp]], R, D)
    BY <2>2, TwinsWord, Zenon
  <2>4. Push(i, m) = [p EXCEPT !.mem[m.sp + 1] = m.mem[m.sp]]
    BY <1>1, <2>1 DEF Push
  <2>5. Push(i, n) = [n EXCEPT !.mem[n.sp] = n.mem[n.sp + 1],
                               !.mem[n.sp + 1] = n.mem[n.sp]]
    BY <1>1 DEF Push
  <2>6. n.sp = m.sp /\ n.mem = m.mem
    BY TwinsRead
  <2> QED  BY <2>1, <2>3, <2>4, <2>5, <2>6
<1>2. CASE i.op # "SwapPtr"
  BY <1>2, TwinsRead, TwinsPushed, TwinsPopped DEF Push, PushOps
<1> QED  BY <1>1, <1>2

LEMMA LoadGlobalTwins ==
  ASSUME NEW m, NEW n, NEW R, NEW D, Twins(m, n, R, D), NEW i, i.op \in LoadGlobalOps
  PROVE  Twins(LoadGlobal(i, m), LoadGlobal(i, n), R, D)
BY TwinsRead, TwinsSetVar, TwinsSetResult
   DEF LoadGlobal, LoadGlobalOps

LEMMA CopyTwins ==
  ASSUME NEW m, NEW n, NEW R, NEW D, Twins(m, n, R, D), NEW i, i.op \in CopyOps
  PROVE  Twins(Copy(i, m), Copy(i, n), R, D)
<1>1. PICK p, q : p = Popped(m) /\ q = Popped(n)
  OBVIOUS
<1>2. Twins(p, q, R, D) /\ Top(m) = Top(n)
  BY <1>1, TwinsPopped, TwinsRead
<1>3. p.mem = q.mem /\ p.sp = q.sp /\ Top(p) = Top(q)
  BY <1>2, TwinsRead
<1>4. PICK d : d = Top(m)
  OBVIOUS
<1>5. PICK f : f = [x \in DOMAIN p.mem |->
                      IF x = p.sp THEN d
                      ELSE IF x \in d..d + i.a - 1 THEN p.mem[Top(p) + x - d]
                      ELSE p.mem[x]]
  BY Zenon
<1>6. f = [x \in D |-> f[x]]
  BY <1>2, <1>5 DEF Twins
<1>7. Twins([p EXCEPT !.mem = f], [q EXCEPT !.mem = f], R, D)
  BY <1>2, <1>6, TwinsMem
<1>8. Copy(i, m) = IF d = 0 \/ Top(p) = 0
                   THEN SetInternalException(p, "TXT_NULL_POINTER_ACCESS")
                   ELSE [p EXCEPT !.mem = f]
  BY <1>1, <1>4, <1>5 DEF Copy
<1>9. Copy(i, n) = IF d = 0 \/ Top(p) = 0
                   THEN SetInternalException(q, "TXT_NULL_POINTER_ACCESS")
                   ELSE [q EXCEPT !.mem = f]
  BY <1>1, <1>2, <1>3, <1>4, <1>5 DEF Copy
<1>10. Twins(SetInternalException(p, "TXT_NULL_POINTER_ACCESS"),
             SetInternalException(q, "TXT_NULL_POINTER_ACCESS"), R, D)
  BY <1>2, TwinsExc
<1> QED  BY <1>7, <1>8, <1>9, <1>10

LEMMA PushMoreTwins ==
  ASSUME NEW m, NEW n, NEW R, NEW D, Twins(m, n, R, D), NEW i, i.op \in PushMoreOps
  PROVE  Twins(PushMore(i, m), PushMore(i, n), R, D)
BY TwinsRead, TwinsSetResult, TwinsPushed, TwinsPopped, TwinsSetTop, TwinsNullCheck
   DEF PushMore, PushMoreOps

LEMMA SetVariableTwins ==
  ASSUME NEW m, NEW n, NEW R, NEW D, Twins(m, n, R, D), NEW i, i.op \in SetVariableOps
  PROVE  Twins(SetVariable(i, m), SetVariable(i, n), R, D)
BY TwinsSetVar, TwinsSetVar64
   DEF SetVariable, SetVariableOps

LEMMA AddAddressTwins ==
  ASSUME NEW m, NEW n, NEW R, NEW D, Twins(m, n, R, D), NEW i, i.op \in AddAddressOps
  PROVE  Twins(AddAddress(i, m), AddAddress(i, n), R, D)
BY TwinsRead, TwinsSetTop, TwinsNullCheck
   DEF AddAddress, AddAddressOps

LEMMA CopyVariableTwins ==
  ASSUME NEW m, NEW n, NEW R, NEW D, Twins(m, n, R, D), NEW i, i.op \in CopyVariableOps
  PROVE  Twins(CopyVariable(i, m), CopyVariable(i, n), R, D)
<1>1. CASE i.op = "CpyVtoR8"
  BY <1>1, TwinsRead, TwinsVr DEF CopyVariable
<1>2. CASE i.op = "CpyVtoG4"
  <2>1. PICK x : x = Var(m, i.a) /\ x = Var(n, i.a)
    BY TwinsRead
  <2>2. CopyVariable(i, m) = [m EXCEPT !.mem[i.p] = x]
        /\ CopyVariable(i, n) = [n EXCEPT !.mem[i.p] = x]
    BY <1>2, <2>1 DEF CopyVariable
  <2> QED  BY <2>2, TwinsWord
<1>3. CASE i.op \notin {"CpyVtoR8", "CpyVtoG4"}
  BY <1>3, TwinsRead, TwinsSetVar, TwinsSetVar64, TwinsSetResult
     DEF CopyVariable, CopyVariableOps
<1> QED  BY <1>1, <1>2, <1>3

LEMMA IndirectTwins ==
  ASSUME NEW m, NEW n, NEW R, NEW D, Twins(m, n, R, D), NEW i, i.op \in IndirectOps
  PROVE  Twins(Indirect(i, m), Indirect(i, n), R, D)
BY TwinsRead, TwinsSetVar, TwinsSetVar64
   DEF Indirect, IndirectOps

LEMMA AddressTwins ==
  ASSUME NEW m, NEW n, NEW R, NEW D, Twins(m, n, R, D), NEW i, i.op \in AddressOps
  PROVE  Twins(Address(i, m), Address(i, n), R, D)
BY TwinsRead, TwinsSetResult, TwinsPushed
   DEF Address, AddressOps

LEMMA FreeTwins ==
  ASSUME NEW m, NEW n, NEW R, NEW D, Twins(m, n, R, D), NEW i, i.op \in FreeOps
  PROVE  Twins(Free(i, m), Free(i, n), R, D)
BY TwinsRead, TwinsSetVar, TwinsAddRef
   DEF Free, FreeOps

LEMMA ObjectRegisterTwins ==
  ASSUME NEW m, NEW n, NEW R, NEW D, Twins(m, n, R, D), NEW i, i.op \in ObjectRegisterOps
  PROVE  Twins(ObjectRegister(i, m), ObjectRegister(i, n), R, D)
<1>1. CASE i.op = "LOADOBJ"
  <2>1. PICK p, q : p = [m EXCEPT !.object = Var(m, i.a)]
                    /\ q = [n EXCEPT !.object = Var(m, i.a)]
    BY Zenon
  <2>2. Twins(p, q, R, D)
    BY <2>1, TwinsObject
  <2>3. Twins(SetVar(p, i.a, 0), SetVar(q, i.a, 0), R, D)
    BY <2>2, TwinsSetVar
  <2> QED  BY <1>1, <2>1, <2>3, TwinsRead DEF ObjectRegister
<1>2. CASE i.op # "LOADOBJ"
  <2>1. PICK p, q : p = SetVar(m, i.a, m.object) /\ q = SetVar(n, i.a, m.object)
    OBVIOUS
  <2>2. Twins(p, q, R, D)
    BY <2>1, TwinsSetVar
  <2>3. Twins([p EXCEPT !.object = 0], [q EXCEPT !.object = 0], R, D)
    BY <2>2, TwinsObject, Zenon
  <2> QED  BY <1>2, <2>1, <2>3, TwinsRead DEF ObjectRegister
<1> QED  BY <1>1, <1>2

LEMMA ArgumentTwins ==
  ASSUME NEW m, NEW n, NEW R, NEW D, Twins(m, n, R, D), NEW i, i.op \in ArgumentOps
  PROVE  Twins(Argument(i, m), Argument(i, n), R, D)
<1> DEFINE at == m.sp + i.a
           o == m.mem[at]
<1>1. n.sp + i.a = at /\ n.mem[at] = o /\ Var(n, o) = Var(m, o)
  BY TwinsRead
<1>2. PICK p, q : p = [m EXCEPT !.mem[at] = Var(m, o)]
                  /\ q = [n EXCEPT !.mem[at] = Var(m, o)]
  BY Zenon
<1>3. Twins(p, q, R, D)
  BY <1>2, TwinsWord
<1>4. Twins(SetVar(p, o, 0), SetVar(q, o, 0), R, D)
  BY <1>3, TwinsSetVar
<1>5. Twins([m EXCEPT !.mem[at] = Fp - o], [n EXCEPT !.mem[at] = Fp - o], R, D)
  BY TwinsWord
<1>6. CASE i.op = "GETOBJ"
  <2>1. Argument(i, m) = SetVar(p, o, 0) /\ Argument(i, n) = SetVar(q, o, 0)
    BY <1>1, <1>2, <1>6 DEF Argument
  <2> QED  BY <2>1, <1>4
<1>7. CASE i.op = "GETOBJREF"
  <2>1. Argument(i, m) = p /\ Argument(i, n) = q
    BY <1>1, <1>2, <1>7 DEF Argument
  <2> QED  BY <2>1, <1>3
<1>8. CASE i.op = "GETREF"
  <2>1. Argument(i, m) = [m EXCEPT !.mem[at] = Fp - o]
        /\ Argument(i, n) = [n EXCEPT !.mem[at] = Fp - o]
    BY <1>1, <1>8 DEF Argument
  <2> QED  BY <2>1, <1>5
<1> QED  BY <1>6, <1>7, <1>8 DEF ArgumentOps

LEMMA ReferenceCopyTwins ==
  ASSUME NEW m, NEW n, NEW R, NEW D, Twins(m, n, R, D), NEW i, i.op \in ReferenceCopyOps
  PROVE  Twins(ReferenceCopy(i, m), ReferenceCopy(i, n), R, D)
BY TwinsRead, TwinsPopped, TwinsReplaced
   DEF ReferenceCopy, ReferenceCopyOps

LEMMA CheckTwins ==
  ASSUME NEW m, NEW n, NEW R, NEW D, Twins(m, n, R, D), NEW i, i.op \in CheckOps
  PROVE  Twins(Check(i, m), Check(i, n), R, D)
BY TwinsRead, TwinsNullCheck
   DEF Check, CheckOps

LEMMA PushObjectTwins ==
  ASSUME NEW m, NEW n, NEW R, NEW D, Twins(m, n, R, D), NEW i, i.op \in PushObjectOps
  PROVE  Twins(PushObject(i, m), PushObject(i, n), R, D)
BY TwinsSetVar, TwinsPushed
   DEF PushObject, PushObjectOps

LEMMA CastTwins ==
  ASSUME NEW m, NEW n, NEW R, NEW D, Twins(m, n, R, D), NEW i, i.op \in CastOps
  PROVE  Twins(Cast(i, m), Cast(i, n), R, D)
<1> DEFINE s == IF Top(m) = 0 THEN 0 ELSE m.mem[Top(m)]
<1>1. PICK p, q : p = [m EXCEPT !.object = s] /\ q = [n EXCEPT !.object = s]
  BY Zenon
<1>2. Twins(p, q, R, D)
  BY <1>1, TwinsObject
<1>3. Twins(AddRef(p, s), AddRef(q, s), R, D)
  BY <1>2, TwinsAddRef
<1>4. PICK v, w : /\ v = IF s # 0 /\ i.kind = "derives" THEN AddRef(p, s) ELSE m
                  /\ w = IF s # 0 /\ i.kind = "derives" THEN AddRef(q, s) ELSE n
  OBVIOUS
<1>5. Twins(v, w, R, D)
  BY <1>3, <1>4
<1>6. Cast(i, m) = Popped(v)
  BY <1>1, <1>4 DEF Cast
<1>7. Cast(i, n) = Popped(w)
  BY <1>1, <1>4, TwinsRead DEF Cast
<1> QED  BY <1>5, <1>6, <1>7, TwinsPopped

LEMMA PropertyTwins ==
  ASSUME NEW m, NEW n, NEW R, NEW D, Twins(m, n, R, D), NEW i, i.op \in PropertyOps
  PROVE  Twins(Property(i, m), Property(i, n), R, D)
BY TwinsRead, TwinsSetResult, TwinsPushed, TwinsNullCheck
   DEF Property, PropertyOps

LEMMA ReferenceCopyVariableTwins ==
  ASSUME NEW m, NEW n, NEW R, NEW D, Twins(m, n, R, D), NEW i, i.op \in ReferenceCopyVariableOps
  PROVE  Twins(ReferenceCopyVariable(i, m), ReferenceCopyVariable(i, n), R, D)
BY TwinsRead, TwinsReplaced
   DEF ReferenceCopyVariable, ReferenceCopyVariableOps

LEMMA ListTwins ==
  ASSUME NEW m, NEW n, NEW R, NEW D, Twins(m, n, R, D), NEW i, i.op \in ListOps
  PROVE  Twins(List(i, m), List(i, n), R, D)
<1>1. PICK at : at = Var(m, i.a) + i.q[1] /\ at = Var(n, i.a) + i.q[1]
  BY TwinsRead
<1>2. CASE i.op = "PshListElmnt"
  <2>1. List(i, m) = Pushed(m, <<at>>) /\ List(i, n) = Pushed(n, <<at>>)
    BY <1>1, <1>2 DEF List
  <2> QED  BY <2>1, TwinsPushed
<1>3. CASE i.op # "PshListElmnt"
  <2>1. List(i, m) = [m EXCEPT !.mem[at] = i.q[2]]
        /\ List(i, n) = [n EXCEPT !.mem[at] = i.q[2]]
    BY <1>1, <1>3 DEF List
  <2>2. Twins([m EXCEPT !.mem[at] = i.q[2]], [n EXCEPT !.mem[at] = i.q[2]], R, D)
    BY TwinsWord, Zenon
  <2> QED  BY <2>1, <2>2, Zenon
<1> QED  BY <1>2, <1>3

\* Every instruction has the helper of its group: no instruction is in two.
LEMMA HelperOfGroup ==
  ASSUME NEW i, NEW m
  PROVE
    /\ i.op \in NegateOps => Interpret(i, m) = Negate(i, m)
    /\ i.op \in StepOps => Interpret(i, m) = Step(i, m)
    /\ i.op \in StepVariableOps => Interpret(i, m) = StepVariable(i, m)
    /\ i.op \in BitOps => Interpret(i, m) = Bit(i, m)
    /\ i.op \in ConvertOps => Interpret(i, m) = Convert(i, m)
    /\ i.op \in ExtendOps => Interpret(i, m) = ExtendPart(i, m)
    /\ i.op \in ConvertDoubleOps => Interpret(i, m) = ConvertDouble(i, m)
    /\ i.op \in IntegerOps => Interpret(i, m) = Integer(i, m)
    /\ i.op \in DivideOps => Interpret(i, m) = Divide(i, m)
    /\ i.op \in FloatOps => Interpret(i, m) = Float(i, m)
    /\ i.op \in DoubleOps => Interpret(i, m) = Double(i, m)
    /\ i.op \in IntegerImmediateOps => Interpret(i, m) = IntegerImmediate(i, m)
    /\ i.op \in FloatImmediateOps => Interpret(i, m) = FloatImmediate(i, m)
    /\ i.op \in SetGlobalOps => Interpret(i, m) = SetGlobal(i, m)
    /\ i.op \in NarrowOps => Interpret(i, m) = Narrow(i, m)
    /\ i.op \in Convert64Ops => Interpret(i, m) = Convert64(i, m)
    /\ i.op \in Unary64Ops => Interpret(i, m) = Unary64(i, m)
    /\ i.op \in Integer64Ops => Interpret(i, m) = Integer64(i, m)
    /\ i.op \in Divide64Ops => Interpret(i, m) = Divide64(i, m)
    /\ i.op \in Bit64Ops => Interpret(i, m) = Bit64(i, m)
    /\ i.op \in Shift64Ops => Interpret(i, m) = Shift64(i, m)
    /\ i.op \in Compare64Ops => Interpret(i, m) = Compare64(i, m)
    /\ i.op \in ClearHighOps => Interpret(i, m) = ClearHigh(i, m)
    /\ i.op \in DivideUnsignedOps => Interpret(i, m) = DivideUnsigned(i, m)
    /\ i.op \in DivideUnsigned64Ops => Interpret(i, m) = DivideUnsigned64(i, m)
    /\ i.op \in TestOps => Interpret(i, m) = Test(i, m)
    /\ i.op \in CompareOps => Interpret(i, m) = CompareVariables(i, m)
    /\ i.op \in PowerOps => Interpret(i, m) = RaiseToPower(i, m)
    /\ i.op \in PushOps => Interpret(i, m) = Push(i, m)
    /\ i.op \in LoadGlobalOps => Interpret(i, m) = LoadGlobal(i, m)
    /\ i.op \in CopyOps => Interpret(i, m) = Copy(i, m)
    /\ i.op \in PushMoreOps => Interpret(i, m) = PushMore(i, m)
    /\ i.op \in SetVariableOps => Interpret(i, m) = SetVariable(i, m)
    /\ i.op \in AddAddressOps => Interpret(i, m) = AddAddress(i, m)
    /\ i.op \in CopyVariableOps => Interpret(i, m) = CopyVariable(i, m)
    /\ i.op \in IndirectOps => Interpret(i, m) = Indirect(i, m)
    /\ i.op \in AddressOps => Interpret(i, m) = Address(i, m)
    /\ i.op \in FreeOps => Interpret(i, m) = Free(i, m)
    /\ i.op \in ObjectRegisterOps => Interpret(i, m) = ObjectRegister(i, m)
    /\ i.op \in ArgumentOps => Interpret(i, m) = Argument(i, m)
    /\ i.op \in ReferenceCopyOps => Interpret(i, m) = ReferenceCopy(i, m)
    /\ i.op \in CheckOps => Interpret(i, m) = Check(i, m)
    /\ i.op \in PushObjectOps => Interpret(i, m) = PushObject(i, m)
    /\ i.op \in CastOps => Interpret(i, m) = Cast(i, m)
    /\ i.op \in PropertyOps => Interpret(i, m) = Property(i, m)
    /\ i.op \in ReferenceCopyVariableOps => Interpret(i, m) = ReferenceCopyVariable(i, m)
    /\ i.op \in ListOps => Interpret(i, m) = List(i, m)
<1> USE DEF NegateOps, StepOps, StepVariableOps, BitOps, ConvertOps, ExtendOps,
            ConvertDoubleOps, IntegerOps, DivideOps, FloatOps, DoubleOps,
            IntegerImmediateOps, FloatImmediateOps, SetGlobalOps,
            NarrowOps, Convert64Ops, Unary64Ops, Integer64Ops,
            Divide64Ops, Bit64Ops, Shift64Ops, Compare64Ops, ClearHighOps,
            DivideUnsignedOps, DivideUnsigned64Ops, TestOps, CompareOps,
            PowerOps, PushOps, LoadGlobalOps, CopyOps, PushMoreOps,
            SetVariableOps, AddAddressOps, CopyVariableOps, IndirectOps,
            AddressOps, FreeOps, ObjectRegisterOps, ArgumentOps,
            ReferenceCopyOps, CheckOps, PushObjectOps, CastOps,
            PropertyOps, ReferenceCopyVariableOps, ListOps
<1>1. i.op \in NegateOps => Interpret(i, m) = Negate(i, m)
  BY Zenon DEF Interpret
<1>2. i.op \in StepOps => Interpret(i, m) = Step(i, m)
  BY Zenon DEF Interpret
<1>3. i.op \in StepVariableOps => Interpret(i, m) = StepVariable(i, m)
  BY Zenon DEF Interpret
<1>4. i.op \in BitOps => Interpret(i, m) = Bit(i, m)
  BY Zenon DEF Interpret
<1>5. i.op \in ConvertOps => Interpret(i, m) = Convert(i, m)
  BY Zenon DEF Interpret
<1>6. i.op \in ExtendOps => Interpret(i, m) = ExtendPart(i, m)
  BY Zenon DEF Interpret
<1>7. i.op \in ConvertDoubleOps => Interpret(i, m) = ConvertDouble(i, m)
  BY Zenon DEF Interpret
<1>8. i.op \in IntegerOps => Interpret(i, m) = Integer(i, m)
  BY Zenon DEF Interpret
<1>9. i.op \in DivideOps => Interpret(i, m) = Divide(i, m)
  BY Zenon DEF Interpret
<1>10. i.op \in FloatOps => Interpret(i, m) = Float(i, m)
  BY Zenon DEF Interpret
<1>11. i.op \in DoubleOps => Interpret(i, m) = Double(i, m)
  BY Zenon DEF Interpret
<1>12. i.op \in IntegerImmediateOps => Interpret(i, m) = IntegerImmediate(i, m)
  BY Zenon DEF Interpret
<1>13. i.op \in FloatImmediateOps => Interpret(i, m) = FloatImmediate(i, m)
  BY Zenon DEF Interpret
<1>14. i.op \in SetGlobalOps => Interpret(i, m) = SetGlobal(i, m)
  BY Zenon DEF Interpret
<1>15. i.op \in NarrowOps => Interpret(i, m) = Narrow(i, m)
  BY Zenon DEF Interpret
<1>16. i.op \in Convert64Ops => Interpret(i, m) = Convert64(i, m)
  BY Zenon DEF Interpret
<1>17. i.op \in Unary64Ops => Interpret(i, m) = Unary64(i, m)
  BY Zenon DEF Interpret
<1>18. i.op \in Integer64Ops => Interpret(i, m) = Integer64(i, m)
  BY DEF Interpret
<1>19. i.op \in Divide64Ops => Interpret(i, m) = Divide64(i, m)
  BY DEF Interpret
<1>20. i.op \in Bit64Ops => Interpret(i, m) = Bit64(i, m)
  BY DEF Interpret
<1>21. i.op \in Shift64Ops => Interpret(i, m) = Shift64(i, m)
  BY DEF Interpret
<1>22. i.op \in Compare64Ops => Interpret(i, m) = Compare64(i, m)
  BY DEF Interpret
<1>23. i.op \in ClearHighOps => Interpret(i, m) = ClearHigh(i, m)
  BY DEF Interpret
<1>24. i.op \in DivideUnsignedOps => Interpret(i, m) = DivideUnsigned(i, m)
  BY DEF Interpret
<1>25. i.op \in DivideUnsigned64Ops => Interpret(i, m) = DivideUnsigned64(i, m)
  BY DEF Interpret
<1>26. i.op \in TestOps => Interpret(i, m) = Test(i, m)
  BY DEF Interpret
<1>27. i.op \in CompareOps => Interpret(i, m) = CompareVariables(i, m)
  BY DEF Interpret
<1>28. i.op \in PowerOps => Interpret(i, m) = RaiseToPower(i, m)
  BY DEF Interpret
<1>29. i.op \in PushOps => Interpret(i, m) = Push(i, m)
  BY DEF Interpret
<1>30. i.op \in LoadGlobalOps => Interpret(i, m) = LoadGlobal(i, m)
  BY DEF Interpret
<1>31. i.op \in CopyOps => Interpret(i, m) = Copy(i, m)
  BY DEF Interpret
<1>32. i.op \in PushMoreOps => Interpret(i, m) = PushMore(i, m)
  BY DEF Interpret
<1>33. i.op \in SetVariableOps => Interpret(i, m) = SetVariable(i, m)
  BY DEF Interpret
<1>34. i.op \in AddAddressOps => Interpret(i, m) = AddAddress(i, m)
  BY DEF Interpret
<1>35. i.op \in CopyVariableOps => Interpret(i, m) = CopyVariable(i, m)
  BY DEF Interpret
<1>36. i.op \in IndirectOps => Interpret(i, m) = Indirect(i, m)
  BY DEF Interpret
<1>37. i.op \in AddressOps => Interpret(i, m) = Address(i, m)
  BY DEF Interpret
<1>38. i.op \in FreeOps => Interpret(i, m) = Free(i, m)
  BY DEF Interpret
<1>39. i.op \in ObjectRegisterOps => Interpret(i, m) = ObjectRegister(i, m)
  BY DEF Interpret
<1>40. i.op \in ArgumentOps => Interpret(i, m) = Argument(i, m)
  BY DEF Interpret
<1>41. i.op \in ReferenceCopyOps => Interpret(i, m) = ReferenceCopy(i, m)
  BY DEF Interpret
<1>42. i.op \in CheckOps => Interpret(i, m) = Check(i, m)
  BY DEF Interpret
<1>43. i.op \in PushObjectOps => Interpret(i, m) = PushObject(i, m)
  BY DEF Interpret
<1>44. i.op \in CastOps => Interpret(i, m) = Cast(i, m)
  BY DEF Interpret
<1>45. i.op \in PropertyOps => Interpret(i, m) = Property(i, m)
  BY DEF Interpret
<1>46. i.op \in ReferenceCopyVariableOps => Interpret(i, m) = ReferenceCopyVariable(i, m)
  BY DEF Interpret
<1>47. i.op \in ListOps => Interpret(i, m) = List(i, m)
  BY DEF Interpret
<1> HIDE DEF NegateOps, StepOps, StepVariableOps, BitOps, ConvertOps, ExtendOps,
            ConvertDoubleOps, IntegerOps, DivideOps, FloatOps, DoubleOps,
            IntegerImmediateOps, FloatImmediateOps, SetGlobalOps,
            NarrowOps, Convert64Ops, Unary64Ops, Integer64Ops,
            Divide64Ops, Bit64Ops, Shift64Ops, Compare64Ops, ClearHighOps,
            DivideUnsignedOps, DivideUnsigned64Ops, TestOps, CompareOps,
            PowerOps, PushOps, LoadGlobalOps, CopyOps, PushMoreOps,
            SetVariableOps, AddAddressOps, CopyVariableOps, IndirectOps,
            AddressOps, FreeOps, ObjectRegisterOps, ArgumentOps,
            ReferenceCopyOps, CheckOps, PushObjectOps, CastOps,
            PropertyOps, ReferenceCopyVariableOps, ListOps
<1> QED  BY <1>1, <1>2, <1>3, <1>4, <1>5, <1>6, <1>7, <1>8, <1>9, <1>10, <1>11,
            <1>12, <1>13, <1>14, <1>15, <1>16, <1>17, <1>18, <1>19,
            <1>20, <1>21, <1>22, <1>23, <1>24, <1>25, <1>26, <1>27,
            <1>28, <1>29, <1>30, <1>31, <1>32, <1>33, <1>34, <1>35,
            <1>36, <1>37, <1>38, <1>39, <1>40, <1>41, <1>42, <1>43,
            <1>44, <1>45, <1>46, <1>47

\* A helper gives twins from twins.
THEOREM InterpretTwins ==
  ASSUME NEW m, NEW n, NEW R, NEW D, Twins(m, n, R, D), NEW i,
         i.op \in InterpretedOps
  PROVE  Twins(Interpret(i, m), Interpret(i, n), R, D)
<1>1. i.op \in NegateOps => Twins(Interpret(i, m), Interpret(i, n), R, D)
  BY HelperOfGroup, NegateTwins
<1>2. i.op \in StepOps => Twins(Interpret(i, m), Interpret(i, n), R, D)
  BY HelperOfGroup, StepTwins
<1>3. i.op \in StepVariableOps => Twins(Interpret(i, m), Interpret(i, n), R, D)
  BY HelperOfGroup, StepVariableTwins
<1>4. i.op \in BitOps => Twins(Interpret(i, m), Interpret(i, n), R, D)
  BY HelperOfGroup, BitTwins
<1>5. i.op \in ConvertOps => Twins(Interpret(i, m), Interpret(i, n), R, D)
  BY HelperOfGroup, ConvertTwins
<1>6. i.op \in ExtendOps => Twins(Interpret(i, m), Interpret(i, n), R, D)
  BY HelperOfGroup, ExtendPartTwins
<1>7. i.op \in ConvertDoubleOps => Twins(Interpret(i, m), Interpret(i, n), R, D)
  BY HelperOfGroup, ConvertDoubleTwins
<1>8. i.op \in IntegerOps => Twins(Interpret(i, m), Interpret(i, n), R, D)
  BY HelperOfGroup, IntegerTwins
<1>9. i.op \in DivideOps => Twins(Interpret(i, m), Interpret(i, n), R, D)
  BY HelperOfGroup, DivideTwins
<1>10. i.op \in FloatOps => Twins(Interpret(i, m), Interpret(i, n), R, D)
  BY HelperOfGroup, FloatTwins
<1>11. i.op \in DoubleOps => Twins(Interpret(i, m), Interpret(i, n), R, D)
  BY HelperOfGroup, DoubleTwins
<1>12. i.op \in IntegerImmediateOps => Twins(Interpret(i, m), Interpret(i, n), R, D)
  BY HelperOfGroup, IntegerImmediateTwins
<1>13. i.op \in FloatImmediateOps => Twins(Interpret(i, m), Interpret(i, n), R, D)
  BY HelperOfGroup, FloatImmediateTwins
<1>14. i.op \in SetGlobalOps => Twins(Interpret(i, m), Interpret(i, n), R, D)
  BY HelperOfGroup, SetGlobalTwins
<1>15. i.op \in NarrowOps => Twins(Interpret(i, m), Interpret(i, n), R, D)
  BY HelperOfGroup, NarrowTwins
<1>16. i.op \in Convert64Ops => Twins(Interpret(i, m), Interpret(i, n), R, D)
  BY HelperOfGroup, Convert64Twins
<1>17. i.op \in Unary64Ops => Twins(Interpret(i, m), Interpret(i, n), R, D)
  BY HelperOfGroup, Unary64Twins
<1>18. i.op \in Integer64Ops => Twins(Interpret(i, m), Interpret(i, n), R, D)
  BY HelperOfGroup, Integer64Twins
<1>19. i.op \in Divide64Ops => Twins(Interpret(i, m), Interpret(i, n), R, D)
  BY HelperOfGroup, Divide64Twins
<1>20. i.op \in Bit64Ops => Twins(Interpret(i, m), Interpret(i, n), R, D)
  BY HelperOfGroup, Bit64Twins
<1>21. i.op \in Shift64Ops => Twins(Interpret(i, m), Interpret(i, n), R, D)
  BY HelperOfGroup, Shift64Twins
<1>22. i.op \in Compare64Ops => Twins(Interpret(i, m), Interpret(i, n), R, D)
  BY HelperOfGroup, Compare64Twins
<1>23. i.op \in ClearHighOps => Twins(Interpret(i, m), Interpret(i, n), R, D)
  BY HelperOfGroup, ClearHighTwins
<1>24. i.op \in DivideUnsignedOps => Twins(Interpret(i, m), Interpret(i, n), R, D)
  BY HelperOfGroup, DivideUnsignedTwins
<1>25. i.op \in DivideUnsigned64Ops => Twins(Interpret(i, m), Interpret(i, n), R, D)
  BY HelperOfGroup, DivideUnsigned64Twins
<1>26. i.op \in TestOps => Twins(Interpret(i, m), Interpret(i, n), R, D)
  BY HelperOfGroup, TestTwins
<1>27. i.op \in CompareOps => Twins(Interpret(i, m), Interpret(i, n), R, D)
  BY HelperOfGroup, CompareVariablesTwins
<1>28. i.op \in PowerOps => Twins(Interpret(i, m), Interpret(i, n), R, D)
  BY HelperOfGroup, RaiseToPowerTwins
<1>29. i.op \in PushOps => Twins(Interpret(i, m), Interpret(i, n), R, D)
  BY HelperOfGroup, PushTwins
<1>30. i.op \in LoadGlobalOps => Twins(Interpret(i, m), Interpret(i, n), R, D)
  BY HelperOfGroup, LoadGlobalTwins
<1>31. i.op \in CopyOps => Twins(Interpret(i, m), Interpret(i, n), R, D)
  BY HelperOfGroup, CopyTwins
<1>32. i.op \in PushMoreOps => Twins(Interpret(i, m), Interpret(i, n), R, D)
  BY HelperOfGroup, PushMoreTwins
<1>33. i.op \in SetVariableOps => Twins(Interpret(i, m), Interpret(i, n), R, D)
  BY HelperOfGroup, SetVariableTwins
<1>34. i.op \in AddAddressOps => Twins(Interpret(i, m), Interpret(i, n), R, D)
  BY HelperOfGroup, AddAddressTwins
<1>35. i.op \in CopyVariableOps => Twins(Interpret(i, m), Interpret(i, n), R, D)
  BY HelperOfGroup, CopyVariableTwins
<1>36. i.op \in IndirectOps => Twins(Interpret(i, m), Interpret(i, n), R, D)
  BY HelperOfGroup, IndirectTwins
<1>37. i.op \in AddressOps => Twins(Interpret(i, m), Interpret(i, n), R, D)
  BY HelperOfGroup, AddressTwins
<1>38. i.op \in FreeOps => Twins(Interpret(i, m), Interpret(i, n), R, D)
  BY HelperOfGroup, FreeTwins
<1>39. i.op \in ObjectRegisterOps => Twins(Interpret(i, m), Interpret(i, n), R, D)
  BY HelperOfGroup, ObjectRegisterTwins
<1>40. i.op \in ArgumentOps => Twins(Interpret(i, m), Interpret(i, n), R, D)
  BY HelperOfGroup, ArgumentTwins
<1>41. i.op \in ReferenceCopyOps => Twins(Interpret(i, m), Interpret(i, n), R, D)
  BY HelperOfGroup, ReferenceCopyTwins
<1>42. i.op \in CheckOps => Twins(Interpret(i, m), Interpret(i, n), R, D)
  BY HelperOfGroup, CheckTwins
<1>43. i.op \in PushObjectOps => Twins(Interpret(i, m), Interpret(i, n), R, D)
  BY HelperOfGroup, PushObjectTwins
<1>44. i.op \in CastOps => Twins(Interpret(i, m), Interpret(i, n), R, D)
  BY HelperOfGroup, CastTwins
<1>45. i.op \in PropertyOps => Twins(Interpret(i, m), Interpret(i, n), R, D)
  BY HelperOfGroup, PropertyTwins
<1>46. i.op \in ReferenceCopyVariableOps => Twins(Interpret(i, m), Interpret(i, n), R, D)
  BY HelperOfGroup, ReferenceCopyVariableTwins
<1>47. i.op \in ListOps => Twins(Interpret(i, m), Interpret(i, n), R, D)
  BY HelperOfGroup, ListTwins
<1> QED  BY <1>1, <1>2, <1>3, <1>4, <1>5, <1>6, <1>7, <1>8, <1>9, <1>10, <1>11,
            <1>12, <1>13, <1>14, <1>15, <1>16, <1>17, <1>18, <1>19,
            <1>20, <1>21, <1>22, <1>23, <1>24, <1>25, <1>26, <1>27,
            <1>28, <1>29, <1>30, <1>31, <1>32, <1>33, <1>34, <1>35,
            <1>36, <1>37, <1>38, <1>39, <1>40, <1>41, <1>42, <1>43,
            <1>44, <1>45, <1>46, <1>47
         DEF InterpretedOps

-----------------------------------------------------------------------------
(* Mirror: a state of emitted code and the state of the interpreter it     *)
(* stands for. Loads, stores, calls and exceptions keep it.                *)

\* A state of emitted code and the state of the interpreter it stands for.
Mirror(m, t) ==
  /\ IsMachine(m) /\ DOMAIN m = Fields /\ m.local = FALSE
  /\ DOMAIN t = Fields /\ t.mem = View(m) /\ SameRegisters(m, t)

\* What the checks compare: the program's state, and the frame after an
\* exception raised by the emitted code.
Agrees(n, t) ==
  Alike(n, t) /\ (n.exc # "none" /\ n.local => n.mem = View(n))

\* The initial states.
LEMMA MirrorStart ==
  ASSUME NEW m, IsMachineState(m)
  PROVE  Mirror(m, Interpreted(m))
<1>1. /\ IsMachine(m) /\ DOMAIN m = Fields /\ m.local = FALSE
  BY StateIsMachine, Zenon
<1>2. /\ DOMAIN Interpreted(m) = Fields /\ Interpreted(m).mem = View(m)
      /\ SameRegisters(m, Interpreted(m))
  BY InterpretedFields DEF SameRegisters
<1> QED  BY <1>1, <1>2 DEF Mirror

\* A mirrored pair agrees.
LEMMA MirrorAgrees ==
  ASSUME NEW m, NEW t, Mirror(m, t)
  PROVE  Agrees(m, t)
BY DEF Mirror, Agrees, Alike

\* A load.
LEMMA MirrorLoad ==
  ASSUME NEW m, NEW t, Mirror(m, t), NEW o \in Int, Fp - o \in DOMAIN m.mem
  PROVE  LoadVar(m, o) = Var(t, o)
BY LoadReadsView DEF Mirror, Var

\* A store and what it does to the frame the interpreter sees.
LEMMA MirrorStoreCut ==
  ASSUME NEW m, NEW t, Mirror(m, t), NEW o \in Int, Fp - o \in DOMAIN m.mem, NEW y
  PROVE  Mirror(StoreVar(m, o, Low(y, WordBits)), SetVar(t, o, y))
<1>1. IsMachine(m) /\ DOMAIN m = Fields /\ DOMAIN t = Fields
  BY DEF Mirror
<1>2. PICK x : x = Low(y, WordBits)
  OBVIOUS
<1>3. /\ IsMachine(StoreVar(m, o, x))
      /\ View(StoreVar(m, o, x)) = Put(View(m), o, x)
  BY <1>1, StoreWritesView DEF Put
<1>4. /\ DOMAIN StoreVar(m, o, x) = Fields /\ SameRegisters(StoreVar(m, o, x), m)
      /\ StoreVar(m, o, x).local = m.local
  BY <1>1, StoreFields DEF SameRegisters
<1>5. /\ DOMAIN SetVar(t, o, y) = Fields /\ SameRegisters(SetVar(t, o, y), t)
      /\ SetVar(t, o, y).mem = Put(t.mem, o, x)
  BY <1>1, <1>2, SetVarFields
<1>6. SetVar(t, o, y).mem = View(StoreVar(m, o, x))
  BY <1>3, <1>5 DEF Mirror
<1> QED  BY <1>2, <1>3, <1>4, <1>5, <1>6 DEF Mirror, SameRegisters

\* The same for a word.
LEMMA MirrorStore ==
  ASSUME NEW m, NEW t, Mirror(m, t), NEW o \in Int, Fp - o \in DOMAIN m.mem,
         NEW x, NEW y, x = Low(y, WordBits)
  PROVE  Mirror(StoreVar(m, o, x), SetVar(t, o, y))
BY MirrorStoreCut, Zenon

\* And for both words of a 64-bit variable.
LEMMA MirrorStore64 ==
  ASSUME NEW m, NEW t, Mirror(m, t), NEW o, o \in Int,
         Fp - o \in DOMAIN m.mem, Fp - o + 1 \in DOMAIN m.mem, NEW p, NEW y,
         p = Halves(y)
  PROVE  Mirror(StoreVar64(m, o, p), SetVar64(t, o, y))
<1>1. IsMachine(m) /\ DOMAIN m = Fields /\ DOMAIN t = Fields
  BY DEF Mirror
<1>2. IsMachine(StoreVar64(m, o, p)) /\ View(StoreVar64(m, o, p)) = Both(View(m), o, p)
  BY <1>1, Store64WritesView
<1>3. PICK n : n = StoreVar(m, o, p[1])
  OBVIOUS
<1>4. StoreVar64(m, o, p) = StoreVar(n, o - 1, p[2])
  BY <1>3 DEF StoreVar64
<1>5. SameRegisters(n, m) /\ DOMAIN n = Fields /\ n.local = m.local
  BY <1>1, <1>3, StoreFields DEF SameRegisters
<1>6. /\ SameRegisters(StoreVar(n, o - 1, p[2]), n)
      /\ DOMAIN StoreVar(n, o - 1, p[2]) = Fields
      /\ StoreVar(n, o - 1, p[2]).local = n.local
  BY <1>5, StoreFields DEF SameRegisters
<1>7. SameRegisters(SetVar64(t, o, y), t) /\ DOMAIN SetVar64(t, o, y) = Fields
      /\ SetVar64(t, o, y).mem = Both(t.mem, o, p)
  BY <1>1, SetVar64Fields
<1>8. SetVar64(t, o, y).mem = View(StoreVar64(m, o, p))
  BY <1>2, <1>7 DEF Mirror
<1> QED  BY <1>2, <1>4, <1>5, <1>6, <1>7, <1>8 DEF Mirror, SameRegisters

\* The other fields.
LEMMA SameView ==
  ASSUME NEW m, IsMachine(m), NEW n, DOMAIN n = Fields,
         n.mem = m.mem, n.reg = m.reg
  PROVE  IsMachine(n) /\ View(n) = View(m)
<1>1. IsMachine(n)
  BY DEF IsMachine, Fields
<1> QED  BY <1>1, ViewOfMachine

\* The value register.
LEMMA MirrorVr ==
  ASSUME NEW m, NEW t, Mirror(m, t), NEW x
  PROVE  Mirror([m EXCEPT !.vr = x], [t EXCEPT !.vr = x])
<1>1. PICK n : n = [m EXCEPT !.vr = x]
  BY Zenon
<1>2. DOMAIN n = Fields /\ n.mem = m.mem /\ n.reg = m.reg /\ n.vr = x
      /\ n.sp = m.sp /\ n.object = m.object /\ n.exc = m.exc /\ n.local = m.local
  BY <1>1 DEF Mirror, Fields
<1>3. IsMachine(n) /\ View(n) = View(m)
  BY <1>2, SameView DEF Mirror
<1>4. PICK s : s = [t EXCEPT !.vr = x]
  BY Zenon
<1>5. DOMAIN s = Fields /\ s.mem = t.mem /\ s.vr = x
      /\ s.sp = t.sp /\ s.object = t.object /\ s.exc = t.exc
  BY <1>4 DEF Mirror, Fields
<1> QED  BY <1>1, <1>2, <1>3, <1>4, <1>5 DEF Mirror, SameRegisters

\* The stack pointer.
LEMMA MirrorSp ==
  ASSUME NEW m, NEW t, Mirror(m, t), NEW x
  PROVE  Mirror([m EXCEPT !.sp = x], [t EXCEPT !.sp = x])
<1>1. PICK n : n = [m EXCEPT !.sp = x]
  BY Zenon
<1>2. DOMAIN n = Fields /\ n.mem = m.mem /\ n.reg = m.reg /\ n.vr = m.vr
      /\ n.sp = x /\ n.object = m.object /\ n.exc = m.exc /\ n.local = m.local
  BY <1>1 DEF Mirror, Fields
<1>3. IsMachine(n) /\ View(n) = View(m)
  BY <1>2, SameView DEF Mirror
<1>4. PICK s : s = [t EXCEPT !.sp = x]
  BY Zenon
<1>5. DOMAIN s = Fields /\ s.mem = t.mem /\ s.vr = t.vr
      /\ s.sp = x /\ s.object = t.object /\ s.exc = t.exc
  BY <1>4 DEF Mirror, Fields
<1> QED  BY <1>1, <1>2, <1>3, <1>4, <1>5 DEF Mirror, SameRegisters

\* The object register.
LEMMA MirrorObject ==
  ASSUME NEW m, NEW t, Mirror(m, t), NEW x
  PROVE  Mirror([m EXCEPT !.object = x], [t EXCEPT !.object = x])
<1>1. PICK n : n = [m EXCEPT !.object = x]
  BY Zenon
<1>2. DOMAIN n = Fields /\ n.mem = m.mem /\ n.reg = m.reg /\ n.vr = m.vr
      /\ n.sp = m.sp /\ n.object = x /\ n.exc = m.exc /\ n.local = m.local
  BY <1>1 DEF Mirror, Fields
<1>3. IsMachine(n) /\ View(n) = View(m)
  BY <1>2, SameView DEF Mirror
<1>4. PICK s : s = [t EXCEPT !.object = x]
  BY Zenon
<1>5. DOMAIN s = Fields /\ s.mem = t.mem /\ s.vr = t.vr
      /\ s.sp = t.sp /\ s.object = x /\ s.exc = t.exc
  BY <1>4 DEF Mirror, Fields
<1> QED  BY <1>1, <1>2, <1>3, <1>4, <1>5 DEF Mirror, SameRegisters

\* The low word of the value register.
LEMMA MirrorResult ==
  ASSUME NEW m, NEW t, Mirror(m, t), NEW x
  PROVE  Mirror(SetResult(m, x), SetResult(t, x))
<1>1. SetResult(m, x) = [m EXCEPT !.vr = [m.vr EXCEPT ![1] = Low(x, WordBits)]]
  BY DEF SetResult
<1>2. SetResult(t, x) = [t EXCEPT !.vr = [m.vr EXCEPT ![1] = Low(x, WordBits)]]
  BY DEF SetResult, Mirror, SameRegisters
<1> QED  BY <1>1, <1>2, MirrorVr

\* A call into C++: the registers are written back before it and read again
\* after it.
LEMMA MirrorFlush ==
  ASSUME NEW m, NEW t, Mirror(m, t)
  PROVE  Twins(FlushCachedLocals(m), t, m.reg, DOMAIN m.mem)
<1>1. PICK f : f = FlushCachedLocals(m)
  OBVIOUS
<1>2. f.mem = View(m) /\ f.mem = [at \in DOMAIN m.mem |-> f.mem[at]]
  BY <1>1 DEF View, FlushCachedLocals, Mirror, Fields
<1>3. DOMAIN f = Fields /\ f.reg = m.reg /\ f.local = FALSE /\ SameRegisters(f, m)
  BY <1>1 DEF FlushCachedLocals, Mirror, Fields, SameRegisters
<1>4. DOMAIN t = Fields /\ t.mem = View(m) /\ SameRegisters(m, t)
  BY DEF Mirror
<1>5. f.mem = t.mem /\ SameRegisters(f, t)
  BY <1>2, <1>3, <1>4, Zenon DEF SameRegisters
<1>6. DOMAIN f.mem = DOMAIN m.mem
  BY <1>2
<1> QED  BY <1>1, <1>2, <1>3, <1>4, <1>5, <1>6 DEF Twins

\* A reload takes the frame the call leaves.
LEMMA MirrorReload ==
  ASSUME NEW m, IsMachine(m), NEW p, NEW q, Twins(p, q, m.reg, DOMAIN m.mem)
  PROVE  /\ Mirror(ReloadCachedLocals(p), q)
         /\ DOMAIN ReloadCachedLocals(p).mem = DOMAIN m.mem
<1>1. IsMachine(p)
  BY DEF Twins, IsMachine, Fields
<1>2. View(ReloadCachedLocals(p)) = p.mem /\ IsMachine(ReloadCachedLocals(p))
  BY <1>1, ReloadReadsFrame
<1>3. /\ DOMAIN ReloadCachedLocals(p) = Fields /\ SameRegisters(ReloadCachedLocals(p), p)
      /\ ReloadCachedLocals(p).local = FALSE /\ ReloadCachedLocals(p).mem = p.mem
  BY DEF ReloadCachedLocals, Twins, Fields, SameRegisters
<1> QED  BY <1>2, <1>3 DEF Twins, Mirror, SameRegisters

\* The instruction left to its helper.
LEMMA HelperMirrors ==
  ASSUME NEW m, NEW t, Mirror(m, t), NEW i, i.op \in InterpretedOps
  PROVE  Mirror(EmitHelperCall(i, m), Interpret(i, t))
<1>1. PICK f : f = FlushCachedLocals(m)
  OBVIOUS
<1>2. Twins(f, t, m.reg, DOMAIN m.mem)
  BY <1>1, MirrorFlush
<1>3. PICK p, q : p = Interpret(i, f) /\ q = Interpret(i, t)
  OBVIOUS
<1>4. Twins(p, q, m.reg, DOMAIN m.mem)
  BY <1>2, <1>3, InterpretTwins, Zenon
<1>5. Mirror(ReloadCachedLocals(p), q)
  BY <1>4, MirrorReload, Zenon DEF Mirror
<1>6. EmitHelperCall(i, m) = ReloadCachedLocals(p)
  BY <1>1, <1>3 DEF EmitHelperCall
<1> QED  BY <1>3, <1>5, <1>6

\* An exception raised by the emitted code.
LEMMA RaiseAgrees ==
  ASSUME NEW m, NEW t, Mirror(m, t), NEW x
  PROVE  Agrees(EmitInternalException(m, x), SetInternalException(t, x))
<1>1. PICK f : f = FlushCachedLocals(m)
  OBVIOUS
<1>2. /\ DOMAIN f = Fields /\ f.mem = View(m) /\ SameRegisters(f, m)
      /\ IsMachine(f) /\ View(f) = View(m)
  <2>1. f.mem = View(m) /\ View(f) = View(m) /\ IsMachine(f)
    BY <1>1, FlushWritesFrame DEF Mirror
  <2>2. DOMAIN f = Fields /\ SameRegisters(f, m)
    BY <1>1 DEF FlushCachedLocals, Mirror, Fields, SameRegisters
  <2> QED  BY <2>1, <2>2
<1>3. PICK n : n = EmitInternalException(m, x)
  OBVIOUS
<1>4. n = [[f EXCEPT !.exc = x] EXCEPT !.local = TRUE]
  BY <1>1, <1>3 DEF EmitInternalException, SetInternalException
<1>5. /\ DOMAIN n = Fields /\ n.mem = f.mem /\ n.reg = f.reg /\ n.vr = f.vr
      /\ n.sp = f.sp /\ n.object = f.object /\ n.exc = x
  BY <1>2, <1>4 DEF Fields
<1>6. View(n) = View(m)
  BY <1>2, <1>5, SameView
<1>7. PICK s : s = SetInternalException(t, x)
  OBVIOUS
<1>8. s.mem = t.mem /\ s.vr = t.vr /\ s.sp = t.sp /\ s.object = t.object /\ s.exc = x
  BY <1>7 DEF SetInternalException, Mirror, Fields
<1>9. Alike(n, s)
  BY <1>2, <1>5, <1>6, <1>8 DEF Alike, SameRegisters, Mirror
<1>10. n.mem = View(n)
  BY <1>2, <1>5, <1>6
<1> QED  BY <1>3, <1>7, <1>9, <1>10 DEF Agrees

\* A check that raises locally or goes on.
LEMMA GuardAgrees ==
  ASSUME NEW m, NEW t, Mirror(m, t), NEW x, NEW n, NEW s, Agrees(n, s)
  PROVE  Agrees(NullGuard(m, x, n), NullCheck(t, x, s))
BY RaiseAgrees DEF NullGuard, NullCheck

-----------------------------------------------------------------------------
(* EmitStack: no local is cached where a stack instruction is emitted.     *)

\* Without cached locals the state of emitted code is the interpreter's.
LEMMA NothingCached ==
  ASSUME NEW m, IsMachineState(m), NEW i, CachedApart(i, m),
         ~IsCacheableLocalOp(i.op)
  PROVE  Cached(m) = {} /\ Interpreted(m) = m /\ Mirror(m, m)
<1>1. Cached(m) = {}
  BY DEF CachedApart
<1>2. m.reg = NoRegisters
  BY <1>1, Zenon DEF IsMachineState, Cached, NoRegisters
<1>3. View(m) = m.mem
  <2>1. IsMachine(m) /\ m.mem = [at \in DOMAIN m.mem |-> m.mem[at]]
    BY StateIsMachine, Zenon DEF IsMachine
  <2>2. View(m) = [at \in DOMAIN m.mem |-> m.mem[at]]
    BY <1>1, <2>1, ViewOfMachine DEF Cached
  <2> QED  BY <2>1, <2>2
<1>4. Interpreted(m) = m
  BY <1>2, <1>3, Zenon DEF Interpreted, IsMachineState, Fields
<1> QED  BY <1>1, <1>4, MirrorStart

\* With all locals in the frame the helper's code could be inlined.
LEMMA AsInterpreted ==
  ASSUME NEW m, Mirror(m, m), Cached(m) = {}, NEW i, i.op \in InterpretedOps
  PROVE  Agrees(Interpret(i, m), Interpret(i, m))
<1>1. FlushCachedLocals(m).mem = View(m) /\ m.mem = View(m)
  BY FlushWritesFrame DEF Mirror
<1>2. Twins(m, m, m.reg, DOMAIN m.mem)
  BY DEF Mirror, IsMachine, Twins
<1>3. PICK n : n = Interpret(i, m)
  OBVIOUS
<1>4. Twins(n, n, m.reg, DOMAIN m.mem)
  BY <1>2, <1>3, InterpretTwins, Zenon
<1>5. IsMachine(n)
  BY <1>4 DEF Twins, Mirror, IsMachine, Fields
<1>6. View(n) = n.mem
  BY <1>4, <1>5, ViewOfMachine DEF Twins, Cached
<1> QED  BY <1>3, <1>4, <1>6 DEF Agrees, Alike, SameRegisters, Twins

\* Loads of a state without cached locals.
LEMMA PlainLoads ==
  ASSUME NEW m, Cached(m) = {}
  PROVE  \A o : LoadVar(m, o) = Var(m, o)
BY DEF LoadVar, Var

StackOpsNamed ==
  {"PopPtr", "PshGPtr", "PshC4", "PshV4", "PSF", "SwapPtr", "PshG4", "PshC8",
   "RDSPtr", "PopRPtr", "PshRPtr", "ADDSi", "PshV8", "PGA", "VAR", "PshNull",
   "OBJTYPE", "TYPEID", "FuncPtr"}

\* EmitStack does what the helpers of the stack instructions do.
THEOREM StackAgrees ==
  ASSUME NEW i, NEW m, IsMachineState(m), OperandsFit(i, m), CachedApart(i, m),
         i.op \in StackOps
  PROVE  Agrees(EmitStack(i, m), Interpret(i, Interpreted(m)))
<1>0. i.op \in StackOpsNamed
  BY DEF StackOpsNamed, StackOps, PushOps, PushMoreOps, AddAddressOps
<1>1. Cached(m) = {} /\ Interpreted(m) = m /\ Mirror(m, m)
  <2>1. ~IsCacheableLocalOp(i.op)
    BY <1>0 DEF StackOpsNamed, IsCacheableLocalOp, IsConditionalBranch
  <2> QED  BY <2>1, NothingCached
<1>a. \A o : LoadVar(m, o) = Var(m, o)
  BY <1>1, PlainLoads
<1>b. \A x : Half(x) = Low(x, WordBits)
  BY DEF Half
<1>2. CASE i.op \in PushOps
  <2>1. Interpret(i, m) = Push(i, m)
    BY <1>2, HelperOfGroup
  <2>2. EmitStack(i, m) = Push(i, m)
    BY <1>2, <1>a DEF PushOps, Push, EmitStack, PushConstant, PushVariable, PopPointer,
       PushFrameAddress, PushGlobal, Swap
  <2> QED  BY <2>1, <2>2, <1>1, <1>2, AsInterpreted DEF InterpretedOps
<1>3. CASE i.op \in {"PshC8", "PshRPtr"}
  <2>1. Interpret(i, m) = PushMore(i, m)
    BY <1>3, HelperOfGroup DEF PushMoreOps
  <2>2. EmitStack(i, m) = PushMore(i, m)
    BY <1>3 DEF PushMore, EmitStack, PushConstant64, PushRegister
  <2> QED  BY <2>1, <2>2, <1>1, <1>3, AsInterpreted DEF InterpretedOps, PushMoreOps
<1>4. CASE i.op = "PopRPtr"
  <2>1. Interpret(i, m) = Popped(SetResult(m, Top(m)))
    BY <1>4, HelperOfGroup, Zenon DEF PushMoreOps, PushMore
  <2>2. EmitStack(i, m) = SetResult(Popped(m), Top(m))
    BY <1>4 DEF EmitStack, PopToRegister
  <2>3. SetResult(Popped(m), Top(m)) = Popped(SetResult(m, Top(m)))
    BY <1>1, Zenon DEF SetResult, Popped, Mirror, Fields
  <2> QED  BY <2>1, <2>2, <2>3, <1>1, <1>4, AsInterpreted DEF InterpretedOps, PushMoreOps
<1>5. CASE i.op = "RDSPtr"
  <2>1. Interpret(i, m) = NullCheck(m, Top(m), SetTop(m, m.mem[Top(m)]))
    BY <1>5, HelperOfGroup, Zenon DEF PushMoreOps, PushMore
  <2>2. EmitStack(i, m) = NullGuard(m, Top(m), SetTop(m, m.mem[Top(m)]))
    BY <1>5 DEF EmitStack, ReadThroughTop
  <2>3. CASE Top(m) = 0
    BY <2>1, <2>2, <2>3, <1>1, RaiseAgrees DEF NullCheck, NullGuard
  <2>4. CASE Top(m) # 0
    <3>1. EmitStack(i, m) = Interpret(i, m)
      BY <2>1, <2>2, <2>4 DEF NullCheck, NullGuard
    <3> QED  BY <3>1, <1>1, <1>5, AsInterpreted DEF InterpretedOps, PushMoreOps
  <2> QED  BY <2>3, <2>4
<1>6. CASE i.op = "ADDSi"
  <2>1. Interpret(i, m) = NullCheck(m, Top(m), SetTop(m, Half(Top(m) + i.a)))
    BY <1>6, <1>b, HelperOfGroup DEF AddAddressOps, AddAddress
  <2>2. EmitStack(i, m) = NullGuard(m, Top(m), SetTop(m, Half(Top(m) + i.a)))
    BY <1>6 DEF EmitStack, AddToTop
  <2>3. CASE Top(m) = 0
    BY <2>1, <2>2, <2>3, <1>1, RaiseAgrees DEF NullCheck, NullGuard
  <2>4. CASE Top(m) # 0
    <3>1. EmitStack(i, m) = Interpret(i, m)
      BY <2>1, <2>2, <2>4 DEF NullCheck, NullGuard
    <3> QED  BY <3>1, <1>1, <1>6, AsInterpreted DEF InterpretedOps, AddAddressOps
  <2> QED  BY <2>3, <2>4
<1>7. CASE i.op \in {"PshV8", "PGA", "VAR"}
  <2>1. Interpret(i, m) = Address(i, m)
    BY <1>7, HelperOfGroup DEF AddressOps
  <2>2. EmitStack(i, m) = Address(i, m)
    BY <1>7, <1>a, <1>b DEF Address, EmitStack, PushVariable64, PushPointerArgument, PushOffset, LoadVar64
  <2> QED  BY <2>1, <2>2, <1>1, <1>7, AsInterpreted DEF InterpretedOps, AddressOps
<1>8. CASE i.op \in {"PshNull", "OBJTYPE", "TYPEID"}
  <2>1. Interpret(i, m) = PushObject(i, m)
    BY <1>8, HelperOfGroup DEF PushObjectOps
  <2>2. EmitStack(i, m) = PushObject(i, m)
    BY <1>8 DEF PushObject, EmitStack, PushNull, PushPointerArgument, PushConstant
  <2> QED  BY <2>1, <2>2, <1>1, <1>8, AsInterpreted DEF InterpretedOps, PushObjectOps
<1>9. CASE i.op = "FuncPtr"
  <2>1. Interpret(i, m) = Property(i, m)
    BY <1>9, HelperOfGroup DEF PropertyOps
  <2>2. EmitStack(i, m) = Property(i, m)
    BY <1>9 DEF Property, EmitStack, PushPointerArgument
  <2> QED  BY <2>1, <2>2, <1>1, <1>9, AsInterpreted DEF InterpretedOps, PropertyOps
<1> QED  BY <1>0, <1>2, <1>3, <1>4, <1>5, <1>6, <1>7, <1>8, <1>9
         DEF StackOpsNamed, PushOps

-----------------------------------------------------------------------------
(* EmitMemory: moves between variables, globals, the value register and    *)
(* fields.                                                                 *)

\* What an instruction that names variables finds.
LEMMA Operands ==
  ASSUME NEW m, IsMachineState(m), NEW i, OperandsFit(i, m), NamesVariables(i)
  PROVE  /\ Mirror(m, Interpreted(m))
         /\ \A o \in {i.a, i.b, i.c} :
              /\ o \in Int /\ Fp - o \in DOMAIN m.mem /\ Fp - o + 1 \in DOMAIN m.mem
              /\ LoadVar(m, o) = Var(Interpreted(m), o) /\ LoadVar(m, o) \in Word
              /\ LoadVar(m, o - 1) \in Word
              /\ LoadVar(m, o - 1) = Var(Interpreted(m), o - 1)
              /\ LoadVar64(m, o) = <<LoadVar(m, o), LoadVar(m, o - 1)>>
              /\ Var64(Interpreted(m), o) = Quad(LoadVar(m, o), LoadVar(m, o - 1))
<1>1. Mirror(m, Interpreted(m))
  BY MirrorStart
<1>2. ASSUME NEW o \in {i.a, i.b, i.c} PROVE InFrame(m, o)
  BY DEF OperandsFit, InFrame
<1> QED  BY <1>1, <1>2, LoadAgrees DEF InFrame

\* A word stored on both sides.
LEMMA StoredAgrees ==
  ASSUME NEW m, NEW t, Mirror(m, t), NEW o \in Int, Fp - o \in DOMAIN m.mem,
         NEW x, NEW y, x = Low(y, WordBits)
  PROVE  Agrees(StoreVar(m, o, x), SetVar(t, o, y))
BY MirrorStore, MirrorAgrees, Zenon

\* A quad stored on both sides.
LEMMA Stored64Agrees ==
  ASSUME NEW m, NEW t, Mirror(m, t), NEW o, o \in Int,
         Fp - o \in DOMAIN m.mem, Fp - o + 1 \in DOMAIN m.mem, NEW p, NEW y,
         p = Halves(y)
  PROVE  Agrees(StoreVar64(m, o, p), SetVar64(t, o, y))
BY MirrorStore64, MirrorAgrees, Zenon

\* A pair of words and its quad.
LEMMA PairOfWords ==
  ASSUME NEW p \in Word \X Word
  PROVE  p = Halves(Quad(p[1], p[2])) /\ p[1] \in Word /\ p[2] \in Word
         /\ p = <<p[1], p[2]>>
<1>1. p[1] \in Word /\ p[2] \in Word /\ p = <<p[1], p[2]>>
  OBVIOUS
<1> QED  BY <1>1, QuadIsQuad

CachedMoves == {"SetV4", "SetV8", "CpyVtoV4", "CpyVtoV8", "CpyVtoR4", "CpyVtoR8",
                "CpyRtoV4", "CpyRtoV8"}

\* Moves between variables and the value register.
LEMMA MovesAgree ==
  ASSUME NEW i, NEW m, IsMachineState(m), OperandsFit(i, m), i.op \in CachedMoves
  PROVE  Agrees(EmitMemory(i, m), Interpret(i, Interpreted(m)))
<1>1. NamesVariables(i)
  BY DEF CachedMoves, NamesVariables, ArgumentOps, ListOps
<1>2. PICK t : t = Interpreted(m)
  OBVIOUS
<1>3. /\ Mirror(m, t)
      /\ \A o \in {i.a, i.b} :
           /\ o \in Int /\ Fp - o \in DOMAIN m.mem /\ Fp - o + 1 \in DOMAIN m.mem
           /\ LoadVar(m, o) = Var(t, o) /\ LoadVar(m, o) \in Word
           /\ LoadVar(m, o - 1) \in Word /\ LoadVar(m, o - 1) = Var(t, o - 1)
           /\ LoadVar64(m, o) = <<LoadVar(m, o), LoadVar(m, o - 1)>>
           /\ Var64(t, o) = Quad(LoadVar(m, o), LoadVar(m, o - 1))
  BY <1>1, <1>2, Operands
<1>4. t.vr = m.vr /\ m.vr \in Word \X Word
  BY <1>2, InterpretedFields, StateIsMachine, Zenon
<1>5. /\ i.q[1] \in Word /\ i.q = Halves(Quad(i.q[1], i.q[2]))
      /\ m.vr[1] \in Word /\ m.vr = Halves(Quad(m.vr[1], m.vr[2]))
  BY <1>4, PairOfWords DEF OperandsFit
<1>6. ASSUME NEW x \in Word PROVE x = Low(x, WordBits)
  BY <1>6, LowOfWord
<1>7. ~(i.op \in FieldOps)
  BY DEF CachedMoves, FieldOps, IndirectOps, PropertyOps
<1>8. CASE i.op = "SetV4"
  <2>1. EmitMemory(i, m) = StoreVar(m, i.a, i.q[1])
    BY <1>7, <1>8 DEF EmitMemory, ExtendOps, NarrowOps, SetWord
  <2>2. Interpret(i, t) = SetVar(t, i.a, i.q[1])
    BY <1>8, HelperOfGroup DEF SetVariableOps, SetVariable
  <2> QED  BY <1>2, <1>3, <1>5, <1>6, <2>1, <2>2, StoredAgrees
<1>9. CASE i.op = "SetV8"
  <2>1. EmitMemory(i, m) = StoreVar64(m, i.a, i.q)
    BY <1>7, <1>9 DEF EmitMemory, ExtendOps, NarrowOps, SetQuad
  <2>2. Interpret(i, t) = SetVar64(t, i.a, Quad(i.q[1], i.q[2]))
    BY <1>9, HelperOfGroup DEF SetVariableOps, SetVariable
  <2> QED  BY <1>2, <1>3, <1>5, <2>1, <2>2, Stored64Agrees
<1>10. CASE i.op = "CpyVtoV4"
  <2>1. EmitMemory(i, m) = StoreVar(m, i.a, LoadVar(m, i.b))
    BY <1>7, <1>10 DEF EmitMemory, ExtendOps, NarrowOps, CopyWord
  <2>2. Interpret(i, t) = SetVar(t, i.a, Var(t, i.b))
    BY <1>10, HelperOfGroup DEF CopyVariableOps, CopyVariable
  <2>3. LoadVar(m, i.b) = Low(Var(t, i.b), WordBits)
    BY <1>3, <1>6
  <2> QED  BY <1>2, <1>3, <2>1, <2>2, <2>3, StoredAgrees
<1>11. CASE i.op = "CpyVtoV8"
  <2>1. EmitMemory(i, m) = StoreVar64(m, i.a, LoadVar64(m, i.b))
    BY <1>7, <1>11 DEF EmitMemory, ExtendOps, NarrowOps, CopyQuad
  <2>2. Interpret(i, t) = SetVar64(t, i.a, Var64(t, i.b))
    BY <1>11, HelperOfGroup DEF CopyVariableOps, CopyVariable
  <2>3. LoadVar64(m, i.b) = Halves(Var64(t, i.b))
    BY <1>3, QuadIsQuad
  <2> QED  BY <1>2, <1>3, <2>1, <2>2, <2>3, Stored64Agrees
<1>12. CASE i.op = "CpyVtoR4"
  <2>1. EmitMemory(i, m) = SetResult(m, Var(t, i.a))
    BY <1>3, <1>7, <1>12 DEF EmitMemory, ExtendOps, NarrowOps, WordToRegister
  <2>2. Interpret(i, t) = SetResult(t, Var(t, i.a))
    BY <1>12, HelperOfGroup DEF CopyVariableOps, CopyVariable
  <2> QED  BY <1>2, <1>3, <2>1, <2>2, MirrorResult, MirrorAgrees
<1>13. CASE i.op = "CpyVtoR8"
  <2>1. EmitMemory(i, m) = [m EXCEPT !.vr = LoadVar64(m, i.a)]
    BY <1>7, <1>13 DEF EmitMemory, ExtendOps, NarrowOps, QuadToRegister
  <2>2. Interpret(i, t) = [t EXCEPT !.vr = <<Var(t, i.a), Var(t, i.a - 1)>>]
    BY <1>13, HelperOfGroup DEF CopyVariableOps, CopyVariable
  <2>3. LoadVar64(m, i.a) = <<Var(t, i.a), Var(t, i.a - 1)>>
    BY <1>3
  <2> QED  BY <1>2, <1>3, <2>1, <2>2, <2>3, MirrorVr, MirrorAgrees
<1>14. CASE i.op = "CpyRtoV4"
  <2>1. EmitMemory(i, m) = StoreVar(m, i.a, m.vr[1])
    BY <1>7, <1>14 DEF EmitMemory, ExtendOps, NarrowOps, RegisterToWord
  <2>2. Interpret(i, t) = SetVar(t, i.a, m.vr[1])
    BY <1>4, <1>14, HelperOfGroup DEF CopyVariableOps, CopyVariable
  <2> QED  BY <1>2, <1>3, <1>5, <1>6, <2>1, <2>2, StoredAgrees
<1>15. CASE i.op = "CpyRtoV8"
  <2>1. EmitMemory(i, m) = StoreVar64(m, i.a, m.vr)
    BY <1>7, <1>15 DEF EmitMemory, ExtendOps, NarrowOps, RegisterToQuad
  <2>2. Interpret(i, t) = SetVar64(t, i.a, Quad(m.vr[1], m.vr[2]))
    BY <1>4, <1>15, HelperOfGroup DEF CopyVariableOps, CopyVariable
  <2> QED  BY <1>2, <1>3, <1>5, <2>1, <2>2, Stored64Agrees
<1> QED  BY <1>8, <1>9, <1>10, <1>11, <1>12, <1>13, <1>14, <1>15 DEF CachedMoves

\* Stores of a state without cached locals.
LEMMA PlainStores ==
  ASSUME NEW m, Cached(m) = {}, NEW o, NEW x, NEW y, x = Low(y, WordBits)
  PROVE  StoreVar(m, o, x) = SetVar(m, o, y)
BY DEF StoreVar, SetVar

\* A word of the memory, through the frame pointer.
LEMMA WordsAt ==
  ASSUME NEW m, IsMachineState(m), NEW at \in DOMAIN m.mem
  PROVE  /\ at \in Int /\ m.mem[at] \in Word /\ Fp - at \in Int /\ Fp - (Fp - at) = at
         /\ Fp - (Fp - at) + 1 = at + 1
         /\ Var(m, Fp - at) = m.mem[at]
         /\ Low(m.mem[at], WordBits) = m.mem[at]
<1>1. at \in Int /\ m.mem[at] \in Word /\ Fp \in Int
  BY LocalCacheAssumption DEF IsMachineState
<1>2. Fp - at \in Int /\ Fp - (Fp - at) = at /\ Fp - (Fp - at) + 1 = at + 1
  BY <1>1
<1>3. Var(m, Fp - at) = m.mem[at]
  BY <1>2 DEF Var
<1> QED  BY <1>1, <1>2, <1>3, LowOfWord

\* A write of some bits of a word.
LEMMA PartWritten ==
  ASSUME NEW m, IsMachineState(m), NEW at \in DOMAIN m.mem, NEW x \in Int,
         NEW n \in {ByteBits, ShortBits, WordBits}
  PROVE  WritePart(m, at, x, n) =
           SetVar(m, Fp - at, Var(m, Fp - at) - Low(Var(m, Fp - at), n) + Low(x, n))
<1>1. Fp - (Fp - at) = at /\ Var(m, Fp - at) = m.mem[at] /\ m.mem[at] \in Word
  BY WordsAt
<1>2. PICK y : y = m.mem[at] - Low(m.mem[at], n) + Low(x, n)
  OBVIOUS
<1>3. y = Low(y, WordBits)
  BY <1>1, <1>2, PartIsWord
<1>4. WritePart(m, at, x, n) = [m EXCEPT !.mem[at] = y]
  BY <1>2 DEF WritePart
<1>5. SetVar(m, Fp - at, y) = [m EXCEPT !.mem[at] = y]
  BY <1>1, <1>3 DEF SetVar
<1> QED  BY <1>1, <1>2, <1>4, <1>5

\* Two words of the memory, through the frame pointer.
PutPair(m, at, p) == [m EXCEPT !.mem[at] = p[1], !.mem[at + 1] = p[2]]

\* A write of two words.
LEMMA PairWritten ==
  ASSUME NEW m, IsMachineState(m), NEW at \in DOMAIN m.mem, NEW y, NEW p, p = Halves(y)
  PROVE  SetVar64(m, Fp - at, y) = PutPair(m, at, p)
<1>1. Fp - (Fp - at) = at /\ Fp - (Fp - at) + 1 = at + 1
  BY WordsAt
<1>2. p[1] = LowHalf(Low(y, QuadBits)) /\ p[2] = HighHalf(Low(y, QuadBits))
  BY DEF Halves
<1> QED  BY <1>1, <1>2, Zenon DEF SetVar64, PutPair

GlobalMoves == {"CpyVtoG4", "CpyGtoV4", "SetG4", "LdGRdR4", "ClrVPtr", "LDG", "LDV",
                "ChkNullV"}

\* Moves between variables and globals.
LEMMA GlobalsAgree ==
  ASSUME NEW i, NEW m, IsMachineState(m), OperandsFit(i, m), AddressesFit(i, m),
         CachedApart(i, m), i.op \in GlobalMoves
  PROVE  Agrees(EmitMemory(i, m), Interpret(i, Interpreted(m)))
<1>1. Cached(m) = {} /\ Interpreted(m) = m /\ Mirror(m, m)
  <2>1. ~IsCacheableLocalOp(i.op)
    BY DEF GlobalMoves, IsCacheableLocalOp, IsConditionalBranch
  <2> QED  BY <2>1, NothingCached
<1>2. \A o : LoadVar(m, o) = Var(m, o)
  BY <1>1, PlainLoads
<1>3. ~(i.op \in FieldOps)
  BY DEF GlobalMoves, FieldOps, IndirectOps, PropertyOps
<1>4. ASSUME i.op \in InterpretedOps, EmitMemory(i, m) = Interpret(i, m)
      PROVE  Agrees(EmitMemory(i, m), Interpret(i, Interpreted(m)))
  BY <1>1, <1>4, AsInterpreted
<1>5. i.op \in InterpretedOps
  BY DEF GlobalMoves, InterpretedOps, CopyVariableOps, SetGlobalOps, LoadGlobalOps,
         PushObjectOps, AddressOps, CheckOps
<1>6. CASE i.op = "CpyVtoG4"
  <2>1. EmitMemory(i, m) = [m EXCEPT !.mem[i.p] = Var(m, i.a)]
    BY <1>2, <1>3, <1>6 DEF EmitMemory, ExtendOps, NarrowOps, WordToGlobal
  <2>2. Interpret(i, m) = [m EXCEPT !.mem[i.p] = Var(m, i.a)]
    BY <1>6, HelperOfGroup DEF CopyVariableOps, CopyVariable
  <2> QED  BY <1>4, <1>5, <2>1, <2>2
<1>7. CASE i.op = "CpyGtoV4"
  <2>1. EmitMemory(i, m) = StoreVar(m, i.a, m.mem[i.p])
    BY <1>3, <1>7 DEF EmitMemory, ExtendOps, NarrowOps, GlobalToWord
  <2>2. Interpret(i, m) = SetVar(m, i.a, m.mem[i.p])
    BY <1>7, HelperOfGroup DEF CopyVariableOps, CopyVariable
  <2>3. m.mem[i.p] = Low(m.mem[i.p], WordBits)
    BY <1>7, WordsAt DEF AddressesFit
  <2> QED  BY <1>1, <1>4, <1>5, <2>1, <2>2, <2>3, PlainStores
<1>8. CASE i.op = "SetG4"
  <2>1. EmitMemory(i, m) = [m EXCEPT !.mem[i.p] = i.q[1]]
    BY <1>3, <1>8 DEF EmitMemory, ExtendOps, NarrowOps, SetGlobalWord
  <2>2. Interpret(i, m) = [m EXCEPT !.mem[i.p] = i.q[1]]
    BY <1>8, HelperOfGroup DEF SetGlobalOps, SetGlobal
  <2> QED  BY <1>4, <1>5, <2>1, <2>2
<1>9. CASE i.op = "LdGRdR4"
  <2>1. EmitMemory(i, m) = StoreVar(SetResult(m, i.p), i.a, m.mem[i.p])
    BY <1>3, <1>9 DEF EmitMemory, ExtendOps, NarrowOps, LoadGlobalWord
  <2>2. Interpret(i, m) = SetVar(SetResult(m, i.p), i.a, m.mem[i.p])
    BY <1>9, HelperOfGroup DEF LoadGlobalOps, LoadGlobal
  <2>3. m.mem[i.p] = Low(m.mem[i.p], WordBits)
    BY <1>9, WordsAt DEF AddressesFit
  <2>4. Cached(SetResult(m, i.p)) = {}
    BY <1>1 DEF Cached, SetResult, Mirror, Fields
  <2> QED  BY <1>4, <1>5, <2>1, <2>2, <2>3, <2>4, PlainStores
<1>10. CASE i.op = "ClrVPtr"
  <2>1. EmitMemory(i, m) = StoreVar(m, i.a, 0)
    BY <1>3, <1>10 DEF EmitMemory, ExtendOps, NarrowOps, ClearPointer
  <2>2. Interpret(i, m) = SetVar(m, i.a, 0)
    BY <1>10, HelperOfGroup, Zenon DEF PushObjectOps, PushObject
  <2>3. 0 = Low(0, WordBits)
    BY LowOfWord, WordIsNat
  <2> QED  BY <1>1, <1>4, <1>5, <2>1, <2>2, <2>3, PlainStores
<1>11. CASE i.op \in {"LDG", "LDV"}
  <2>1. EmitMemory(i, m) = Interpret(i, m)
    BY <1>3, <1>11, HelperOfGroup, Zenon DEF EmitMemory, ExtendOps, NarrowOps, GlobalAddress,
       LocalAddress, AddressOps, Address
  <2> QED  BY <1>4, <1>5, <2>1
<1>12. CASE i.op = "ChkNullV"
  <2>1. EmitMemory(i, m) = NullGuard(m, Var(m, i.a), m)
    BY <1>3, <1>12 DEF EmitMemory, ExtendOps, NarrowOps, CheckVariable
  <2>2. Interpret(i, m) = NullCheck(m, Var(m, i.a), m)
    BY <1>12, HelperOfGroup DEF CheckOps, Check
  <2> QED  BY <1>1, <2>1, <2>2, GuardAgrees, MirrorAgrees
<1> QED  BY <1>6, <1>7, <1>8, <1>9, <1>10, <1>11, <1>12 DEF GlobalMoves

\* Parts of words extended or cut.
LEMMA WidenedAgree ==
  ASSUME NEW i, NEW m, IsMachineState(m), OperandsFit(i, m),
         CachedApart(i, m), i.op \in ExtendOps \union NarrowOps
  PROVE  Agrees(EmitMemory(i, m), Interpret(i, Interpreted(m)))
<1>1. Cached(m) = {} /\ Interpreted(m) = m /\ Mirror(m, m)
  <2>1. ~IsCacheableLocalOp(i.op)
    BY DEF ExtendOps, NarrowOps, IsCacheableLocalOp, IsConditionalBranch
  <2> QED  BY <2>1, NothingCached
<1>2. NamesVariables(i)
  BY DEF ExtendOps, NarrowOps, NamesVariables, ArgumentOps, ListOps
<1>3. PICK x \in Word : x = LoadVar(m, i.a) /\ x = Var(m, i.a)
  BY <1>1, <1>2, Operands
<1>4. i.a \in Int /\ Fp - i.a \in DOMAIN m.mem
  BY <1>2, Operands
<1>5. ~(i.op \in FieldOps)
  BY DEF ExtendOps, NarrowOps, FieldOps, IndirectOps, PropertyOps
<1>6. PICK n \in {ByteBits, ShortBits} : n = WidthOf(i.op)
  BY DEF ExtendOps, NarrowOps, WidthOf
<1>7. PICK y : y = IF i.op \in {"sbTOi", "swTOi"} THEN Extend(x, n, WordBits) ELSE Low(x, n)
  OBVIOUS
<1>8. y = Low(y, WordBits)
  <2>1. x \in Int
    BY WordIsNat
  <2>2. y \in Word
    BY <1>7, <2>1, LowIsWord
  <2> QED  BY <2>2, LowOfWord
<1>9. EmitMemory(i, m) = StoreVar(m, i.a, y)
  <2>1. EmitMemory(i, m) = ExtendOrCut(i, m)
    BY <1>5 DEF EmitMemory, ExtendOps, NarrowOps
  <2> QED  BY <1>3, <1>6, <1>7, <2>1, Zenon DEF ExtendOrCut
<1>10. Interpret(i, m) = SetVar(m, i.a, y)
  <2>1. CASE i.op \in ExtendOps
    <3>1. Interpret(i, m) = ExtendPart(i, m)
      BY <2>1, HelperOfGroup
    <3> QED  BY <1>3, <1>6, <1>7, <2>1, <3>1 DEF ExtendPart, ExtendOps, WidthOf
  <2>2. CASE i.op \in NarrowOps
    <3>1. Interpret(i, m) = Narrow(i, m)
      BY <2>2, HelperOfGroup
    <3> QED  BY <1>3, <1>6, <1>7, <2>2, <3>1 DEF Narrow, NarrowOps, WidthOf
  <2> QED  BY <2>1, <2>2
<1> QED  BY <1>1, <1>4, <1>8, <1>9, <1>10, StoredAgrees

\* Reads and writes through the value register, inlined or left to the
\* helper.
LEMMA FieldsAgree ==
  ASSUME NEW i, NEW m, IsMachineState(m), OperandsFit(i, m), AddressesFit(i, m),
         CachedApart(i, m), i.op \in FieldOps
  PROVE  Agrees(EmitMemory(i, m), Interpret(i, Interpreted(m)))
<1>1. Cached(m) = {} /\ Interpreted(m) = m /\ Mirror(m, m)
  <2>1. ~IsCacheableLocalOp(i.op)
    BY DEF FieldOps, IndirectOps, PropertyOps, IsCacheableLocalOp, IsConditionalBranch
  <2> QED  BY <2>1, NothingCached
<1>2. i.op \in InterpretedOps
  BY DEF FieldOps, IndirectOps, PropertyOps, InterpretedOps
<1>3. CASE ~m.inlineFields
  <2>1. EmitMemory(i, m) = EmitHelperCall(i, m)
    BY <1>3 DEF EmitMemory
  <2> QED  BY <1>1, <1>2, <2>1, HelperMirrors, MirrorAgrees
<1>4. CASE m.inlineFields
  <2>1. NamesVariables(i)
    BY DEF FieldOps, IndirectOps, PropertyOps, NamesVariables, ArgumentOps, ListOps
  <2>2. /\ i.a \in Int /\ Fp - i.a \in DOMAIN m.mem /\ LoadVar(m, i.a) = Var(m, i.a)
        /\ Var(m, i.a) \in Word /\ Var(m, i.a - 1) \in Word
        /\ Var64(m, i.a) = Quad(Var(m, i.a), Var(m, i.a - 1))
    BY <1>1, <2>1, Operands
  <2>3. ASSUME EmitMemory(i, m) = Interpret(i, m)
        PROVE  Agrees(EmitMemory(i, m), Interpret(i, Interpreted(m)))
    BY <1>1, <1>2, <2>3, AsInterpreted
  <2>4. CASE i.op \in IndirectOps
    <3>1. PICK at : at = m.vr[1]
      OBVIOUS
    <3>2. at \in DOMAIN m.mem /\ at + 1 \in DOMAIN m.mem
      BY <2>4, <3>1 DEF AddressesFit
    <3>3. /\ Var(m, Fp - at) = m.mem[at] /\ m.mem[at] \in Word /\ m.mem[at + 1] \in Word
          /\ Low(m.mem[at], WordBits) = m.mem[at]
          /\ Low(m.mem[at + 1], WordBits) = m.mem[at + 1]
          /\ Fp - (Fp - at) = at /\ Fp - (Fp - at) + 1 = at + 1
      BY <3>2, WordsAt
    <3>4. Interpret(i, m) = Indirect(i, m)
      BY <2>4, HelperOfGroup
    <3>5. CASE i.op \in {"WRTV1", "WRTV2", "WRTV4"}
      <4>1. PICK n \in {ByteBits, ShortBits, WordBits} : n = WidthOf(i.op)
        BY <3>5 DEF WidthOf
      <4>2. EmitMemory(i, m) = WritePart(m, at, Var(m, i.a), n)
        BY <1>4, <2>2, <3>1, <3>5, <4>1 DEF EmitMemory, ExtendOps, NarrowOps, WriteField
      <4>3. Interpret(i, m) =
              SetVar(m, Fp - at, Var(m, Fp - at) - Low(Var(m, Fp - at), n)
                                   + Low(Var(m, i.a), n))
        BY <3>1, <3>4, <3>5, <4>1 DEF Indirect, WidthOf
      <4>4. Var(m, i.a) \in Int
        <5>1. PICK x \in Word : x = Var(m, i.a)
          BY <2>2
        <5>2. x \in Int
          BY WordIsNat
        <5> QED  BY <5>1, <5>2
      <4> QED  BY <2>3, <3>2, <4>2, <4>3, <4>4, PartWritten
    <3>6. CASE i.op = "WRTV8"
      <4>1. EmitMemory(i, m) = [m EXCEPT !.mem[at] = Var(m, i.a), !.mem[at + 1] = Var(m, i.a - 1)]
        BY <1>4, <3>1, <3>6 DEF EmitMemory, ExtendOps, NarrowOps, WriteQuadField
      <4>2. Interpret(i, m) = SetVar64(m, Fp - at, Var64(m, i.a))
        BY <3>1, <3>4, <3>6 DEF Indirect
      <4>3. PICK p : p = <<Var(m, i.a), Var(m, i.a - 1)>>
        BY Zenon
      <4>4. p = Halves(Var64(m, i.a))
        BY <2>2, <4>3, QuadIsQuad
      <4>5. SetVar64(m, Fp - at, Var64(m, i.a)) = PutPair(m, at, p)
        BY <3>2, <4>4, PairWritten, Zenon
      <4>6. p[1] = Var(m, i.a) /\ p[2] = Var(m, i.a - 1)
        BY <4>3
      <4> QED  BY <2>3, <4>1, <4>2, <4>5, <4>6 DEF PutPair
    <3>7. CASE i.op \in {"RDR1", "RDR2", "RDR4"}
      <4>1. PICK n \in {ByteBits, ShortBits, WordBits} : n = WidthOf(i.op)
        BY <3>7 DEF WidthOf
      <4>2. PICK x : x = Low(m.mem[at], n)
        OBVIOUS
      <4>3. EmitMemory(i, m) = StoreVar(m, i.a, x)
        BY <1>4, <3>1, <3>7, <4>1, <4>2 DEF EmitMemory, ExtendOps, NarrowOps, ReadField
      <4>4. Interpret(i, m) = SetVar(m, i.a, x)
        BY <3>1, <3>3, <3>4, <3>7, <4>1, <4>2 DEF Indirect, WidthOf
      <4>5. x = Low(x, WordBits)
        <5>1. Word \subseteq Int
          BY WordIsNat
        <5>2. m.mem[at] \in Word
          BY <3>3
        <5>3. m.mem[at] \in Int
          BY <5>1, <5>2, Zenon
        <5> QED  BY <4>2, <5>3, LowIsWord, LowOfWord
      <4> QED  BY <1>1, <2>3, <4>3, <4>4, <4>5, PlainStores
    <3>8. CASE i.op = "RDR8"
      <4>1. EmitMemory(i, m) = SetVar(SetVar(m, i.a, m.mem[at]), i.a - 1, m.mem[at + 1])
        BY <1>4, <3>1, <3>8 DEF EmitMemory, ExtendOps, NarrowOps, ReadQuadField
      <4>2. Interpret(i, m) = SetVar64(m, i.a, Var64(m, Fp - at))
        BY <3>1, <3>4, <3>8 DEF Indirect
      <4>3. Var64(m, Fp - at) = Quad(m.mem[at], m.mem[at + 1])
        BY <3>3 DEF Var64
      <4>4. Fp - (i.a - 1) = Fp - i.a + 1
        BY <2>2, LocalCacheAssumption
      <4>5. PICK l, h : l = m.mem[at] /\ h = m.mem[at + 1] /\ l \in Word /\ h \in Word
        BY <3>3
      <4>6. SetVar(SetVar(m, i.a, l), i.a - 1, h) =
              [m EXCEPT !.mem[Fp - i.a] = l, !.mem[Fp - i.a + 1] = h]
        BY <3>3, <4>4, <4>5, Zenon DEF SetVar
      <4>7. SetVar64(m, i.a, Quad(l, h)) =
              [m EXCEPT !.mem[Fp - i.a] = l, !.mem[Fp - i.a + 1] = h]
        <5>1. /\ LowHalf(Low(Quad(l, h), QuadBits)) = l
              /\ HighHalf(Low(Quad(l, h), QuadBits)) = h
          BY <4>5, QuadIsQuad
        <5> QED  BY <5>1, Zenon DEF SetVar64
      <4> QED  BY <2>3, <4>1, <4>2, <4>3, <4>5, <4>6, <4>7
    <3> QED  BY <2>4, <3>5, <3>6, <3>7, <3>8 DEF IndirectOps
  <2>5. CASE i.op = "LoadVObjR"
    <3>1. EmitMemory(i, m) = SetResult(m, Fp - i.a + i.b)
      BY <1>4, <2>5 DEF EmitMemory, ExtendOps, NarrowOps, AddressOfField
    <3>2. Interpret(i, m) = SetResult(m, Fp - i.a + i.b)
      BY <2>5, HelperOfGroup, Zenon DEF PropertyOps, Property
    <3> QED  BY <2>3, <3>1, <3>2
  <2>6. CASE i.op = "LoadThisR"
    <3>1. PICK x : x = Var(m, 0)
      OBVIOUS
    <3>2. EmitMemory(i, m) = NullGuard(m, x, SetResult(m, x + i.a))
      BY <1>4, <2>6, <3>1 DEF EmitMemory, ExtendOps, NarrowOps, FieldOfObject
    <3>3. Interpret(i, m) = NullCheck(m, x, SetResult(m, x + i.a))
      BY <2>6, <3>1, HelperOfGroup, Zenon DEF PropertyOps, Property
    <3>4. Agrees(SetResult(m, x + i.a), SetResult(m, x + i.a))
      BY <1>1, MirrorResult, MirrorAgrees
    <3> QED  BY <1>1, <3>2, <3>3, <3>4, GuardAgrees
  <2>7. CASE i.op = "LoadRObjR"
    <3>1. PICK x : x = Var(m, i.a)
      OBVIOUS
    <3>2. EmitMemory(i, m) = NullGuard(m, x, SetResult(m, x + i.b))
      BY <1>4, <2>7, <3>1 DEF EmitMemory, ExtendOps, NarrowOps, FieldOfObject
    <3>3. Interpret(i, m) = NullCheck(m, x, SetResult(m, x + i.b))
      BY <2>7, <3>1, HelperOfGroup, Zenon DEF PropertyOps, Property
    <3>4. Agrees(SetResult(m, x + i.b), SetResult(m, x + i.b))
      BY <1>1, MirrorResult, MirrorAgrees
    <3> QED  BY <1>1, <3>2, <3>3, <3>4, GuardAgrees
  <2> QED  BY <2>4, <2>5, <2>6, <2>7 DEF FieldOps, PropertyOps
<1> QED  BY <1>3, <1>4

\* Steps through the address in the value register.
LEMMA StepsAgree ==
  ASSUME NEW i, NEW m, IsMachineState(m), OperandsFit(i, m), AddressesFit(i, m),
         CachedApart(i, m), i.op \in StepOps \union {"INCi64", "DECi64"}
  PROVE  Agrees(EmitMemory(i, m), Interpret(i, Interpreted(m)))
<1>1. Cached(m) = {} /\ Interpreted(m) = m /\ Mirror(m, m)
  <2>1. ~IsCacheableLocalOp(i.op)
    BY DEF StepOps, IsCacheableLocalOp, IsConditionalBranch
  <2> QED  BY <2>1, NothingCached
<1>2. i.op \in InterpretedOps
  BY DEF StepOps, Unary64Ops, InterpretedOps
<1>3. ASSUME EmitMemory(i, m) = Interpret(i, m)
      PROVE  Agrees(EmitMemory(i, m), Interpret(i, Interpreted(m)))
  BY <1>1, <1>2, <1>3, AsInterpreted
<1>4. ~(i.op \in FieldOps)
  BY DEF StepOps, FieldOps, IndirectOps, PropertyOps
<1>5. PICK at : at = m.vr[1]
  OBVIOUS
<1>6. at \in DOMAIN m.mem /\ at + 1 \in DOMAIN m.mem
  BY <1>5 DEF AddressesFit
<1>7. PICK x \in Word, u \in Word :
        /\ x = m.mem[at] /\ x = Var(m, Fp - at) /\ u = m.mem[at + 1]
        /\ Low(x, WordBits) = x
        /\ Fp - (Fp - at) = at /\ Fp - (Fp - at) + 1 = at + 1
  BY <1>6, WordsAt
<1>8. Var64(m, Fp - at) = Quad(x, u)
  BY <1>7, Zenon DEF Var64
<1>9. x \in Int
  BY WordIsNat
<1>10. CASE i.op \in {"INCi", "DECi", "INCi8", "DECi8", "INCi16", "DECi16"}
  <2>1. PICK y \in Int : y = x + (IF i.op \in {"INCi", "INCi8", "INCi16"} THEN 1 ELSE -1)
    BY <1>9
  <2>2. PICK n \in {ByteBits, ShortBits, WordBits} : n = WidthOf(i.op)
    BY <1>10 DEF WidthOf
  <2>3. EmitMemory(i, m) = WritePart(m, at, y, n)
    <3>1. EmitMemory(i, m) = StepThroughAddress(i, m)
      BY <1>4, <1>10 DEF EmitMemory, ExtendOps, NarrowOps
    <3> QED  BY <1>5, <1>7, <2>1, <2>2, <3>1, Zenon DEF StepThroughAddress
  <2>4. EmitMemory(i, m) = SetVar(m, Fp - at, x - Low(x, n) + Low(y, n))
    BY <1>6, <1>7, <2>3, PartWritten
  <2>5. Interpret(i, m) = Step(i, m)
    BY <1>10, HelperOfGroup DEF StepOps
  <2>6. CASE i.op \in {"INCi8", "DECi8", "INCi16", "DECi16"}
    <3>1. (i.op \in {"INCi8", "INCi16"} => y = x + 1)
          /\ (i.op \in {"DECi8", "DECi16"} => y = x - 1)
      BY <1>9, <2>1
    <3>2. Interpret(i, m) = SetVar(m, Fp - at, x - Low(x, n) + Low(y, n))
      BY <1>5, <1>7, <2>2, <2>5, <2>6, <3>1 DEF Step, WidthOf
    <3> QED  BY <1>3, <2>4, <3>2
  <2>7. CASE i.op \in {"INCi", "DECi"}
    <3>1. n = WordBits
      BY <2>2, <2>7 DEF WidthOf
    <3>2. PICK z \in Word : z = Low(y, WordBits) /\ Low(z, WordBits) = z
      BY HalfIsWord, LowOfWord
    <3>3. x - Low(x, n) + Low(y, n) = z
      <4>1. z \in Int
        BY WordIsNat
      <4> QED  BY <1>7, <1>9, <3>1, <3>2, <4>1
    <3>4. (i.op = "INCi" => y = x + 1) /\ (i.op = "DECi" => y = x - 1)
      BY <1>9, <2>1
    <3>5. Interpret(i, m) = SetVar(m, Fp - at, y)
      BY <1>5, <1>7, <2>5, <2>7, <3>4 DEF Step
    <3>6. SetVar(m, Fp - at, y) = SetVar(m, Fp - at, z)
      BY <3>2 DEF SetVar
    <3> QED  BY <1>3, <2>4, <3>3, <3>5, <3>6
  <2> QED  BY <1>10, <2>6, <2>7
<1>11. CASE i.op \in {"INCf", "DECf"}
  <2>1. PICK y : y = SumOf(x, IF i.op = "INCf" THEN One(WordBits)
                              ELSE Negated(One(WordBits), WordBits), WordBits)
    OBVIOUS
  <2>2. EmitMemory(i, m) = [m EXCEPT !.mem[at] = Half(y)]
    <3>1. EmitMemory(i, m) = StepFloat(i, m)
      BY <1>4, <1>11 DEF EmitMemory, ExtendOps, NarrowOps
    <3> QED  BY <1>5, <1>7, <2>1, <3>1, Zenon DEF StepFloat
  <2>3. Interpret(i, m) = SetVar(m, Fp - at, y)
    <3>1. Interpret(i, m) = Step(i, m)
      BY <1>11, HelperOfGroup DEF StepOps
    <3> QED  BY <1>5, <1>7, <1>11, <2>1, <3>1 DEF Step
  <2>4. SetVar(m, Fp - at, y) = [m EXCEPT !.mem[at] = Half(y)]
    BY <1>7 DEF SetVar, Half
  <2> QED  BY <1>3, <2>2, <2>3, <2>4
<1>12. CASE i.op \in {"INCd", "DECd"}
  <2>1. PICK y : y = SumOf(Quad(x, u), IF i.op = "INCd" THEN One(QuadBits)
                              ELSE Negated(One(QuadBits), QuadBits), QuadBits)
    OBVIOUS
  <2>2. PICK p : p = Halves(y)
    OBVIOUS
  <2>3. EmitMemory(i, m) = PutPair(m, at, p)
    <3>1. EmitMemory(i, m) = StepDouble(i, m)
      BY <1>4, <1>12 DEF EmitMemory, ExtendOps, NarrowOps
    <3> QED  BY <1>5, <1>7, <2>1, <2>2, <3>1, Zenon DEF StepDouble, PutPair
  <2>4. Interpret(i, m) = SetVar64(m, Fp - at, y)
    <3>1. Interpret(i, m) = Step(i, m)
      BY <1>12, HelperOfGroup DEF StepOps
    <3> QED  BY <1>5, <1>8, <1>12, <2>1, <3>1 DEF Step
  <2>5. SetVar64(m, Fp - at, y) = PutPair(m, at, p)
    BY <1>6, <2>2, PairWritten, Zenon
  <2> QED  BY <1>3, <2>3, <2>4, <2>5, Zenon
<1>13. CASE i.op \in {"INCi64", "DECi64"}
  <2>1. PICK y : y = IF i.op = "INCi64" THEN Quad(x, u) + 1 ELSE Quad(x, u) - 1
    OBVIOUS
  <2>2. PICK p : p = <<Half(x + (IF i.op = "INCi64" THEN 1 ELSE -1)),
                       Half(IF i.op = "INCi64" THEN u + Truth(x = MinusOne(WordBits))
                            ELSE u - Truth(x = 0))>>
    BY Zenon
  <2>3. p = Halves(y)
    <3>1. x + (-1) = x - 1
      BY <1>9
    <3> QED  BY <1>13, <2>1, <2>2, <3>1, StepHalves
  <2>4. EmitMemory(i, m) = PutPair(m, at, p)
    <3>1. EmitMemory(i, m) = StepQuad(i, m)
      BY <1>4, <1>13 DEF EmitMemory, ExtendOps, NarrowOps
    <3> QED  BY <1>5, <1>7, <2>2, <3>1, Zenon DEF StepQuad, PutPair
  <2>5. Interpret(i, m) = SetVar64(m, Fp - at, y)
    <3>1. Interpret(i, m) = Unary64(i, m)
      BY <1>13, HelperOfGroup DEF Unary64Ops
    <3> QED  BY <1>5, <1>8, <1>13, <2>1, <3>1 DEF Unary64
  <2>6. SetVar64(m, Fp - at, y) = PutPair(m, at, p)
    BY <1>6, <2>3, PairWritten, Zenon
  <2> QED  BY <1>3, <2>4, <2>5, <2>6, Zenon
<1> QED  BY <1>10, <1>11, <1>12, <1>13 DEF StepOps

\* EmitMemory does what the helpers of the memory instructions do.
THEOREM MemoryAgrees ==
  ASSUME NEW i, NEW m, IsMachineState(m), OperandsFit(i, m), AddressesFit(i, m),
         CachedApart(i, m), i.op \in MemoryOps
  PROVE  Agrees(EmitMemory(i, m), Interpret(i, Interpreted(m)))
<1>1. \/ i.op \in CachedMoves \/ i.op \in GlobalMoves
      \/ i.op \in ExtendOps \union NarrowOps \/ i.op \in FieldOps
      \/ i.op \in StepOps \union {"INCi64", "DECi64"}
  BY DEF MemoryOps, CachedMoves, GlobalMoves, LoadGlobalOps, SetGlobalOps, CopyVariableOps
<1> QED  BY <1>1, MovesAgree, GlobalsAgree, WidenedAgree, FieldsAgree, StepsAgree

-----------------------------------------------------------------------------
(* EmitReferences.                                                         *)

\* What emitted code and interpreter find on the stack and behind it.
LEMMA NotCachedWords ==
  ASSUME NEW m, IsMachineState(m), NEW at \in DOMAIN m.mem,
         ~(at \in {Fp - o : o \in Cached(m)})
  PROVE  View(m)[at] = m.mem[at] /\ Fp - at \notin DOMAIN m.reg
<1>1. at \in Int /\ Fp \in Int
  BY LocalCacheAssumption DEF IsMachineState
<1>2. ~(Fp - at \in DOMAIN m.reg)
  <2>1. Fp - (Fp - at) = at
    BY <1>1
  <2> QED  BY <2>1 DEF Cached
<1> QED  BY <1>2, ViewOfMachine, StateIsMachine, Zenon

\* Cached locals are apart from the top of the stack.
LEMMA StackOfCached ==
  ASSUME NEW i, NEW m, IsMachineState(m), AddressesFit(i, m), CachedApart(i, m),
         i.op \in {"CHKREF", "ChkRefS", "Cast", "REFCPY", "COPY"}
  PROVE  /\ View(m)[m.sp] = m.mem[m.sp] /\ View(m)[m.sp + 1] = m.mem[m.sp + 1]
         /\ m.mem[m.sp] \in DOMAIN m.mem => View(m)[m.mem[m.sp]] = m.mem[m.mem[m.sp]]
         /\ m.sp + 1 \in DOMAIN m.mem /\ Fp - (m.sp + 1) \notin DOMAIN m.reg
         /\ m.mem[m.sp] \in Word
<1>1. m.sp \in DOMAIN m.mem /\ m.sp + 1 \in DOMAIN m.mem
  BY DEF AddressesFit
<1>2. ~(m.sp \in {Fp - o : o \in Cached(m)}) /\ ~(m.sp + 1 \in {Fp - o : o \in Cached(m)})
      /\ ~(m.mem[m.sp] \in {Fp - o : o \in Cached(m)})
  BY DEF CachedApart
<1>3. m.mem[m.sp] \in Word
  BY <1>1 DEF IsMachineState
<1> QED  BY <1>1, <1>2, <1>3, NotCachedWords

\* FREE
LEMMA FreeAgrees ==
  ASSUME NEW i, NEW m, IsMachineState(m), OperandsFit(i, m), i.op = "FREE"
  PROVE  Agrees(FreeVariable(i, m), Interpret(i, Interpreted(m)))
<1>1. PICK t : t = Interpreted(m)
  OBVIOUS
<1>2. /\ Mirror(m, t) /\ i.a \in Int /\ Fp - i.a \in DOMAIN m.mem
      /\ LoadVar(m, i.a) = Var(t, i.a)
  <2>1. NamesVariables(i)
    BY DEF NamesVariables, ArgumentOps, ListOps
  <2> QED  BY <1>1, <2>1, Operands
<1>3. CASE ~FastCopied(i)
  <2>1. i.op \in InterpretedOps
    BY DEF InterpretedOps, FreeOps
  <2> QED  BY <1>1, <1>2, <1>3, <2>1, HelperMirrors, MirrorAgrees DEF FreeVariable
<1>4. CASE FastCopied(i)
  <2>1. PICK object : object = LoadVar(m, i.a)
    OBVIOUS
  <2>2. Interpret(i, t) = IF object = 0 THEN t ELSE SetVar(Release(t, object), i.a, 0)
    BY <1>2, <2>1, HelperOfGroup DEF FreeOps, Free
  <2>3. PICK f : f = FlushCachedLocals(m)
    OBVIOUS
  <2>4. FreeVariable(i, m) =
          IF object = 0 THEN m
          ELSE StoreVar(ReloadCachedLocals(Release(f, object)), i.a, 0)
    BY <1>4, <2>1, <2>3 DEF FreeVariable, Invoke, FastReleaseScriptObject
  <2>5. PICK p, q : p = Release(f, object) /\ q = Release(t, object)
    OBVIOUS
  <2>6. Twins(p, q, m.reg, DOMAIN m.mem)
    BY <1>2, <2>3, <2>5, MirrorFlush, TwinsAddRef
  <2>7. PICK r : r = ReloadCachedLocals(p)
    OBVIOUS
  <2>8. Mirror(r, q) /\ DOMAIN r.mem = DOMAIN m.mem
    BY <1>2, <2>6, <2>7, MirrorReload, Zenon DEF Mirror
  <2>9. 0 = Low(0, WordBits)
    BY LowOfWord, WordIsNat
  <2>10. Agrees(StoreVar(r, i.a, 0), SetVar(q, i.a, 0))
    BY <1>2, <2>8, <2>9, StoredAgrees
  <2> QED  BY <1>1, <1>2, <2>2, <2>4, <2>5, <2>7, <2>10, MirrorAgrees
<1> QED  BY <1>3, <1>4

\* LOADOBJ and STOREOBJ
LEMMA ObjectRegisterAgrees ==
  ASSUME NEW i, NEW m, IsMachineState(m), OperandsFit(i, m),
         i.op \in {"STOREOBJ", "LOADOBJ"}
  PROVE  Agrees(EmitReferences(i, m), Interpret(i, Interpreted(m)))
<1>1. PICK t : t = Interpreted(m)
  OBVIOUS
<1>2. /\ Mirror(m, t) /\ i.a \in Int /\ Fp - i.a \in DOMAIN m.mem
      /\ LoadVar(m, i.a) = Var(t, i.a)
  <2>1. NamesVariables(i)
    BY DEF NamesVariables, ArgumentOps, ListOps
  <2> QED  BY <1>1, <2>1, Operands
<1>3. t.object = m.object /\ m.object = Low(m.object, WordBits)
  BY <1>1, InterpretedFields, LowOfWord, Zenon DEF IsMachineState
<1>4. CASE i.op = "STOREOBJ"
  <2>1. PICK n, s : n = StoreVar(m, i.a, m.object) /\ s = SetVar(t, i.a, m.object)
    OBVIOUS
  <2>2. Mirror(n, s)
    BY <1>2, <1>3, <2>1, MirrorStore
  <2>3. EmitReferences(i, m) = [n EXCEPT !.object = 0]
    BY <1>4, <2>1 DEF EmitReferences, StoreObject
  <2>4. Interpret(i, t) = [s EXCEPT !.object = 0]
    <3>1. Interpret(i, t) = [SetVar(t, i.a, t.object) EXCEPT !.object = 0]
      BY <1>4, HelperOfGroup, Zenon DEF ObjectRegisterOps, ObjectRegister
    <3>2. t.object = m.object
      BY <1>3
    <3> QED  BY <2>1, <3>1, <3>2
  <2> QED  BY <1>1, <2>2, <2>3, <2>4, MirrorObject, MirrorAgrees
<1>5. CASE i.op = "LOADOBJ"
  <2>1. PICK x : x = LoadVar(m, i.a)
    OBVIOUS
  <2>2. PICK n, s : n = [m EXCEPT !.object = x] /\ s = [t EXCEPT !.object = x]
    BY Zenon
  <2>3. Mirror(n, s)
    BY <1>2, <2>2, MirrorObject, Zenon
  <2>4. n.mem = m.mem
    BY <1>2, <2>2 DEF Mirror, Fields
  <2>5. EmitReferences(i, m) = StoreVar(n, i.a, 0)
    BY <1>5, <2>1, <2>2 DEF EmitReferences, LoadObject
  <2>6. Interpret(i, t) = SetVar(s, i.a, 0)
    BY <1>2, <1>5, <2>1, <2>2, HelperOfGroup DEF ObjectRegisterOps, ObjectRegister
  <2>7. 0 = Low(0, WordBits)
    BY LowOfWord, WordIsNat
  <2> QED  BY <1>1, <1>2, <2>3, <2>4, <2>5, <2>6, <2>7, StoredAgrees
<1> QED  BY <1>4, <1>5

\* CHKREF, ChkRefS and ChkNullS
LEMMA ChecksAgree ==
  ASSUME NEW i, NEW m, IsMachineState(m), AddressesFit(i, m), CachedApart(i, m),
         i.op \in {"CHKREF", "ChkRefS", "ChkNullS"}
  PROVE  Agrees(EmitReferences(i, m), Interpret(i, Interpreted(m)))
<1>1. PICK t : t = Interpreted(m)
  OBVIOUS
<1>2. Mirror(m, t) /\ Agrees(m, t)
  BY <1>1, MirrorStart, MirrorAgrees
<1>3. t.mem = View(m) /\ t.sp = m.sp
  BY <1>1, InterpretedFields
<1>4. CASE i.op = "CHKREF"
  <2>1. EmitReferences(i, m) = NullGuard(m, m.mem[m.sp], m)
    BY <1>4 DEF EmitReferences, CheckTop, Top
  <2>2. Interpret(i, t) = NullCheck(t, m.mem[m.sp], t)
    <3>1. Interpret(i, t) = NullCheck(t, t.mem[t.sp], t)
      BY <1>4, HelperOfGroup DEF CheckOps, Check, Top
    <3> QED  BY <1>3, <1>4, <3>1, StackOfCached
  <2> QED  BY <1>1, <1>2, <2>1, <2>2, GuardAgrees
<1>5. CASE i.op = "ChkRefS"
  <2>1. EmitReferences(i, m) = NullGuard(m, m.mem[m.mem[m.sp]], m)
    BY <1>5 DEF EmitReferences, CheckReference, Top
  <2>2. Interpret(i, t) = NullCheck(t, m.mem[m.mem[m.sp]], t)
    <3>1. Interpret(i, t) = NullCheck(t, t.mem[t.mem[t.sp]], t)
      BY <1>5, HelperOfGroup DEF CheckOps, Check, Top
    <3>2. m.mem[m.sp] \in DOMAIN m.mem
      BY <1>5 DEF AddressesFit, Top
    <3> QED  BY <1>3, <1>5, <3>1, <3>2, StackOfCached
  <2> QED  BY <1>1, <1>2, <2>1, <2>2, GuardAgrees
<1>6. CASE i.op = "ChkNullS"
  <2>1. EmitReferences(i, m) = NullGuard(m, m.mem[m.sp + i.a], m)
    BY <1>6 DEF EmitReferences, CheckArgument
  <2>2. Interpret(i, t) = NullCheck(t, m.mem[m.sp + i.a], t)
    <3>1. Interpret(i, t) = NullCheck(t, t.mem[t.sp + i.a], t)
      BY <1>6, HelperOfGroup DEF CheckOps, Check
    <3>2. m.sp + i.a \in DOMAIN m.mem /\ ~(m.sp + i.a \in {Fp - o : o \in Cached(m)})
      BY <1>6 DEF AddressesFit, CachedApart
    <3> QED  BY <1>3, <3>1, <3>2, NotCachedWords
  <2> QED  BY <1>1, <1>2, <2>1, <2>2, GuardAgrees
<1> QED  BY <1>4, <1>5, <1>6

\* REFCPY
LEMMA RefcpyAgrees ==
  ASSUME NEW i, NEW m, IsMachineState(m), AddressesFit(i, m), CachedApart(i, m),
         i.op = "REFCPY"
  PROVE  Agrees(EmitReferences(i, m), Interpret(i, Interpreted(m)))
<1>1. PICK t : t = Interpreted(m)
  OBVIOUS
<1>2. Mirror(m, t)
  BY <1>1, MirrorStart
<1>3. PICK d, s : d = m.mem[m.sp] /\ s = m.mem[m.sp + 1]
  BY Zenon
<1>4. t.mem = View(m) /\ t.sp = m.sp /\ DOMAIN t = Fields /\ DOMAIN m = Fields
  BY <1>1, InterpretedFields, StateIsMachine, Zenon
<1>5. t.mem[m.sp] = d /\ t.mem[m.sp + 1] = s
  BY <1>3, <1>4, StackOfCached
<1>6. PICK n, u : n = Popped(m) /\ u = Popped(t)
  OBVIOUS
<1>7. n.mem = m.mem /\ u.mem = t.mem /\ n.sp = m.sp + 1 /\ u.sp = m.sp + 1
  BY <1>4, <1>6 DEF Popped, Fields
<1>8. Mirror(n, u)
  BY <1>2, <1>4, <1>6, MirrorSp, Zenon DEF Popped
<1>9. Interpret(i, t) = Replaced(u, d, s)
  <2>1. Interpret(i, t) = Replaced(u, t.mem[t.sp], u.mem[u.sp])
    BY <1>6, HelperOfGroup DEF ReferenceCopyOps, ReferenceCopy, Top
  <2> QED  BY <1>4, <1>5, <1>7, <2>1
<1>10. CASE ~FastCopied(i)
  <2>1. i.op \in InterpretedOps
    BY DEF InterpretedOps, ReferenceCopyOps
  <2>2. EmitReferences(i, m) = EmitHelperCall(i, m)
    BY <1>10 DEF EmitReferences, CopyReference
  <2> QED  BY <1>1, <1>2, <2>1, <2>2, HelperMirrors, MirrorAgrees
<1>11. CASE FastCopied(i)
  <2>1. PICK f : f = FlushCachedLocals(n)
    OBVIOUS
  <2>2. EmitReferences(i, m) = ReloadCachedLocals(Replaced(f, d, s))
    BY <1>3, <1>6, <1>7, <1>11, <2>1
       DEF EmitReferences, CopyReference, Invoke, FastRefCopyScriptObject, Top
  <2>3. PICK p, q : p = Replaced(f, d, s) /\ q = Replaced(u, d, s)
    OBVIOUS
  <2>4. Twins(p, q, n.reg, DOMAIN n.mem)
    BY <1>8, <2>1, <2>3, MirrorFlush, TwinsReplaced
  <2>5. Mirror(ReloadCachedLocals(p), q)
    BY <1>8, <2>4, MirrorReload, Zenon DEF Mirror
  <2> QED  BY <1>1, <1>9, <2>2, <2>3, <2>5, MirrorAgrees
<1> QED  BY <1>10, <1>11

\* Cast
LEMMA CastAgrees ==
  ASSUME NEW i, NEW m, IsMachineState(m), AddressesFit(i, m), CachedApart(i, m),
         i.op = "Cast"
  PROVE  Agrees(EmitReferences(i, m), Interpret(i, Interpreted(m)))
<1>1. PICK t : t = Interpreted(m)
  OBVIOUS
<1>2. Mirror(m, t)
  BY <1>1, MirrorStart
<1>3. PICK x : x = IF m.mem[m.sp] = 0 THEN 0 ELSE m.mem[m.mem[m.sp]]
  OBVIOUS
<1>4. t.mem = View(m) /\ t.sp = m.sp
  BY <1>1, InterpretedFields
<1>5. t.mem[m.sp] = m.mem[m.sp]
  BY <1>4, StackOfCached
<1>6. m.mem[m.sp] # 0 => t.mem[m.mem[m.sp]] = m.mem[m.mem[m.sp]]
  <2>1. m.mem[m.sp] # 0 => m.mem[m.sp] \in DOMAIN m.mem
    BY DEF AddressesFit, Top
  <2> QED  BY <1>4, <2>1, StackOfCached
<1>7. PICK casts : casts = (i.kind = "derives")
  OBVIOUS
<1>8. PICK q : q = IF x # 0 /\ casts THEN AddRef([t EXCEPT !.object = x], x) ELSE t
  OBVIOUS
<1>9. Interpret(i, t) = Popped(q)
  <2>1. Interpret(i, t) = Cast(i, t)
    BY HelperOfGroup DEF CastOps
  <2>2. x = IF Top(t) = 0 THEN 0 ELSE t.mem[Top(t)]
    BY <1>3, <1>4, <1>5, <1>6 DEF Top
  <2> QED  BY <1>7, <1>8, <2>1, <2>2, Zenon DEF Cast
<1>10. PICK f : f = FlushCachedLocals(m)
  OBVIOUS
<1>11. PICK p : p = IF casts THEN AddRef([f EXCEPT !.object = x], x) ELSE f
  OBVIOUS
<1>12. EmitReferences(i, m) = Popped(IF x = 0 THEN m ELSE ReloadCachedLocals(p))
  <2>1. EmitReferences(i, m) = CastReference(i, m)
    BY DEF EmitReferences
  <2>2. x = IF Top(m) = 0 THEN 0 ELSE m.mem[Top(m)]
    BY <1>3 DEF Top
  <2> QED  BY <1>7, <1>10, <1>11, <2>1, <2>2, Zenon DEF CastReference, Invoke, TryScriptObjectCast
<1>13. PICK n : n = IF x = 0 THEN m ELSE ReloadCachedLocals(p)
  OBVIOUS
<1>14. Mirror(n, q)
  <2>1. CASE x = 0
    BY <1>2, <1>8, <1>13, <2>1
  <2>2. CASE x # 0
    <3>1. PICK R, D : R = m.reg /\ D = DOMAIN m.mem
      OBVIOUS
    <3>2. Twins(f, t, R, D)
      BY <1>2, <1>10, <3>1, MirrorFlush
    <3>3. PICK g, u : g = [f EXCEPT !.object = x] /\ u = [t EXCEPT !.object = x]
      BY Zenon
    <3>4. Twins(g, u, R, D)
      BY <3>2, <3>3, TwinsObject, Zenon
    <3>5. Twins(AddRef(g, x), AddRef(u, x), R, D)
      BY <3>4, TwinsAddRef
    <3>6. Twins(p, q, R, D)
      BY <1>8, <1>11, <2>2, <3>2, <3>3, <3>5
    <3> QED  BY <1>2, <1>13, <2>2, <3>1, <3>6, MirrorReload, Zenon DEF Mirror
  <2> QED  BY <2>1, <2>2
<1>15. Mirror(Popped(n), Popped(q))
  <2>1. n.sp = q.sp
    BY <1>14 DEF Mirror, SameRegisters
  <2> QED  BY <1>14, <2>1, MirrorSp DEF Popped
<1> QED  BY <1>1, <1>9, <1>12, <1>13, <1>15, MirrorAgrees

\* COPY
LEMMA CopyAgrees ==
  ASSUME NEW i, NEW m, IsMachineState(m), AddressesFit(i, m), CachedApart(i, m),
         i.op = "COPY"
  PROVE  Agrees(EmitReferences(i, m), Interpret(i, Interpreted(m)))
<1>1. PICK t : t = Interpreted(m)
  OBVIOUS
<1>2. Mirror(m, t)
  BY <1>1, MirrorStart
<1>3. PICK d, s : d = m.mem[m.sp] /\ s = m.mem[m.sp + 1]
  BY Zenon
<1>4. t.mem = View(m) /\ t.sp = m.sp /\ DOMAIN t = Fields /\ DOMAIN m = Fields
  BY <1>1, InterpretedFields, StateIsMachine, Zenon
<1>5. t.mem[m.sp] = d /\ t.mem[m.sp + 1] = s
  BY <1>3, <1>4, StackOfCached
<1>6. PICK n, u : n = Popped(m) /\ u = Popped(t)
  OBVIOUS
<1>7. n.mem = m.mem /\ u.mem = t.mem /\ n.sp = m.sp + 1 /\ u.sp = m.sp + 1
      /\ n.reg = m.reg
  BY <1>4, <1>6 DEF Popped, Fields
<1>8. Mirror(n, u)
  BY <1>2, <1>4, <1>6, MirrorSp DEF Popped
<1>9. Top(m) = d /\ Top(t) = d /\ Top(n) = s /\ Top(u) = s
  BY <1>3, <1>4, <1>5, <1>7 DEF Top
<1>10. CASE d = 0 \/ s = 0
  <2>1. EmitReferences(i, m) = EmitInternalException(n, "TXT_NULL_POINTER_ACCESS")
    BY <1>6, <1>9, <1>10 DEF EmitReferences, CopyBytes
  <2>2. Interpret(i, t) = SetInternalException(u, "TXT_NULL_POINTER_ACCESS")
    BY <1>6, <1>9, <1>10, HelperOfGroup DEF CopyOps, Copy
  <2> QED  BY <1>1, <1>8, <2>1, <2>2, RaiseAgrees
<1>11. CASE ~(d = 0 \/ s = 0)
  <2>1. PICK f : f = FlushCachedLocals(n)
    OBVIOUS
  <2>2. PICK D, R : D = DOMAIN n.mem /\ R = n.reg
    OBVIOUS
  <2>3. Twins(f, u, R, D) /\ f.mem = u.mem /\ DOMAIN f.mem = D
    BY <1>8, <2>1, <2>2, MirrorFlush, Zenon DEF Twins
  <2>4. PICK g : g = [x \in D |-> IF x \in d..d + i.a - 1 THEN f.mem[s + x - d]
                                  ELSE f.mem[x]]
    BY Zenon
  <2>5. g = [x \in D |-> g[x]]
    BY <2>4
  <2>6. PICK p, q : p = [f EXCEPT !.mem = g] /\ q = [u EXCEPT !.mem = g]
    BY Zenon
  <2>7. Twins(p, q, R, D)
    BY <2>3, <2>5, <2>6, TwinsMem
  <2>8. PICK r : r = ReloadCachedLocals(p)
    OBVIOUS
  <2>9. Mirror(r, q) /\ DOMAIN r.mem = D
    BY <1>8, <2>2, <2>7, <2>8, MirrorReload, Zenon DEF Mirror
  <2>10. DOMAIN r.reg = DOMAIN m.reg /\ r.sp = m.sp + 1 /\ q.sp = m.sp + 1 /\ DOMAIN r = Fields
         /\ DOMAIN q = Fields
    <3>1. DOMAIN p = Fields /\ p.reg = R
      BY <2>7 DEF Twins
    <3>2. DOMAIN r.reg = DOMAIN m.reg
      BY <1>7, <2>2, <2>8, <3>1 DEF ReloadCachedLocals, Cached, Fields
    <3>3. q.sp = m.sp + 1
      BY <1>7, <2>3, <2>6 DEF Twins, Fields
    <3> QED  BY <2>9, <3>2, <3>3 DEF Mirror, SameRegisters
  <2>11. PICK o : o = Fp - (m.sp + 1)
    OBVIOUS
  <2>12. o \in Int /\ Fp - o = m.sp + 1 /\ Fp - o \in D /\ o \notin DOMAIN r.reg
         /\ d \in Word
    <3>1. m.sp \in Int /\ Fp \in Int
      BY LocalCacheAssumption DEF IsMachineState
    <3>2. o \in Int /\ Fp - o = m.sp + 1
      BY <2>11, <3>1
    <3> QED  BY <1>3, <1>7, <2>2, <2>10, <2>11, <3>2, StackOfCached
  <2>13. EmitReferences(i, m) = StoreVar(r, o, d)
    <3>1. EmitReferences(i, m) = SetTop(r, d)
      <4>1. DOMAIN f = Fields
        BY <2>3 DEF Twins
      <4>2. EmitReferences(i, m) = CopyBytes(i, m)
        BY DEF EmitReferences
      <4>3. p = [f EXCEPT !.mem = [x \in DOMAIN @ |->
                     IF x \in d..d + i.a - 1 THEN @[s + x - d] ELSE @[x]]]
        BY <2>3, <2>4, <2>6
      <4> QED  BY <1>6, <1>9, <1>11, <2>1, <2>8, <4>2, <4>3 DEF CopyBytes, Invoke
    <3>2. SetTop(r, d) = [r EXCEPT !.mem[Fp - o] = d]
      BY <2>10, <2>12 DEF SetTop
    <3>3. StoreVar(r, o, d) = [r EXCEPT !.mem[Fp - o] = d]
      BY <2>12 DEF StoreVar, Cached
    <3> QED  BY <3>1, <3>2, <3>3
  <2>14. Interpret(i, t) = SetVar(q, o, d)
    <3>1. Interpret(i, t) = Copy(i, t)
      BY HelperOfGroup DEF CopyOps
    <3>2. PICK h : h = [x \in DOMAIN u.mem |->
                         IF x = u.sp THEN d
                         ELSE IF x \in d..d + i.a - 1 THEN u.mem[s + x - d]
                         ELSE u.mem[x]]
      BY Zenon
    <3>3. Copy(i, t) = [u EXCEPT !.mem = h]
      BY <1>6, <1>9, <1>11, <3>2 DEF Copy
    <3>4. h = [g EXCEPT ![m.sp + 1] = d]
      BY <1>7, <2>3, <2>4, <3>2
    <3>5. d = Low(d, WordBits)
      BY <2>12, LowOfWord
    <3>6. SetVar(q, o, d) = [q EXCEPT !.mem = [g EXCEPT ![m.sp + 1] = d]]
      <4>1. SetVar(q, o, d) = [q EXCEPT !.mem[m.sp + 1] = d]
        BY <2>12, <3>5 DEF SetVar
      <4>2. q.mem = g
        BY <2>3, <2>6 DEF Twins, Fields
      <4> QED  BY <4>1, <4>2
    <3>7. [q EXCEPT !.mem = h] = [u EXCEPT !.mem = h]
      BY <2>6, Zenon
    <3> QED  BY <3>1, <3>3, <3>4, <3>6, <3>7
  <2>15. d = Low(d, WordBits)
    BY <2>12, LowOfWord
  <2>16. Agrees(StoreVar(r, o, d), SetVar(q, o, d))
    BY <2>9, <2>12, <2>15, StoredAgrees
  <2> QED  BY <1>1, <2>13, <2>14, <2>16
<1> QED  BY <1>10, <1>11

\* The instructions that need no function with cached locals.
LEMMA PlainReferencesAgree ==
  ASSUME NEW i, NEW m, IsMachineState(m), OperandsFit(i, m), CachedApart(i, m),
         i.op \in {"PshVPtr", "RefCpyV"} \union ArgumentOps \union ListOps
  PROVE  Agrees(EmitReferences(i, m), Interpret(i, Interpreted(m)))
<1>1. Cached(m) = {} /\ Interpreted(m) = m /\ Mirror(m, m)
  <2>1. ~IsCacheableLocalOp(i.op)
    BY DEF ArgumentOps, ListOps, IsCacheableLocalOp, IsConditionalBranch
  <2> QED  BY <2>1, NothingCached
<1>2. \A o : LoadVar(m, o) = Var(m, o)
  BY <1>1, PlainLoads
<1>3. CASE i.op = "PshVPtr"
  <2>1. EmitReferences(i, m) = Pushed(m, <<Var(m, i.a)>>)
    BY <1>2, <1>3 DEF EmitReferences, PushPointer
  <2>2. Interpret(i, m) = Pushed(m, <<Var(m, i.a)>>)
    BY <1>3, HelperOfGroup, Zenon DEF PushMoreOps, PushMore
  <2>3. i.op \in InterpretedOps
    BY <1>3 DEF InterpretedOps, PushMoreOps
  <2> QED  BY <1>1, <2>1, <2>2, <2>3, AsInterpreted
<1>4. CASE i.op = "RefCpyV"
  <2>1. i.op \in InterpretedOps
    BY <1>4 DEF InterpretedOps, ReferenceCopyVariableOps
  <2>2. CASE ~FastCopied(i)
    <3>1. EmitReferences(i, m) = EmitHelperCall(i, m)
      BY <1>4, <2>2 DEF EmitReferences, CopyReference
    <3> QED  BY <1>1, <2>1, <3>1, HelperMirrors, MirrorAgrees
  <2>3. CASE FastCopied(i)
    <3>1. PICK f : f = FlushCachedLocals(m)
      OBVIOUS
    <3>2. PICK p, q : p = Replaced(f, Fp - i.a, Top(m)) /\ q = Replaced(m, Fp - i.a, Top(m))
      OBVIOUS
    <3>3. EmitReferences(i, m) = ReloadCachedLocals(p)
      BY <1>4, <2>3, <3>1, <3>2 DEF EmitReferences, CopyReference, Invoke, FastRefCopyScriptObject
    <3>4. Interpret(i, m) = q
      BY <1>4, <3>2, HelperOfGroup DEF ReferenceCopyVariableOps, ReferenceCopyVariable
    <3>5. Twins(p, q, m.reg, DOMAIN m.mem)
      BY <1>1, <3>1, <3>2, MirrorFlush, TwinsReplaced
    <3>6. IsMachine(m)
      BY <1>1 DEF Mirror
    <3>7. Mirror(ReloadCachedLocals(p), q)
      BY <3>5, <3>6, MirrorReload
    <3> QED  BY <1>1, <3>3, <3>4, <3>7, MirrorAgrees
  <2> QED  BY <2>2, <2>3
<1>5. CASE i.op \in ArgumentOps
  <2>1. i.op \in InterpretedOps
    BY <1>5 DEF InterpretedOps
  <2>2. Interpret(i, m) = Argument(i, m)
    BY <1>5, HelperOfGroup
  <2>3. EmitReferences(i, m) = Argument(i, m)
    <3>1. CASE i.op = "GETREF"
      BY <3>1 DEF EmitReferences, ReferenceArgument, Argument
    <3>2. CASE i.op \in {"GETOBJ", "GETOBJREF"}
      <4>1. EmitReferences(i, m) = ObjectArgument(i, m)
        BY <3>2 DEF EmitReferences
      <4> QED  BY <3>2, <4>1 DEF ObjectArgument, Argument
    <3> QED  BY <1>5, <3>1, <3>2 DEF ArgumentOps
  <2> QED  BY <1>1, <2>1, <2>2, <2>3, AsInterpreted
<1>6. CASE i.op \in ListOps
  <2>1. i.op \in InterpretedOps
    BY <1>6 DEF InterpretedOps
  <2>2. Interpret(i, m) = List(i, m)
    BY <1>6, HelperOfGroup
  <2>3. EmitReferences(i, m) = List(i, m)
    BY <1>2, <1>6 DEF ListOps, EmitReferences, SetListField, PushListElement, List
  <2> QED  BY <1>1, <2>1, <2>2, <2>3, AsInterpreted
<1> QED  BY <1>3, <1>4, <1>5, <1>6

\* EmitReferences does what the helpers of the reference instructions do.
THEOREM ReferencesAgree ==
  ASSUME NEW i, NEW m, IsMachineState(m), OperandsFit(i, m), AddressesFit(i, m),
         CachedApart(i, m), i.op \in ReferenceOps
  PROVE  Agrees(EmitReferences(i, m), Interpret(i, Interpreted(m)))
<1>1. CASE i.op = "FREE"
  <2>1. EmitReferences(i, m) = FreeVariable(i, m)
    BY <1>1 DEF EmitReferences
  <2> QED  BY <1>1, <2>1, FreeAgrees
<1>2. \/ i.op = "FREE" \/ i.op \in {"STOREOBJ", "LOADOBJ"}
      \/ i.op \in {"CHKREF", "ChkRefS", "ChkNullS"}
      \/ i.op = "REFCPY" \/ i.op = "Cast" \/ i.op = "COPY"
      \/ i.op \in {"PshVPtr", "RefCpyV"} \union ArgumentOps \union ListOps
  BY DEF ReferenceOps, FreeOps, ObjectRegisterOps, ReferenceCopyOps,
     ReferenceCopyVariableOps, CastOps, CopyOps
<1> QED  BY <1>1, <1>2, ObjectRegisterAgrees, ChecksAgree, RefcpyAgrees, CastAgrees,
            CopyAgrees, PlainReferencesAgree

-----------------------------------------------------------------------------
(* EmitNumeric: which emitter and which helper an instruction gets.        *)

\* Every numeric instruction has the emitter of its group.
LEMMA EmitterOfGroup ==
  ASSUME NEW i, NEW m
  PROVE
    /\ i.op \in {"ADDi64", "SUBi64"} => EmitNumeric(i, m) = AddSub64(i, m)
    /\ i.op = "MULi64" => EmitNumeric(i, m) = Multiply64(i, m)
    /\ i.op = "NEGi64" => EmitNumeric(i, m) = Negate64(i, m)
    /\ i.op = "BNOT64" => EmitNumeric(i, m) = Not64(i, m)
    /\ i.op \in Bit64Ops => EmitNumeric(i, m) = Bits64(i, m)
    /\ i.op = "uTOi64" => EmitNumeric(i, m) = WidenUnsigned(i, m)
    /\ i.op = "iTOi64" => EmitNumeric(i, m) = WidenSigned(i, m)
    /\ i.op = "i64TOi" => EmitNumeric(i, m) = CutQuad(i, m)
    /\ i.op = "iTOd" => EmitNumeric(i, m) = IntToDouble(i, m)
    /\ i.op = "dTOi" => EmitNumeric(i, m) = DoubleToInt(i, m)
    /\ i.op \in IntegerOps => EmitNumeric(i, m) = AddSubMul(i, m)
    /\ i.op \in {"ADDf", "SUBf", "MULf"} => EmitNumeric(i, m) = FloatArithmetic(i, m)
    /\ i.op \in {"ADDd", "SUBd", "MULd"} => EmitNumeric(i, m) = DoubleArithmetic(i, m)
    /\ i.op = "DIVf" => EmitNumeric(i, m) = DivideFloat(i, m)
    /\ i.op = "DIVd" => EmitNumeric(i, m) = DivideDouble(i, m)
    /\ i.op \in FloatImmediateOps => EmitNumeric(i, m) = FloatWithImmediate(i, m)
    /\ i.op \in {"NEGf", "NEGd"} => EmitNumeric(i, m) = FlipSign(i, m)
    /\ i.op \in {"CMPf", "CMPd", "CMPIf"} => EmitNumeric(i, m) = CompareFloat(i, m)
    /\ i.op \in DivideOps => EmitNumeric(i, m) = DivideInt(i, m)
    /\ i.op \in DivideUnsignedOps => EmitNumeric(i, m) = DivideUint(i, m)
    /\ i.op \in Divide64Ops => EmitNumeric(i, m) = DivideQuad(i, m)
    /\ i.op \in BitOps \ {"BNOT"} => EmitNumeric(i, m) = BitsAndShifts(i, m)
    /\ i.op \in {"NEGi", "BNOT", "NOT"} => EmitNumeric(i, m) = UnaryInt(i, m)
    /\ i.op \in TestOps => EmitNumeric(i, m) = TestRegister(i, m)
    /\ i.op \in {"iTOf", "fTOi", "fTOu", "dTOf", "fTOd"} => EmitNumeric(i, m) = ConvertFloat(i, m)
    /\ i.op = "POWi" => EmitNumeric(i, m) = SquareOrPower(i, m)
    /\ i.op \in StepVariableOps => EmitNumeric(i, m) = StepLocal(i, m)
    /\ i.op \in IntegerImmediateOps => EmitNumeric(i, m) = IntWithImmediate(i, m)
    /\ i.op \in {"CMPi", "CMPIi", "CMPu", "CMPIu", "CmpPtr"} => EmitNumeric(i, m) = CompareInt(i, m)
    /\ i.op \in Compare64Ops => EmitNumeric(i, m) = CompareQuad(i, m)
    /\ i.op \in Shift64Ops => EmitNumeric(i, m) = ShiftQuad(i, m)
    /\ i.op \in DivideUnsigned64Ops => EmitNumeric(i, m) = DivideUnsignedQuad(i, m)
    /\ i.op = "uTOf" => EmitNumeric(i, m) = UnsignedToFloat(i, m)
    /\ i.op = "ClrHi" => EmitNumeric(i, m) = ClearRegister(i, m)
    /\ i.op = "MODf" => EmitNumeric(i, m) = RemainderFloat(i, m)
<1> USE DEF Bit64Ops, IntegerOps, FloatImmediateOps, DivideOps, DivideUnsignedOps,
            Divide64Ops, BitOps, TestOps, StepVariableOps,
            IntegerImmediateOps, Compare64Ops, Shift64Ops,
            DivideUnsigned64Ops
<1>1. i.op \in {"ADDi64", "SUBi64"} => EmitNumeric(i, m) = AddSub64(i, m)
  BY Zenon DEF EmitNumeric
<1>2. i.op = "MULi64" => EmitNumeric(i, m) = Multiply64(i, m)
  BY DEF EmitNumeric
<1>3. i.op = "NEGi64" => EmitNumeric(i, m) = Negate64(i, m)
  BY DEF EmitNumeric
<1>4. i.op = "BNOT64" => EmitNumeric(i, m) = Not64(i, m)
  BY DEF EmitNumeric
<1>5. i.op \in Bit64Ops => EmitNumeric(i, m) = Bits64(i, m)
  BY DEF EmitNumeric
<1>6. i.op = "uTOi64" => EmitNumeric(i, m) = WidenUnsigned(i, m)
  BY DEF EmitNumeric
<1>7. i.op = "iTOi64" => EmitNumeric(i, m) = WidenSigned(i, m)
  BY DEF EmitNumeric
<1>8. i.op = "i64TOi" => EmitNumeric(i, m) = CutQuad(i, m)
  BY DEF EmitNumeric
<1>9. i.op = "iTOd" => EmitNumeric(i, m) = IntToDouble(i, m)
  BY DEF EmitNumeric
<1>10. i.op = "dTOi" => EmitNumeric(i, m) = DoubleToInt(i, m)
  BY DEF EmitNumeric
<1>11. i.op \in IntegerOps => EmitNumeric(i, m) = AddSubMul(i, m)
  BY DEF EmitNumeric
<1>12. i.op \in {"ADDf", "SUBf", "MULf"} => EmitNumeric(i, m) = FloatArithmetic(i, m)
  BY DEF EmitNumeric
<1>13. i.op \in {"ADDd", "SUBd", "MULd"} => EmitNumeric(i, m) = DoubleArithmetic(i, m)
  BY DEF EmitNumeric
<1>14. i.op = "DIVf" => EmitNumeric(i, m) = DivideFloat(i, m)
  BY DEF EmitNumeric
<1>15. i.op = "DIVd" => EmitNumeric(i, m) = DivideDouble(i, m)
  BY DEF EmitNumeric
<1>16. i.op \in FloatImmediateOps => EmitNumeric(i, m) = FloatWithImmediate(i, m)
  BY DEF EmitNumeric
<1>17. i.op \in {"NEGf", "NEGd"} => EmitNumeric(i, m) = FlipSign(i, m)
  BY DEF EmitNumeric
<1>18. i.op \in {"CMPf", "CMPd", "CMPIf"} => EmitNumeric(i, m) = CompareFloat(i, m)
  BY DEF EmitNumeric
<1>19. i.op \in DivideOps => EmitNumeric(i, m) = DivideInt(i, m)
  BY DEF EmitNumeric
<1>20. i.op \in DivideUnsignedOps => EmitNumeric(i, m) = DivideUint(i, m)
  BY DEF EmitNumeric
<1>21. i.op \in Divide64Ops => EmitNumeric(i, m) = DivideQuad(i, m)
  BY DEF EmitNumeric
<1>22. i.op \in BitOps \ {"BNOT"} => EmitNumeric(i, m) = BitsAndShifts(i, m)
  BY DEF EmitNumeric
<1>23. i.op \in {"NEGi", "BNOT", "NOT"} => EmitNumeric(i, m) = UnaryInt(i, m)
  BY DEF EmitNumeric
<1>24. i.op \in TestOps => EmitNumeric(i, m) = TestRegister(i, m)
  BY DEF EmitNumeric
<1>25. i.op \in {"iTOf", "fTOi", "fTOu", "dTOf", "fTOd"} => EmitNumeric(i, m) = ConvertFloat(i, m)
  BY DEF EmitNumeric
<1>26. i.op = "POWi" => EmitNumeric(i, m) = SquareOrPower(i, m)
  BY DEF EmitNumeric
<1>27. i.op \in StepVariableOps => EmitNumeric(i, m) = StepLocal(i, m)
  BY DEF EmitNumeric
<1>28. i.op \in IntegerImmediateOps => EmitNumeric(i, m) = IntWithImmediate(i, m)
  BY DEF EmitNumeric
<1>29. i.op \in {"CMPi", "CMPIi", "CMPu", "CMPIu", "CmpPtr"} => EmitNumeric(i, m) = CompareInt(i, m)
  BY DEF EmitNumeric
<1>30. i.op \in Compare64Ops => EmitNumeric(i, m) = CompareQuad(i, m)
  BY DEF EmitNumeric
<1>31. i.op \in Shift64Ops => EmitNumeric(i, m) = ShiftQuad(i, m)
  BY DEF EmitNumeric
<1>32. i.op \in DivideUnsigned64Ops => EmitNumeric(i, m) = DivideUnsignedQuad(i, m)
  BY DEF EmitNumeric
<1>33. i.op = "uTOf" => EmitNumeric(i, m) = UnsignedToFloat(i, m)
  BY DEF EmitNumeric
<1>34. i.op = "ClrHi" => EmitNumeric(i, m) = ClearRegister(i, m)
  BY DEF EmitNumeric
<1>35. i.op = "MODf" => EmitNumeric(i, m) = RemainderFloat(i, m)
  BY DEF EmitNumeric
<1> HIDE DEF Bit64Ops, IntegerOps, FloatImmediateOps, DivideOps, DivideUnsignedOps,
            Divide64Ops, BitOps, TestOps, StepVariableOps,
            IntegerImmediateOps, Compare64Ops, Shift64Ops,
            DivideUnsigned64Ops
<1> QED  BY <1>1, <1>2, <1>3, <1>4, <1>5, <1>6, <1>7, <1>8, <1>9, <1>10, <1>11,
            <1>12, <1>13, <1>14, <1>15, <1>16, <1>17, <1>18, <1>19,
            <1>20, <1>21, <1>22, <1>23, <1>24, <1>25, <1>26, <1>27,
            <1>28, <1>29, <1>30, <1>31, <1>32, <1>33, <1>34, <1>35

-----------------------------------------------------------------------------
(* Numeric instructions that agree in every state.                         *)

\* An instruction on variables about to run on both machines.
Ready(i, m, t) ==
  /\ Mirror(m, t) /\ m.vr[1] \in Word /\ t.vr = m.vr /\ i.q[1] \in Word
  /\ \A o \in {i.a, i.b, i.c} :
       /\ o \in Int /\ Fp - o \in DOMAIN m.mem /\ Fp - o + 1 \in DOMAIN m.mem
       /\ LoadVar(m, o) = Var(t, o) /\ LoadVar(m, o) \in Word
       /\ LoadVar(m, o - 1) \in Word
       /\ LoadVar64(m, o) = <<LoadVar(m, o), LoadVar(m, o - 1)>>
       /\ Var64(t, o) = Quad(LoadVar(m, o), LoadVar(m, o - 1))

\* A numeric instruction finds its operands in words of the frame.
LEMMA NumericIsReady ==
  ASSUME NEW i, NEW m, IsMachineState(m), OperandsFit(i, m), i.op \in NumericOps
  PROVE  Ready(i, m, Interpreted(m))
<1>1. NamesVariables(i)
  BY DEF NumericOps, NegateOps, StepVariableOps, BitOps, IntegerOps, DivideOps, FloatOps,
     DoubleOps, IntegerImmediateOps, FloatImmediateOps, Integer64Ops, Divide64Ops,
     Bit64Ops, Shift64Ops, Compare64Ops, ClearHighOps, DivideUnsignedOps,
     DivideUnsigned64Ops, TestOps, CompareOps, NamesVariables, ArgumentOps, ListOps
<1>2. Interpreted(m).vr = m.vr /\ m.vr[1] \in Word
  BY InterpretedFields, StateIsMachine, Zenon
<1>3. i.q[1] \in Word
  BY DEF OperandsFit
<1> QED  BY <1>1, <1>2, <1>3, Operands DEF Ready

\* The operands as words.
LEMMA ReadyWords ==
  ASSUME NEW i, NEW m, NEW t, Ready(i, m, t)
  PROVE  \A o \in {i.a, i.b, i.c} :
           \E x \in Word, u \in Word :
             /\ LoadVar(m, o) = x /\ Var(t, o) = x /\ LoadVar(m, o - 1) = u
             /\ LoadVar64(m, o) = <<x, u>> /\ Var64(t, o) = Quad(x, u)
<1> SUFFICES ASSUME NEW o \in {i.a, i.b, i.c}
             PROVE  \E x \in Word, u \in Word :
                      /\ LoadVar(m, o) = x /\ Var(t, o) = x /\ LoadVar(m, o - 1) = u
                      /\ LoadVar64(m, o) = <<x, u>> /\ Var64(t, o) = Quad(x, u)
  OBVIOUS
<1>1. PICK x \in Word, u \in Word : x = LoadVar(m, o) /\ u = LoadVar(m, o - 1)
  BY DEF Ready
<1> QED  BY <1>1 DEF Ready

\* A result of one word.
LEMMA WordStored ==
  ASSUME NEW i, NEW m, NEW t, Ready(i, m, t), NEW x, NEW y, x = Low(y, WordBits)
  PROVE  Agrees(StoreVar(m, i.a, x), SetVar(t, i.a, y))
<1>1. Mirror(m, t) /\ i.a \in Int /\ Fp - i.a \in DOMAIN m.mem
  BY DEF Ready
<1> QED  BY <1>1, StoredAgrees

\* A result of two words.
LEMMA QuadStored ==
  ASSUME NEW i, NEW m, NEW t, Ready(i, m, t), NEW p, NEW y, p = Halves(y)
  PROVE  Agrees(StoreVar64(m, i.a, p), SetVar64(t, i.a, y))
<1>1. Mirror(m, t) /\ i.a \in Int /\ Fp - i.a \in DOMAIN m.mem /\ Fp - i.a + 1 \in DOMAIN m.mem
  BY DEF Ready
<1> QED  BY <1>1, Stored64Agrees

\* A result in the value register.
LEMMA ResultSet ==
  ASSUME NEW i, NEW m, NEW t, Ready(i, m, t), NEW x, NEW y,
         Low(x, WordBits) = Low(y, WordBits)
  PROVE  Agrees(SetResult(m, x), SetResult(t, y))
<1>1. SetResult(t, y) = SetResult(t, x)
  BY DEF SetResult
<1>2. Mirror(m, t)
  BY DEF Ready
<1> QED  BY <1>1, <1>2, MirrorResult, MirrorAgrees

\* A word cut is the word.
LEMMA WordIsCut ==
  ASSUME NEW x \in Word
  PROVE  x = Low(x, WordBits)
BY LowOfWord

-----------------------------------------------------------------------------
\* ADDi, SUBi, MULi
LEMMA AddSubMulAgrees ==
  ASSUME NEW i, NEW m, NEW t, Ready(i, m, t), i.op \in IntegerOps
  PROVE  Agrees(EmitNumeric(i, m), Interpret(i, t))
<1>1. PICK x \in Word, u \in Word : LoadVar(m, i.b) = x /\ Var(t, i.b) = x
  BY ReadyWords
<1>2. PICK y \in Word, v \in Word : LoadVar(m, i.c) = y /\ Var(t, i.c) = y
  BY ReadyWords
<1>3. PICK r : r = IntegerResult(i.op, x, y)
  OBVIOUS
<1>4. EmitNumeric(i, m) = StoreVar(m, i.a, Half(r))
  BY <1>1, <1>2, <1>3, EmitterOfGroup DEF AddSubMul
<1>5. Interpret(i, t) = SetVar(t, i.a, r)
  BY <1>1, <1>2, <1>3, HelperOfGroup DEF Integer
<1> QED  BY <1>4, <1>5, WordStored DEF Half

\* ADDIi, SUBIi, MULIi
LEMMA ImmediateAgrees ==
  ASSUME NEW i, NEW m, NEW t, Ready(i, m, t), i.op \in IntegerImmediateOps
  PROVE  Agrees(EmitNumeric(i, m), Interpret(i, t))
<1>1. PICK x \in Word, u \in Word : LoadVar(m, i.b) = x /\ Var(t, i.b) = x
  BY ReadyWords
<1>3. PICK r : r = IntegerResult(i.op, x, i.q[1])
  OBVIOUS
<1>4. EmitNumeric(i, m) = StoreVar(m, i.a, Half(r))
  BY <1>1, <1>3, EmitterOfGroup DEF IntWithImmediate
<1>5. Interpret(i, t) = SetVar(t, i.a, r)
  BY <1>1, <1>3, HelperOfGroup DEF IntegerImmediate
<1> QED  BY <1>4, <1>5, WordStored DEF Half

\* ADDIf, SUBIf, MULIf
LEMMA FloatImmediateAgrees ==
  ASSUME NEW i, NEW m, NEW t, Ready(i, m, t), i.op \in FloatImmediateOps
  PROVE  Agrees(EmitNumeric(i, m), Interpret(i, t))
<1>1. PICK x \in Word, u \in Word : LoadVar(m, i.b) = x /\ Var(t, i.b) = x
  BY ReadyWords
<1>3. PICK r : r = FloatResult(i.op, x, i.q[1], WordBits)
  OBVIOUS
<1>4. EmitNumeric(i, m) = StoreVar(m, i.a, Half(r))
  BY <1>1, <1>3, EmitterOfGroup DEF FloatWithImmediate, LoadFloatVar, StoreFloatVar
<1>5. Interpret(i, t) = SetVar(t, i.a, r)
  BY <1>1, <1>3, HelperOfGroup DEF FloatImmediate
<1> QED  BY <1>4, <1>5, WordStored DEF Half

\* The zero divisor is left to the helper.
LEMMA FloatAgrees ==
  ASSUME NEW i, NEW m, NEW t, Ready(i, m, t), i.op \in FloatOps \ {"MODf"}
  PROVE  Agrees(EmitNumeric(i, m), Interpret(i, t))
<1>1. PICK x \in Word, u \in Word : LoadVar(m, i.b) = x /\ Var(t, i.b) = x
  BY ReadyWords
<1>2. PICK y \in Word, v \in Word : LoadVar(m, i.c) = y /\ Var(t, i.c) = y
  BY ReadyWords
<1>3. PICK r : r = FloatResult(i.op, x, y, WordBits)
  OBVIOUS
<1>4. FloatArithmetic(i, m) = StoreVar(m, i.a, Half(r))
  BY <1>1, <1>2, <1>3 DEF FloatArithmetic, LoadFloatVar, StoreFloatVar
<1>5. PICK zero : zero = (i.op \in {"DIVf", "MODf"} /\ Low(y, WordBits - 1) = 0)
  OBVIOUS
<1>6. Interpret(i, t) = IF zero THEN SetInternalException(t, "TXT_DIVIDE_BY_ZERO")
                        ELSE SetVar(t, i.a, r)
  BY <1>1, <1>2, <1>3, <1>5, HelperOfGroup, Zenon DEF Float, IsZero, Code
<1>7. CASE zero
  <2>1. EmitNumeric(i, m) = EmitHelperCall(i, m)
    BY <1>2, <1>5, <1>7, EmitterOfGroup, Zenon DEF DivideFloat, FloatOps
  <2>2. i.op \in InterpretedOps
    BY DEF InterpretedOps
  <2> QED  BY <2>1, <2>2, HelperMirrors, MirrorAgrees DEF Ready
<1>8. CASE ~zero
  <2>1. EmitNumeric(i, m) = FloatArithmetic(i, m)
    BY <1>2, <1>5, <1>8, EmitterOfGroup, Zenon DEF DivideFloat, FloatOps
  <2>2. Half(r) = Low(r, WordBits)
    BY DEF Half
  <2> QED  BY <1>4, <1>6, <1>8, <2>1, <2>2, WordStored
<1> QED  BY <1>7, <1>8

\* MODf
LEMMA FloatRemainderAgrees ==
  ASSUME NEW i, NEW m, NEW t, Ready(i, m, t), i.op = "MODf"
  PROVE  Agrees(EmitNumeric(i, m), Interpret(i, t))
<1>1. PICK x \in Word, u \in Word : LoadVar(m, i.b) = x /\ Var(t, i.b) = x
  BY ReadyWords
<1>2. PICK y \in Word, v \in Word : LoadVar(m, i.c) = y /\ Var(t, i.c) = y
  BY ReadyWords
<1>3. PICK r : r = FloatResult(i.op, x, y, WordBits)
  OBVIOUS
<1>4. Interpret(i, t) = IF Low(y, WordBits - 1) = 0
                        THEN SetInternalException(t, "TXT_DIVIDE_BY_ZERO")
                        ELSE SetVar(t, i.a, r)
  BY <1>1, <1>2, <1>3, HelperOfGroup DEF Float, IsZero, Code, FloatOps
<1>5. CASE Low(y, WordBits - 1) = 0
  <2>1. EmitNumeric(i, m) = EmitHelperCall(i, m)
    BY <1>2, <1>5, EmitterOfGroup DEF RemainderFloat
  <2>2. i.op \in InterpretedOps
    BY DEF InterpretedOps, FloatOps
  <2> QED  BY <2>1, <2>2, HelperMirrors, MirrorAgrees DEF Ready
<1>6. CASE Low(y, WordBits - 1) # 0
  <2>1. PICK n : n = ReloadCachedLocals(FlushCachedLocals(m))
    OBVIOUS
  <2>2. Mirror(n, t) /\ DOMAIN n.mem = DOMAIN m.mem
    BY <2>1, MirrorFlush, MirrorReload, Zenon DEF Ready, Mirror
  <2>3. EmitNumeric(i, m) = StoreVar(n, i.a, Half(r))
    BY <1>1, <1>2, <1>3, <1>6, <2>1, EmitterOfGroup DEF RemainderFloat, StoreFloatVar
  <2>4. Half(r) = Low(r, WordBits)
    BY DEF Half
  <2>5. i.a \in Int /\ Fp - i.a \in DOMAIN m.mem
    BY DEF Ready
  <2> QED  BY <1>4, <1>6, <2>2, <2>3, <2>4, <2>5, StoredAgrees
<1> QED  BY <1>5, <1>6

\* BAND, BOR, BXOR and the shifts of words.
LEMMA BitsAgree ==
  ASSUME NEW i, NEW m, NEW t, Ready(i, m, t), i.op \in BitOps \ {"BNOT"}
  PROVE  Agrees(EmitNumeric(i, m), Interpret(i, t))
<1>1. PICK x \in Word, u \in Word : LoadVar(m, i.b) = x /\ Var(t, i.b) = x
  BY ReadyWords
<1>2. PICK y \in Word, v \in Word : LoadVar(m, i.c) = y /\ Var(t, i.c) = y
  BY ReadyWords
<1>3. PICK r \in Word : r = BitResult(i.op, x, y)
  BY BitResultIsWord
<1>4. EmitNumeric(i, m) = StoreVar(m, i.a, r)
  BY <1>1, <1>2, <1>3, EmitterOfGroup DEF BitsAndShifts
<1>5. Interpret(i, t) = SetVar(t, i.a, r)
  BY <1>1, <1>2, <1>3, HelperOfGroup DEF Bit
<1>6. r = Low(r, WordBits)
  BY WordIsCut
<1> QED  BY <1>4, <1>5, <1>6, WordStored

\* NEGi, BNOT, NOT
LEMMA UnaryAgrees ==
  ASSUME NEW i, NEW m, NEW t, Ready(i, m, t), i.op \in {"NEGi", "BNOT", "NOT"}
  PROVE  Agrees(EmitNumeric(i, m), Interpret(i, t))
<1>1. PICK x \in Word, u \in Word : LoadVar(m, i.a) = x /\ Var(t, i.a) = x
  BY ReadyWords
<1>2. CASE i.op = "NEGi"
  <2>1. EmitNumeric(i, m) = StoreVar(m, i.a, Half(-x))
    BY <1>1, <1>2, EmitterOfGroup DEF UnaryInt
  <2>2. Interpret(i, t) = SetVar(t, i.a, -x)
    BY <1>1, <1>2, HelperOfGroup DEF Negate, NegateOps
  <2>3. Half(-x) = Low(-x, WordBits)
    BY DEF Half
  <2> QED  BY <2>1, <2>2, <2>3, WordStored
<1>3. CASE i.op = "BNOT"
  <2>1. EmitNumeric(i, m) = StoreVar(m, i.a, Complement(x, WordBits))
    BY <1>1, <1>3, EmitterOfGroup DEF UnaryInt
  <2>2. Interpret(i, t) = SetVar(t, i.a, Complement(x, WordBits))
    BY <1>1, <1>3, HelperOfGroup DEF Bit, BitOps
  <2>3. Complement(x, WordBits) = Low(Complement(x, WordBits), WordBits)
    <3>1. Complement(x, WordBits) \in Word
      BY ComplementHalves
    <3> QED  BY <3>1, LowOfWord
  <2> QED  BY <2>1, <2>2, <2>3, WordStored
<1>4. CASE i.op = "NOT"
  <2>1. PICK r \in Word : r = Truth(Low(x, ByteBits) = 0)
    BY TruthIsWord
  <2>2. EmitNumeric(i, m) = StoreVar(m, i.a, r)
    BY <1>1, <1>4, <2>1, EmitterOfGroup DEF UnaryInt
  <2>3. Interpret(i, t) = SetVar(t, i.a, r)
    BY <1>1, <1>4, <2>1, HelperOfGroup DEF Negate, NegateOps
  <2>4. r = Low(r, WordBits)
    BY WordIsCut
  <2> QED  BY <2>2, <2>3, <2>4, WordStored
<1> QED  BY <1>2, <1>3, <1>4

\* IncVi, DecVi
LEMMA StepLocalAgrees ==
  ASSUME NEW i, NEW m, NEW t, Ready(i, m, t), i.op \in StepVariableOps
  PROVE  Agrees(EmitNumeric(i, m), Interpret(i, t))
<1>1. PICK x \in Word, u \in Word : LoadVar(m, i.a) = x /\ Var(t, i.a) = x
  BY ReadyWords
<1>2. PICK r : r = x + (IF i.op = "IncVi" THEN 1 ELSE -1)
  OBVIOUS
<1>3. EmitNumeric(i, m) = StoreVar(m, i.a, Half(r))
  BY <1>1, <1>2, EmitterOfGroup DEF StepLocal
<1>4. Interpret(i, t) = SetVar(t, i.a, r)
  BY <1>1, <1>2, HelperOfGroup DEF StepVariable
<1>5. Half(r) = Low(r, WordBits)
  BY DEF Half
<1> QED  BY <1>3, <1>4, <1>5, WordStored

\* NEGf
LEMMA NegateFloatAgrees ==
  ASSUME NEW i, NEW m, NEW t, Ready(i, m, t), i.op = "NEGf"
  PROVE  Agrees(EmitNumeric(i, m), Interpret(i, t))
<1>1. PICK x \in Word, u \in Word : LoadVar(m, i.a) = x /\ Var(t, i.a) = x
  BY ReadyWords
<1>2. PICK r \in Word : r = Half(x + MinSigned(WordBits))
  <2>1. PICK top \in Nat : top = MinSigned(WordBits)
    BY BaseFacts
  <2>2. x \in Int
    BY WordIsNat
  <2>3. x + top \in Int
    BY <2>1, <2>2
  <2> QED  BY <2>1, <2>3, HalfIsWord
<1>3. EmitNumeric(i, m) = StoreVar(m, i.a, r)
  BY <1>1, <1>2, EmitterOfGroup DEF FlipSign
<1>4. Interpret(i, t) = SetVar(t, i.a, r)
  <2>1. r = Negated(x, WordBits)
    BY <1>2 DEF Negated, Half, MinSigned
  <2> QED  BY <1>1, <2>1, HelperOfGroup DEF Negate, NegateOps
<1>5. r = Low(r, WordBits)
  BY WordIsCut
<1> QED  BY <1>3, <1>4, <1>5, WordStored

\* Only the high half is written.
LEMMA NegateDoubleAgrees ==
  ASSUME NEW i, NEW m, NEW t, Ready(i, m, t), i.op = "NEGd"
  PROVE  Agrees(EmitNumeric(i, m), Interpret(i, t))
<1>1. PICK x \in Word, u \in Word :
        /\ LoadVar(m, i.a) = x /\ Var(t, i.a) = x /\ LoadVar(m, i.a - 1) = u
        /\ Var64(t, i.a) = Quad(x, u)
  BY ReadyWords
<1>2. PICK h \in Word : h = Half(u + MinSigned(WordBits))
  <2>1. PICK top \in Nat : top = MinSigned(WordBits)
    BY BaseFacts
  <2>2. u \in Int
    BY WordIsNat
  <2>3. u + top \in Int
    BY <2>1, <2>2
  <2> QED  BY <2>1, <2>3, HalfIsWord
<1>3. EmitNumeric(i, m) = StoreVar(m, i.a - 1, h)
  BY <1>1, <1>2, EmitterOfGroup DEF FlipSign
<1>4. PICK n, s : n = StoreVar(m, i.a - 1, h) /\ s = SetVar(t, i.a - 1, h)
  OBVIOUS
<1>5. /\ i.a \in Int /\ Fp - i.a \in DOMAIN m.mem /\ Fp - (i.a - 1) = Fp - i.a + 1
      /\ Fp - i.a + 1 \in DOMAIN m.mem /\ i.a - 1 \in Int /\ Mirror(m, t)
      /\ Fp - i.a \in Int
  BY LocalCacheAssumption DEF Ready
<1>6. h = Low(h, WordBits)
  BY WordIsCut
<1>7. Agrees(n, s)
  BY <1>4, <1>5, <1>6, StoredAgrees
<1>8. Interpret(i, t) = s
  <2>1. PICK y : y = Negated(Quad(x, u), QuadBits)
    OBVIOUS
  <2>2. Interpret(i, t) = SetVar64(t, i.a, y)
    BY <1>1, <2>1, HelperOfGroup DEF Negate, NegateOps
  <2>3. Halves(y) = <<x, h>>
    BY <1>2, <2>1, NegatedHalves
  <2>4. LowHalf(Low(y, QuadBits)) = x /\ HighHalf(Low(y, QuadBits)) = h
    BY <2>3 DEF Halves
  <2>5. SetVar64(t, i.a, y) = [t EXCEPT !.mem[Fp - i.a] = x, !.mem[Fp - i.a + 1] = h]
    BY <2>4 DEF SetVar64
  <2>6. t.mem[Fp - i.a] = x
    BY <1>1 DEF Var
  <2>7. t.mem = [at \in DOMAIN m.mem |-> t.mem[at]] /\ DOMAIN t = Fields
    BY <1>5, ViewOfMachine DEF Mirror
  <2>8. [t.mem EXCEPT ![Fp - i.a] = x] = t.mem
    BY <2>6, <2>7
  <2>9. [t EXCEPT !.mem[Fp - i.a] = x, !.mem[Fp - i.a + 1] = h]
          = [t EXCEPT !.mem = [[t.mem EXCEPT ![Fp - i.a] = x] EXCEPT ![Fp - i.a + 1] = h]]
    BY <2>7, Zenon DEF Fields
  <2>10. s = [t EXCEPT !.mem = [t.mem EXCEPT ![Fp - i.a + 1] = h]]
    BY <1>4, <1>5, <1>6 DEF SetVar
  <2> QED  BY <2>2, <2>5, <2>8, <2>9, <2>10
<1> QED  BY <1>3, <1>4, <1>7, <1>8

-----------------------------------------------------------------------------
\* NEGi64, BNOT64 and the conversions between words and quads.
LEMMA Quads64Agree ==
  ASSUME NEW i, NEW m, NEW t, Ready(i, m, t),
         i.op \in {"NEGi64", "BNOT64", "uTOi64", "iTOi64", "i64TOi"}
  PROVE  Agrees(EmitNumeric(i, m), Interpret(i, t))
<1>1. PICK x \in Word, u \in Word :
        LoadVar64(m, i.a) = <<x, u>> /\ Var64(t, i.a) = Quad(x, u)
  BY ReadyWords
<1>2. PICK y \in Word, v \in Word :
        LoadVar(m, i.b) = y /\ Var(t, i.b) = y /\ Var64(t, i.b) = Quad(y, v)
  BY ReadyWords
<1>3. CASE i.op = "NEGi64"
  <2>0. PICK p : p = <<Half(-x), Half(-(u + Truth(x # 0)))>>
    BY Zenon
  <2>1. EmitNumeric(i, m) = StoreVar64(m, i.a, p)
    <3>1. EmitNumeric(i, m) = Negate64(i, m)
      BY <1>3, EmitterOfGroup
    <3> QED  BY <1>1, <1>3, <2>0, <3>1 DEF Negate64
  <2>2. Interpret(i, t) = SetVar64(t, i.a, -Quad(x, u))
    BY <1>1, <1>3, HelperOfGroup DEF Unary64, Unary64Ops
  <2>3. p = Halves(-Quad(x, u))
    BY <2>0, NegateHalves
  <2> QED  BY <2>1, <2>2, <2>3, QuadStored
<1>4. CASE i.op = "BNOT64"
  <2>0. PICK p : p = <<Complement(x, WordBits), Complement(u, WordBits)>>
    BY Zenon
  <2>1. EmitNumeric(i, m) = StoreVar64(m, i.a, p)
    <3>1. EmitNumeric(i, m) = Not64(i, m)
      BY <1>4, EmitterOfGroup
    <3> QED  BY <1>1, <1>4, <2>0, <3>1 DEF Not64
  <2>2. Interpret(i, t) = SetVar64(t, i.a, Complement(Quad(x, u), QuadBits))
    BY <1>1, <1>4, HelperOfGroup DEF Unary64, Unary64Ops
  <2>3. p = Halves(Complement(Quad(x, u), QuadBits))
    BY <2>0, ComplementHalves
  <2> QED  BY <2>1, <2>2, <2>3, QuadStored
<1>5. CASE i.op = "uTOi64"
  <2>0. PICK p : p = <<y, 0>>
    BY Zenon
  <2>1. EmitNumeric(i, m) = StoreVar64(m, i.a, p)
    <3>1. EmitNumeric(i, m) = WidenUnsigned(i, m)
      BY <1>5, EmitterOfGroup
    <3> QED  BY <1>2, <1>5, <2>0, <3>1 DEF WidenUnsigned
  <2>2. Interpret(i, t) = SetVar64(t, i.a, y)
    BY <1>2, <1>5, HelperOfGroup DEF Convert64, Convert64Ops
  <2>3. p = Halves(y)
    BY <2>0, WidenHalves
  <2> QED  BY <2>1, <2>2, <2>3, QuadStored
<1>6. CASE i.op = "iTOi64"
  <2>0. PICK p : p = <<y, ShiftArithmetic(y, WordBits - 1, WordBits)>>
    BY Zenon
  <2>1. EmitNumeric(i, m) = StoreVar64(m, i.a, p)
    <3>1. EmitNumeric(i, m) = WidenSigned(i, m)
      BY <1>6, EmitterOfGroup
    <3> QED  BY <1>2, <1>6, <2>0, <3>1 DEF WidenSigned
  <2>2. Interpret(i, t) = SetVar64(t, i.a, Signed(y, WordBits))
    BY <1>2, <1>6, HelperOfGroup DEF Convert64, Convert64Ops
  <2>3. p = Halves(Signed(y, WordBits))
    BY <2>0, WidenHalves
  <2> QED  BY <2>1, <2>2, <2>3, QuadStored
<1>7. CASE i.op = "i64TOi"
  <2>1. EmitNumeric(i, m) = StoreVar(m, i.a, y)
    BY <1>2, <1>7, EmitterOfGroup DEF CutQuad
  <2>2. Interpret(i, t) = SetVar(t, i.a, y)
    <3>1. LowHalf(Quad(y, v)) = y
      BY QuadIsQuad
    <3> QED  BY <1>2, <1>7, <3>1, HelperOfGroup DEF Convert64, Convert64Ops
  <2>3. y = Low(y, WordBits)
    BY WordIsCut
  <2> QED  BY <2>1, <2>2, <2>3, WordStored
<1> QED  BY <1>3, <1>4, <1>5, <1>6, <1>7

\* ADDi64, SUBi64, MULi64
LEMMA Integers64Agree ==
  ASSUME NEW i, NEW m, NEW t, Ready(i, m, t), i.op \in Integer64Ops
  PROVE  Agrees(EmitNumeric(i, m), Interpret(i, t))
<1>1. PICK x \in Word, u \in Word :
        LoadVar64(m, i.b) = <<x, u>> /\ Var64(t, i.b) = Quad(x, u)
  BY ReadyWords
<1>2. PICK y \in Word, v \in Word :
        LoadVar64(m, i.c) = <<y, v>> /\ Var64(t, i.c) = Quad(y, v)
  BY ReadyWords
<1>3. CASE i.op = "ADDi64"
  <2>0. PICK p : p = <<Half(x + y), Half(u + v + Truth(x + y >= Bits(WordBits)))>>
    BY Zenon
  <2>1. EmitNumeric(i, m) = StoreVar64(m, i.a, p)
    <3>1. EmitNumeric(i, m) = AddSub64(i, m)
      BY <1>3, EmitterOfGroup
    <3> QED  BY <1>1, <1>2, <1>3, <2>0, <3>1 DEF AddSub64
  <2>2. Interpret(i, t) = SetVar64(t, i.a, Quad(x, u) + Quad(y, v))
    BY <1>1, <1>2, <1>3, HelperOfGroup DEF Integer64, Integer64Ops
  <2>3. p = Halves(Quad(x, u) + Quad(y, v))
    <3>1. Halves(Quad(x, u) + Quad(y, v)) =
            <<Half(x + y), Half(u + v + Truth(x + y >= Bits(WordBits)))>>
      BY AddHalves
    <3> QED  BY <2>0, <3>1
  <2> QED  BY <2>1, <2>2, <2>3, QuadStored
<1>4. CASE i.op = "SUBi64"
  <2>0. PICK p : p = <<Half(x - y), Half(u - v - Truth(x < y))>>
    BY Zenon
  <2>1. EmitNumeric(i, m) = StoreVar64(m, i.a, p)
    <3>1. EmitNumeric(i, m) = AddSub64(i, m)
      BY <1>4, EmitterOfGroup
    <3> QED  BY <1>1, <1>2, <1>4, <2>0, <3>1 DEF AddSub64
  <2>2. Interpret(i, t) = SetVar64(t, i.a, Quad(x, u) - Quad(y, v))
    BY <1>1, <1>2, <1>4, HelperOfGroup DEF Integer64, Integer64Ops
  <2>3. p = Halves(Quad(x, u) - Quad(y, v))
    <3>1. Halves(Quad(x, u) - Quad(y, v)) =
            <<Half(x - y), Half(u - v - Truth(x < y))>>
      BY AddHalves
    <3> QED  BY <2>0, <3>1
  <2> QED  BY <2>1, <2>2, <2>3, QuadStored
<1>5. CASE i.op = "MULi64"
  <2>0. PICK p : p = <<LowHalf(x * y), Half(HighHalf(x * y) + Half(u * y) + Half(v * x))>>
    BY Zenon
  <2>1. EmitNumeric(i, m) = StoreVar64(m, i.a, p)
    <3>1. EmitNumeric(i, m) = Multiply64(i, m)
      BY <1>5, EmitterOfGroup
    <3> QED  BY <1>1, <1>2, <1>5, <2>0, <3>1 DEF Multiply64
  <2>2. Interpret(i, t) = SetVar64(t, i.a, Product(Quad(x, u), Quad(y, v), QuadBits))
    BY <1>1, <1>2, <1>5, HelperOfGroup DEF Integer64, Integer64Ops
  <2>3. p = Halves(Product(Quad(x, u), Quad(y, v), QuadBits))
    BY <2>0, MultiplyHalves
  <2> QED  BY <2>1, <2>2, <2>3, QuadStored
<1> QED  BY <1>3, <1>4, <1>5 DEF Integer64Ops

\* BAND64, BOR64, BXOR64
LEMMA Bits64Agree ==
  ASSUME NEW i, NEW m, NEW t, Ready(i, m, t), i.op \in Bit64Ops
  PROVE  Agrees(EmitNumeric(i, m), Interpret(i, t))
<1>1. PICK x \in Word, u \in Word :
        LoadVar64(m, i.b) = <<x, u>> /\ Var64(t, i.b) = Quad(x, u)
  BY ReadyWords
<1>2. PICK y \in Word, v \in Word :
        LoadVar64(m, i.c) = <<y, v>> /\ Var64(t, i.c) = Quad(y, v)
  BY ReadyWords
<1>3. PICK k \in {"BAND", "BOR", "BXOR"} :
        k = CASE i.op = "BAND64" -> "BAND" [] i.op = "BOR64" -> "BOR" [] i.op = "BXOR64" -> "BXOR"
  BY DEF Bit64Ops
<1>4. PICK r \in Word, s \in Word : r = BitResult(k, x, y) /\ s = BitResult(k, u, v)
  BY <1>3, BitResultIsWord, Zenon DEF BitOps
<1>5. EmitNumeric(i, m) = StoreVar64(m, i.a, <<r, s>>)
  <2>1. EmitNumeric(i, m) = Bits64(i, m)
    BY EmitterOfGroup
  <2>2. LoadVar64(m, i.b)[1] = x /\ LoadVar64(m, i.b)[2] = u
        /\ LoadVar64(m, i.c)[1] = y /\ LoadVar64(m, i.c)[2] = v
    BY <1>1, <1>2
  <2>3. Bits64(i, m) = StoreVar64(m, i.a, <<BitResult(k, x, y), BitResult(k, u, v)>>)
    <3>1. CASE i.op = "BAND64"
      BY <1>3, <2>2, <3>1 DEF Bits64
    <3>2. CASE i.op = "BOR64"
      BY <1>3, <2>2, <3>2 DEF Bits64
    <3>3. CASE i.op = "BXOR64"
      BY <1>3, <2>2, <3>3 DEF Bits64
    <3> QED  BY <3>1, <3>2, <3>3 DEF Bit64Ops
  <2> QED  BY <1>4, <2>1, <2>3
<1>6. PICK z : z = CASE i.op = "BAND64" -> And(Quad(x, u), Quad(y, v), QuadBits)
                     [] i.op = "BOR64" -> Or(Quad(x, u), Quad(y, v), QuadBits)
                     [] i.op = "BXOR64" -> Xor(Quad(x, u), Quad(y, v), QuadBits)
  OBVIOUS
<1>7. Interpret(i, t) = SetVar64(t, i.a, z)
  BY <1>1, <1>2, <1>6, HelperOfGroup, Zenon DEF Bit64
<1>8. z = Quad(r, s)
  <2>1. CASE i.op = "BAND64"
    <3>1. z = And(Quad(x, u), Quad(y, v), QuadBits) /\ k = "BAND"
      BY <1>3, <1>6, <2>1
    <3>2. r = And(x, y, WordBits) /\ s = And(u, v, WordBits)
      BY <1>4, <3>1 DEF BitResult
    <3> QED  BY <3>1, <3>2, LogicOfHalves
  <2>2. CASE i.op = "BOR64"
    <3>1. z = Or(Quad(x, u), Quad(y, v), QuadBits) /\ k = "BOR"
      BY <1>3, <1>6, <2>2
    <3>2. r = Or(x, y, WordBits) /\ s = Or(u, v, WordBits)
      BY <1>4, <3>1 DEF BitResult
    <3> QED  BY <3>1, <3>2, LogicOfHalves
  <2>3. CASE i.op = "BXOR64"
    <3>1. z = Xor(Quad(x, u), Quad(y, v), QuadBits) /\ k = "BXOR"
      BY <1>3, <1>6, <2>3
    <3>2. r = Xor(x, y, WordBits) /\ s = Xor(u, v, WordBits)
      BY <1>4, <3>1 DEF BitResult
    <3> QED  BY <3>1, <3>2, LogicOfHalves
  <2> QED  BY <2>1, <2>2, <2>3 DEF Bit64Ops
<1>9. <<r, s>> = Halves(z)
  BY <1>8, QuadIsQuad
<1> QED  BY <1>5, <1>7, <1>9, QuadStored

\* With both halves in one place the low one speaks for both.
LEMMA WholeDouble ==
  ASSUME NEW i, NEW m, NEW t, Ready(i, m, t), NEW o \in {i.a, i.b, i.c},
         ~(m.sse /\ IsSplit(m, o))
  PROVE  LoadDouble(m, o) = Var64(t, o)
<1>1. PICK x \in Word, u \in Word :
        /\ LoadVar(m, o) = x /\ LoadVar(m, o - 1) = u
        /\ LoadVar64(m, o) = <<x, u>> /\ Var64(t, o) = Quad(x, u)
  BY ReadyWords
<1>2. LoadDoubleVar(m, o, m.sse) = <<x, u>>
  <2>1. CASE ThroughMemory(m, o, m.sse)
    <3>1. ~(o \in Cached(m)) /\ ~(o - 1 \in Cached(m))
      BY <2>1 DEF ThroughMemory, IsSplit
    <3>2. o \in Int /\ Fp \in Int
      BY LocalCacheAssumption DEF Ready
    <3>3. Fp - (o - 1) = Fp - o + 1
      BY <3>2
    <3>4. x = m.mem[Fp - o] /\ u = m.mem[Fp - o + 1]
      BY <1>1, <3>1, <3>3 DEF LoadVar
    <3> QED  BY <2>1, <3>4 DEF LoadDoubleVar
  <2>2. CASE ~ThroughMemory(m, o, m.sse)
    BY <1>1, <2>2 DEF LoadDoubleVar
  <2> QED  BY <2>1, <2>2
<1> QED  BY <1>1, <1>2 DEF LoadDouble

\* A double stored where both halves live in one place.
LEMMA DoubleStored ==
  ASSUME NEW i, NEW m, NEW t, Ready(i, m, t), ~(m.sse /\ IsSplit(m, i.a)), NEW y
  PROVE  Agrees(StoreDouble(m, i.a, y), SetVar64(t, i.a, y))
<1>1. PICK p : p = Halves(y)
  OBVIOUS
<1>2. StoreDouble(m, i.a, y) = StoreVar64(m, i.a, p)
  <2>1. CASE ThroughMemory(m, i.a, m.sse)
    <3>1. ~(i.a \in Cached(m)) /\ ~(i.a - 1 \in Cached(m))
      BY <2>1 DEF ThroughMemory, IsSplit
    <3>2. i.a \in Int /\ Fp \in Int /\ Mirror(m, t)
      BY LocalCacheAssumption DEF Ready
    <3>3. Fp - (i.a - 1) = Fp - i.a + 1 /\ DOMAIN m = Fields
      BY <3>2 DEF Mirror
    <3>4. PICK n : n = [m EXCEPT !.mem[Fp - i.a] = p[1]]
      BY Zenon
    <3>5. n.reg = m.reg
      BY <3>3, <3>4 DEF Fields
    <3>6. StoreVar(m, i.a, p[1]) = n
      BY <3>1, <3>4 DEF StoreVar
    <3>7. StoreVar(n, i.a - 1, p[2]) = [n EXCEPT !.mem[Fp - i.a + 1] = p[2]]
      BY <3>1, <3>3, <3>5 DEF StoreVar, Cached
    <3>8. StoreDoubleVar(m, i.a, p, m.sse)
            = [m EXCEPT !.mem[Fp - i.a] = p[1], !.mem[Fp - i.a + 1] = p[2]]
      BY <2>1 DEF StoreDoubleVar
    <3>9. [m EXCEPT !.mem[Fp - i.a] = p[1], !.mem[Fp - i.a + 1] = p[2]]
            = [n EXCEPT !.mem[Fp - i.a + 1] = p[2]]
      BY <3>4
    <3> QED  BY <1>1, <3>6, <3>7, <3>8, <3>9 DEF StoreDouble, StoreVar64
  <2>2. CASE ~ThroughMemory(m, i.a, m.sse)
    BY <1>1, <2>2 DEF StoreDouble, StoreDoubleVar
  <2> QED  BY <2>1, <2>2
<1> QED  BY <1>1, <1>2, QuadStored

\* iTOf, fTOi, fTOu
LEMMA WordConversionsAgree ==
  ASSUME NEW i, NEW m, NEW t, Ready(i, m, t), i.op \in {"iTOf", "fTOi", "fTOu"}
  PROVE  Agrees(EmitNumeric(i, m), Interpret(i, t))
<1>1. PICK x \in Word, u \in Word : LoadVar(m, i.a) = x /\ Var(t, i.a) = x
  BY ReadyWords
<1>2. EmitNumeric(i, m) = ConvertFloat(i, m)
  BY EmitterOfGroup
<1>3. Interpret(i, t) = Convert(i, t)
  BY HelperOfGroup DEF ConvertOps
<1>4. CASE i.op = "iTOf"
  <2>1. PICK r : r = Nearest(Signed(x, WordBits), WordBits)
    OBVIOUS
  <2>2. EmitNumeric(i, m) = StoreVar(m, i.a, Half(r))
    BY <1>1, <1>2, <1>4, <2>1 DEF ConvertFloat, StoreFloatVar
  <2>3. Interpret(i, t) = SetVar(t, i.a, r)
    BY <1>1, <1>3, <1>4, <2>1 DEF Convert
  <2>4. Half(r) = Low(r, WordBits)
    BY DEF Half
  <2> QED  BY <2>2, <2>3, <2>4, WordStored
<1>5. CASE i.op \in {"fTOi", "fTOu"}
  <2>1. PICK r \in Word : r = Truncated(x, WordBits, WordBits)
    BY TruncatedIsWord
  <2>2. EmitNumeric(i, m) = StoreVar(m, i.a, r)
    BY <1>1, <1>2, <1>5, <2>1 DEF ConvertFloat, LoadFloatVar
  <2>3. Interpret(i, t) = SetVar(t, i.a, r)
    BY <1>1, <1>3, <1>5, <2>1 DEF Convert
  <2>4. r = Low(r, WordBits)
    BY WordIsCut
  <2> QED  BY <2>2, <2>3, <2>4, WordStored
<1> QED  BY <1>4, <1>5

\* iTOd, dTOi
LEMMA IntDoubleConversionsAgree ==
  ASSUME NEW i, NEW m, NEW t, Ready(i, m, t), i.op \in {"iTOd", "dTOi"}
  PROVE  Agrees(EmitNumeric(i, m), Interpret(i, t))
<1>1. PICK x \in Word, u \in Word :
        /\ LoadVar(m, i.b) = x /\ Var(t, i.b) = x
        /\ LoadVar64(m, i.b) = <<x, u>> /\ Var64(t, i.b) = Quad(x, u)
  BY ReadyWords
<1>2. Interpret(i, t) = ConvertDouble(i, t)
  BY HelperOfGroup DEF ConvertDoubleOps
<1>3. CASE i.op = "iTOd"
  <2>1. PICK r : r = Nearest(Signed(x, WordBits), QuadBits)
    OBVIOUS
  <2>2. EmitNumeric(i, m) = StoreVar64(m, i.a, Halves(r))
    BY <1>1, <1>3, <2>1, EmitterOfGroup DEF IntToDouble
  <2>3. Interpret(i, t) = SetVar64(t, i.a, r)
    BY <1>1, <1>2, <1>3, <2>1 DEF ConvertDouble
  <2> QED  BY <2>2, <2>3, QuadStored
<1>4. CASE i.op = "dTOi"
  <2>1. PICK r \in Word : r = Truncated(Quad(x, u), QuadBits, WordBits)
    BY TruncatedIsWord
  <2>2. EmitNumeric(i, m) = StoreVar(m, i.a, r)
    BY <1>1, <1>4, <2>1, EmitterOfGroup DEF DoubleToInt, LoadQuad
  <2>3. Interpret(i, t) = SetVar(t, i.a, r)
    BY <1>1, <1>2, <1>4, <2>1 DEF ConvertDouble
  <2>4. r = Low(r, WordBits)
    BY WordIsCut
  <2> QED  BY <2>2, <2>3, <2>4, WordStored
<1> QED  BY <1>3, <1>4

\* SSE code of doubles whose halves are not split.
Whole(m, S) == \A o \in S : ~(m.sse /\ IsSplit(m, o))

\* dTOf, fTOd
LEMMA DoubleConversionsAgree ==
  ASSUME NEW i, NEW m, NEW t, Ready(i, m, t), i.op \in {"dTOf", "fTOd"},
         Whole(m, IF i.op = "dTOf" THEN {i.b} ELSE {i.a})
  PROVE  Agrees(EmitNumeric(i, m), Interpret(i, t))
<1>1. Interpret(i, t) = ConvertDouble(i, t)
  BY HelperOfGroup DEF ConvertDoubleOps
<1>2. EmitNumeric(i, m) = ConvertFloat(i, m)
  BY EmitterOfGroup
<1>3. CASE i.op = "dTOf"
  <2>1. ~(m.sse /\ IsSplit(m, i.b))
    BY <1>3 DEF Whole
  <2>2. LoadDouble(m, i.b) = Var64(t, i.b)
    BY <2>1, WholeDouble
  <2>3. PICK r : r = Converted(Var64(t, i.b), QuadBits, WordBits)
    OBVIOUS
  <2>4. EmitNumeric(i, m) = StoreVar(m, i.a, Half(r))
    BY <1>2, <1>3, <2>2, <2>3 DEF ConvertFloat, StoreFloatVar
  <2>5. Interpret(i, t) = SetVar(t, i.a, r)
    BY <1>1, <1>3, <2>3 DEF ConvertDouble
  <2>6. Half(r) = Low(r, WordBits)
    BY DEF Half
  <2> QED  BY <2>4, <2>5, <2>6, WordStored
<1>4. CASE i.op = "fTOd"
  <2>1. ~(m.sse /\ IsSplit(m, i.a))
    BY <1>4 DEF Whole
  <2>2. LoadVar(m, i.b) = Var(t, i.b)
    BY DEF Ready
  <2>3. PICK r : r = Converted(Var(t, i.b), WordBits, QuadBits)
    OBVIOUS
  <2>4. EmitNumeric(i, m) = StoreDouble(m, i.a, r)
    BY <1>2, <1>4, <2>2, <2>3 DEF ConvertFloat, LoadFloatVar
  <2>5. Interpret(i, t) = SetVar64(t, i.a, r)
    BY <1>1, <1>4, <2>3 DEF ConvertDouble
  <2> QED  BY <2>1, <2>4, <2>5, DoubleStored
<1> QED  BY <1>3, <1>4

\* ADDd, SUBd, MULd, DIVd
LEMMA DoublesAgree ==
  ASSUME NEW i, NEW m, NEW t, Ready(i, m, t), i.op \in DoubleOps \ {"MODd"},
         Whole(m, {i.a, i.b, i.c})
  PROVE  Agrees(EmitNumeric(i, m), Interpret(i, t))
<1>1. /\ ~(m.sse /\ IsSplit(m, i.a)) /\ ~(m.sse /\ IsSplit(m, i.b))
      /\ ~(m.sse /\ IsSplit(m, i.c))
  BY DEF Whole
<1>2. LoadDouble(m, i.b) = Var64(t, i.b) /\ LoadDouble(m, i.c) = Var64(t, i.c)
  BY <1>1, WholeDouble
<1>3. PICK r : r = FloatResult(i.op, Var64(t, i.b), Var64(t, i.c), QuadBits)
  OBVIOUS
<1>4. DoubleArithmetic(i, m) = StoreDouble(m, i.a, r)
  BY <1>2, <1>3 DEF DoubleArithmetic
<1>5. PICK y \in Word, v \in Word :
        LoadVar64(m, i.c) = <<y, v>> /\ Var64(t, i.c) = Quad(y, v)
  BY ReadyWords
<1>6. PICK zero : zero = (i.op \in {"DIVd", "MODd"} /\ IsZero(Var64(t, i.c), QuadBits))
  OBVIOUS
<1>7. Interpret(i, t) = IF zero THEN SetInternalException(t, "TXT_DIVIDE_BY_ZERO")
                        ELSE SetVar64(t, i.a, r)
  BY <1>3, <1>6, HelperOfGroup, Zenon DEF Double
<1>8. IsZero(Var64(t, i.c), QuadBits) <=> y = 0 /\ Low(v, WordBits - 1) = 0
  BY <1>5, ZeroHalves
<1>9. CASE zero
  <2>1. i.op = "DIVd" /\ y = 0 /\ Low(v, WordBits - 1) = 0
    BY <1>6, <1>8, <1>9, Zenon
  <2>2. EmitNumeric(i, m) = EmitHelperCall(i, m)
    BY <1>5, <2>1, EmitterOfGroup DEF DivideDouble
  <2>3. i.op \in InterpretedOps
    BY DEF InterpretedOps
  <2> QED  BY <2>2, <2>3, HelperMirrors, MirrorAgrees DEF Ready
<1>10. CASE ~zero
  <2>1. EmitNumeric(i, m) = DoubleArithmetic(i, m)
    <3>1. CASE i.op = "DIVd"
      <4>1. ~(y = 0 /\ Low(v, WordBits - 1) = 0)
        BY <1>6, <1>8, <1>10, <3>1, Zenon
      <4>2. LoadVar64(m, i.c)[1] = y /\ LoadVar64(m, i.c)[2] = v
        BY <1>5
      <4>3. EmitNumeric(i, m) = DivideDouble(i, m)
        BY <3>1, EmitterOfGroup
      <4> QED  BY <4>1, <4>2, <4>3 DEF DivideDouble
    <3>2. CASE i.op \in {"ADDd", "SUBd", "MULd"}
      BY <3>2, EmitterOfGroup
    <3> QED  BY <3>1, <3>2 DEF DoubleOps
  <2> QED  BY <1>1, <1>4, <1>7, <1>10, <2>1, DoubleStored
<1> QED  BY <1>9, <1>10

-----------------------------------------------------------------------------
(* Tests and comparisons.                                                  *)

\* TZ, TNZ, TS, TNS, TP, TNP
LEMMA TestsAgree ==
  ASSUME NEW i, NEW m, NEW t, Ready(i, m, t), i.op \in TestOps
  PROVE  Agrees(EmitNumeric(i, m), Interpret(i, t))
<1>1. PICK x \in Word : m.vr[1] = x /\ t.vr[1] = x
  BY DEF Ready
<1>2. PICK f : f = Compare(x, 0)
  OBVIOUS
<1>3. PICK s \in Int : s = Signed(x, WordBits)
  BY SignedWord
<1>4. /\ f.zero <=> s = 0
      /\ SignedLess(f) <=> s < 0
      /\ SignedGreater(f) <=> s > 0
  <2>1. 0 \in Word /\ Signed(0, WordBits) = 0
    BY SignedWord, WordIsNat
  <2>2. s = 0 <=> x = 0
    BY <1>3, SignedWord
  <2> QED  BY <1>2, <1>3, <2>1, <2>2, CompareMeans
<1>5. PICK c : c = CASE i.op = "TZ" -> f.zero
                     [] i.op = "TNZ" -> ~f.zero
                     [] i.op = "TS" -> SignedLess(f)
                     [] i.op = "TNS" -> ~SignedLess(f)
                     [] i.op = "TP" -> SignedGreater(f)
                     [] i.op = "TNP" -> ~SignedGreater(f)
  OBVIOUS
<1>6. PICK h : h = CASE i.op \in {"TZ", "TNZ"} -> (s = 0) = (i.op = "TZ")
                     [] i.op \in {"TS", "TNS"} -> (s < 0) = (i.op = "TS")
                     [] i.op \in {"TP", "TNP"} -> (s > 0) = (i.op = "TP")
  OBVIOUS
<1>7. Truth(c) = Truth(h)
  <2>1. c <=> h
    <3>1. CASE i.op = "TZ"
      BY <1>4, <1>5, <1>6, <3>1, Zenon
    <3>2. CASE i.op = "TNZ"
      BY <1>4, <1>5, <1>6, <3>2
    <3>3. CASE i.op = "TS"
      BY <1>4, <1>5, <1>6, <3>3, Zenon
    <3>4. CASE i.op = "TNS"
      BY <1>4, <1>5, <1>6, <3>4
    <3>5. CASE i.op = "TP"
      BY <1>4, <1>5, <1>6, <3>5, Zenon
    <3>6. CASE i.op = "TNP"
      BY <1>4, <1>5, <1>6, <3>6
    <3> QED  BY <3>1, <3>2, <3>3, <3>4, <3>5, <3>6 DEF TestOps
  <2> QED  BY <2>1 DEF Truth
<1>8. EmitNumeric(i, m) = [m EXCEPT !.vr = <<Truth(c), 0>>]
  <2>1. EmitNumeric(i, m) = TestRegister(i, m)
    BY EmitterOfGroup
  <2> QED  BY <1>1, <1>2, <1>5, <2>1 DEF TestRegister
<1>9. Interpret(i, t) = [t EXCEPT !.vr = <<Truth(h), 0>>]
  <2>1. Interpret(i, t) = Test(i, t)
    BY HelperOfGroup
  <2> QED  BY <1>1, <1>3, <1>6, <2>1 DEF Test
<1> QED  BY <1>7, <1>8, <1>9, MirrorVr, MirrorAgrees DEF Ready

\* What a cmp of two words tells, unsigned and signed.
LEMMA ComparedWords ==
  ASSUME NEW x \in Word, NEW y \in Word
  PROVE  /\ Low(Ordering(x, y), WordBits) =
              Low(Truth(UnsignedGreater(Compare(x, y))) - Truth(Compare(x, y).carry), WordBits)
         /\ Low(Ordering(Signed(x, WordBits), Signed(y, WordBits)), WordBits) =
              Low(Truth(SignedGreater(Compare(x, y))) - Truth(SignedLess(Compare(x, y))),
                  WordBits)
<1>1. x \in Int /\ y \in Int
  BY WordIsNat
<1>2. PICK p \in Int, q \in Int : p = Signed(x, WordBits) /\ q = Signed(y, WordBits)
  BY SignedWord
<1>3. PICK f : f = Compare(x, y)
  OBVIOUS
<1>4. /\ f.carry <=> x < y
      /\ UnsignedGreater(f) <=> x > y
      /\ SignedLess(f) <=> p < q
      /\ SignedGreater(f) <=> p > q
  BY <1>2, <1>3, CompareMeans
<1>5. /\ Truth(f.carry) = Truth(x < y) /\ Truth(UnsignedGreater(f)) = Truth(x > y)
      /\ Truth(SignedLess(f)) = Truth(p < q) /\ Truth(SignedGreater(f)) = Truth(p > q)
  BY <1>4 DEF Truth
<1>6. /\ Low(Ordering(x, y), WordBits) = Low(Truth(x > y) - Truth(x < y), WordBits)
      /\ Low(Ordering(p, q), WordBits) = Low(Truth(p > q) - Truth(p < q), WordBits)
  BY <1>1, OrderingCut
<1> QED  BY <1>2, <1>3, <1>5, <1>6

\* CMPi, CMPu, their immediate forms and CmpPtr
LEMMA ComparesAgree ==
  ASSUME NEW i, NEW m, NEW t, Ready(i, m, t),
         i.op \in {"CMPi", "CMPIi", "CMPu", "CMPIu", "CmpPtr"}
  PROVE  Agrees(EmitNumeric(i, m), Interpret(i, t))
<1>1. PICK x \in Word, u \in Word : LoadVar(m, i.a) = x /\ Var(t, i.a) = x
  BY ReadyWords
<1>2. PICK y \in Word : /\ y = IF i.op \in {"CMPIi", "CMPIu"} THEN i.q[1] ELSE Var(t, i.b)
                        /\ y = IF i.op \in {"CMPi", "CmpPtr", "CMPu"} THEN LoadVar(m, i.b)
                               ELSE i.q[1]
  <2>1. LoadVar(m, i.b) = Var(t, i.b) /\ LoadVar(m, i.b) \in Word /\ i.q[1] \in Word
    BY DEF Ready
  <2> QED  BY <2>1
<1>3. PICK f : f = Compare(x, y)
  OBVIOUS
<1>4. PICK p, q : p = Signed(x, WordBits) /\ q = Signed(y, WordBits)
  OBVIOUS
<1>5. EmitNumeric(i, m) = CompareInt(i, m) /\ CompareFlags(i, m) = f
  BY <1>1, <1>2, <1>3, EmitterOfGroup DEF CompareFlags
<1>6. Interpret(i, t) = CompareVariables(i, t)
  BY HelperOfGroup DEF CompareOps
<1>7. CASE IsUnsignedCompare(i.op)
  <2>1. PICK r : r = Truth(UnsignedGreater(f)) - Truth(f.carry)
    OBVIOUS
  <2>2. EmitNumeric(i, m) = SetResult(m, r)
    BY <1>5, <1>7, <2>1 DEF CompareInt
  <2>3. Interpret(i, t) = SetResult(t, Ordering(x, y))
    BY <1>1, <1>2, <1>6, <1>7 DEF CompareVariables, IsUnsignedCompare
  <2>4. Low(r, WordBits) = Low(Ordering(x, y), WordBits)
    BY <1>3, <2>1, ComparedWords
  <2> QED  BY <2>2, <2>3, <2>4, ResultSet
<1>8. CASE ~IsUnsignedCompare(i.op)
  <2>1. PICK r : r = Truth(SignedGreater(f)) - Truth(SignedLess(f))
    OBVIOUS
  <2>2. EmitNumeric(i, m) = SetResult(m, r)
    BY <1>5, <1>8, <2>1 DEF CompareInt
  <2>3. Interpret(i, t) = SetResult(t, Ordering(p, q))
    <3>1. i.op \in {"CMPi", "CMPIi"}
      BY <1>8 DEF IsUnsignedCompare
    <3> QED  BY <1>1, <1>2, <1>4, <1>6, <3>1 DEF CompareVariables
  <2>4. Low(r, WordBits) = Low(Ordering(p, q), WordBits)
    BY <1>3, <1>4, <2>1, ComparedWords
  <2> QED  BY <2>2, <2>3, <2>4, ResultSet
<1> QED  BY <1>7, <1>8

\* The high words decide unless they are equal.
LEMMA Compares64Agree ==
  ASSUME NEW i, NEW m, NEW t, Ready(i, m, t), i.op \in Compare64Ops
  PROVE  Agrees(EmitNumeric(i, m), Interpret(i, t))
<1>1. PICK x \in Word, u \in Word :
        LoadVar64(m, i.a) = <<x, u>> /\ Var64(t, i.a) = Quad(x, u)
  BY ReadyWords
<1>2. PICK y \in Word, v \in Word :
        LoadVar64(m, i.b) = <<y, v>> /\ Var64(t, i.b) = Quad(y, v)
  BY ReadyWords
<1>3. PICK h, l : h = Compare(u, v) /\ l = Compare(x, y)
  OBVIOUS
<1>4. PICK g \in Int, k \in Int :
        /\ g = IF i.op = "CMPu64" THEN u ELSE Signed(u, WordBits)
        /\ k = IF i.op = "CMPu64" THEN v ELSE Signed(v, WordBits)
  <2>1. u \in Int /\ v \in Int
    BY WordIsNat
  <2>2. Signed(u, WordBits) \in Int /\ Signed(v, WordBits) \in Int
    BY SignedWord
  <2> QED  BY <2>1, <2>2
<1>5. PICK below, above :
        /\ below = (IF i.op = "CMPu64" THEN h.carry ELSE SignedLess(h))
        /\ above = (IF i.op = "CMPu64" THEN UnsignedGreater(h) ELSE SignedGreater(h))
  OBVIOUS
<1>6. (below <=> g < k) /\ (above <=> g > k)
  BY <1>3, <1>4, <1>5, CompareMeans
<1>7. (l.carry <=> x < y) /\ (UnsignedGreater(l) <=> x > y)
  BY <1>3, CompareMeans
<1>8. PICK r : r = IF below THEN -1 ELSE IF above THEN 1
                   ELSE IF l.carry THEN -1 ELSE IF UnsignedGreater(l) THEN 1 ELSE 0
  OBVIOUS
<1>9. EmitNumeric(i, m) = SetResult(m, r)
  <2>1. EmitNumeric(i, m) = CompareQuad(i, m)
    BY EmitterOfGroup
  <2>2. LoadVar64(m, i.a)[1] = x /\ LoadVar64(m, i.a)[2] = u
        /\ LoadVar64(m, i.b)[1] = y /\ LoadVar64(m, i.b)[2] = v
    BY <1>1, <1>2
  <2> QED  BY <1>3, <1>5, <1>8, <2>1, <2>2 DEF CompareQuad
<1>10. PICK p \in Int, q \in Int : p = x + Base * g /\ q = y + Base * k
  <2>1. x \in Int /\ y \in Int /\ Base \in Int
    BY WordIsNat, Bases
  <2> QED  BY <2>1
<1>11. Interpret(i, t) = SetResult(t, Ordering(p, q))
  <2>1. Interpret(i, t) = Compare64(i, t)
    BY HelperOfGroup
  <2>2. CASE i.op = "CMPu64"
    <3>1. p = Quad(x, u) /\ q = Quad(y, v)
      BY <1>4, <1>10, <2>2 DEF Quad, Base
    <3> QED  BY <1>1, <1>2, <2>1, <2>2, <3>1 DEF Compare64
  <2>3. CASE i.op # "CMPu64"
    <3>1. p = Signed(Quad(x, u), QuadBits) /\ q = Signed(Quad(y, v), QuadBits)
      BY <1>4, <1>10, <2>3, SignedQuad
    <3> QED  BY <1>1, <1>2, <2>1, <2>3, <3>1 DEF Compare64
  <2> QED  BY <2>2, <2>3
<1>12. (p < q <=> g < k \/ (g = k /\ x < y)) /\ (p = q <=> g = k /\ x = y)
  BY <1>10, OrderOfHalves
<1>13. r = IF p < q THEN -1 ELSE IF p > q THEN 1 ELSE 0
  <2>1. x \in Int /\ y \in Int
    BY WordIsNat
  <2> QED  BY <1>6, <1>7, <1>8, <1>12, <2>1
<1>14. Low(r, WordBits) = Low(Ordering(p, q), WordBits)
  BY <1>13, OrderingCut
<1> QED  BY <1>9, <1>11, <1>14, ResultSet

\* CMPf, CMPIf, CMPd
LEMMA FloatComparesAgree ==
  ASSUME NEW i, NEW m, NEW t, Ready(i, m, t), i.op \in {"CMPf", "CMPd", "CMPIf"},
         i.op = "CMPd" => Whole(m, {i.a, i.b})
  PROVE  Agrees(EmitNumeric(i, m), Interpret(i, t))
<1>1. PICK n : n = IF i.op = "CMPd" THEN QuadBits ELSE WordBits
  OBVIOUS
<1>2. PICK x : /\ x = IF i.op = "CMPd" THEN LoadDouble(m, i.a) ELSE LoadVar(m, i.a)
               /\ x = IF i.op = "CMPd" THEN Var64(t, i.a) ELSE Var(t, i.a)
               /\ x \in Int
  <2>1. CASE i.op = "CMPd"
    <3>1. ~(m.sse /\ IsSplit(m, i.a))
      BY <2>1 DEF Whole
    <3>2. LoadDouble(m, i.a) = Var64(t, i.a)
      BY <3>1, WholeDouble
    <3>3. Var64(t, i.a) \in Int
      <4>1. PICK z \in Word, w \in Word : Var64(t, i.a) = Quad(z, w)
        BY ReadyWords
      <4>2. Quad(z, w) \in 0..Bits(QuadBits) - 1
        BY QuadIsQuad
      <4> QED  BY <4>1, <4>2
    <3> QED  BY <2>1, <3>2, <3>3
  <2>2. CASE i.op # "CMPd"
    <3>1. PICK w \in Word : LoadVar(m, i.a) = w /\ Var(t, i.a) = w
      BY DEF Ready
    <3>2. w \in Int
      BY WordIsNat
    <3> QED  BY <2>2, <3>1, <3>2
  <2> QED  BY <2>1, <2>2
<1>3. PICK y : /\ y = CASE i.op = "CMPd" -> LoadDouble(m, i.b)
                        [] i.op = "CMPf" -> LoadVar(m, i.b)
                        [] i.op = "CMPIf" -> i.q[1]
               /\ y = CASE i.op = "CMPd" -> Var64(t, i.b)
                        [] i.op = "CMPf" -> Var(t, i.b)
                        [] i.op = "CMPIf" -> i.q[1]
               /\ y \in Int
  <2>1. CASE i.op = "CMPd"
    <3>1. ~(m.sse /\ IsSplit(m, i.b))
      BY <2>1 DEF Whole
    <3>2. LoadDouble(m, i.b) = Var64(t, i.b)
      BY <3>1, WholeDouble
    <3>3. Var64(t, i.b) \in Int
      <4>1. PICK z \in Word, w \in Word : Var64(t, i.b) = Quad(z, w)
        BY ReadyWords
      <4>2. Quad(z, w) \in 0..Bits(QuadBits) - 1
        BY QuadIsQuad
      <4> QED  BY <4>1, <4>2
    <3> QED  BY <2>1, <3>2, <3>3
  <2>2. CASE i.op = "CMPf"
    <3>1. PICK w \in Word : LoadVar(m, i.b) = w /\ Var(t, i.b) = w
      BY DEF Ready
    <3>2. w \in Int
      BY WordIsNat
    <3> QED  BY <2>2, <3>1, <3>2
  <2>3. CASE i.op = "CMPIf"
    <3>1. PICK w \in Word : i.q[1] = w
      BY DEF Ready
    <3>2. w \in Int
      BY WordIsNat
    <3> QED  BY <2>3, <3>1, <3>2
  <2> QED  BY <2>1, <2>2, <2>3
<1>4. PICK p, q, unordered :
        p = Rank(x, n) /\ q = Rank(y, n) /\ unordered = (IsNaN(x, n) \/ IsNaN(y, n))
  OBVIOUS
<1>5. p \in Int /\ q \in Int
  <2>1. n \in Nat /\ n - 1 \in Nat
    BY <1>1, Sizes
  <2>2. Code(x, n) \in Int /\ Code(y, n) \in Int
    <3>1. Low(x, n - 1) \in 0..Bits(n - 1) - 1 /\ Low(y, n - 1) \in 0..Bits(n - 1) - 1
      BY <1>2, <1>3, <2>1, LowIs
    <3> QED  BY <3>1 DEF Code
  <2> QED  BY <1>4, <2>2 DEF Rank
<1>6. PICK r : r = IF unordered THEN 1 ELSE IF unordered \/ p < q THEN -1
                   ELSE IF unordered \/ p = q THEN 0 ELSE 1
  OBVIOUS
<1>7. EmitNumeric(i, m) = SetResult(m, r)
  <2>1. EmitNumeric(i, m) = CompareFloat(i, m)
    BY EmitterOfGroup
  <2>2. CASE i.op = "CMPd"
    BY <1>1, <1>2, <1>3, <1>4, <1>6, <2>1, <2>2, Zenon DEF CompareFloat
  <2>3. CASE i.op = "CMPf"
    BY <1>1, <1>2, <1>3, <1>4, <1>6, <2>1, <2>3, Zenon DEF CompareFloat, LoadFloatVar
  <2>4. CASE i.op = "CMPIf"
    BY <1>1, <1>2, <1>3, <1>4, <1>6, <2>1, <2>4, Zenon DEF CompareFloat, LoadFloatVar
  <2> QED  BY <2>2, <2>3, <2>4
<1>8. PICK s : s = IF unordered THEN 1 ELSE Ordering(p, q)
  OBVIOUS
<1>9. Interpret(i, t) = SetResult(t, s)
  <2>1. Interpret(i, t) = CompareVariables(i, t)
    BY HelperOfGroup DEF CompareOps
  <2>2. s = FloatOrdering(x, y, n)
    BY <1>4, <1>8, Zenon DEF FloatOrdering
  <2>3. CASE i.op = "CMPd"
    BY <1>1, <1>2, <1>3, <2>1, <2>2, <2>3 DEF CompareVariables
  <2>4. CASE i.op = "CMPf"
    BY <1>1, <1>2, <1>3, <2>1, <2>2, <2>4 DEF CompareVariables
  <2>5. CASE i.op = "CMPIf"
    BY <1>1, <1>2, <1>3, <2>1, <2>2, <2>5 DEF CompareVariables
  <2> QED  BY <2>3, <2>4, <2>5
<1>10. Low(r, WordBits) = Low(s, WordBits)
  <2>1. CASE unordered
    BY <1>6, <1>8, <2>1
  <2>2. CASE ~unordered
    <3>1. r = IF p < q THEN -1 ELSE IF p > q THEN 1 ELSE 0
      BY <1>5, <1>6, <2>2
    <3> QED  BY <1>5, <1>8, <2>2, <3>1, OrderingCut
  <2> QED  BY <2>1, <2>2
<1> QED  BY <1>7, <1>9, <1>10, ResultSet

-----------------------------------------------------------------------------
(* Divisions.                                                              *)

\* An exception on both sides.
LEMMA RaisedAgrees ==
  ASSUME NEW i, NEW m, NEW t, Ready(i, m, t), NEW x
  PROVE  Agrees(EmitInternalException(m, x), SetInternalException(t, x))
<1>1. Mirror(m, t)
  BY DEF Ready
<1> QED  BY <1>1, RaiseAgrees

\* A call flushes the registers and reads them back.
LEMMA CalledMirrors ==
  ASSUME NEW i, NEW m, NEW t, Ready(i, m, t)
  PROVE  \E n : /\ n = ReloadCachedLocals(FlushCachedLocals(m)) /\ Mirror(n, t)
                /\ i.a \in Int /\ Fp - i.a \in DOMAIN n.mem /\ Fp - i.a + 1 \in DOMAIN n.mem
<1>1. PICK n : n = ReloadCachedLocals(FlushCachedLocals(m))
  OBVIOUS
<1>2. Mirror(n, t) /\ DOMAIN n.mem = DOMAIN m.mem
  BY <1>1, MirrorFlush, MirrorReload, Zenon DEF Ready, Mirror
<1> QED  BY <1>1, <1>2 DEF Ready

-----------------------------------------------------------------------------
\* DIVi, MODi
LEMMA DivideIntAgrees ==
  ASSUME NEW i, NEW m, NEW t, Ready(i, m, t), i.op \in DivideOps
  PROVE  Agrees(EmitNumeric(i, m), Interpret(i, t))
<1>1. PICK x \in Word, u \in Word : LoadVar(m, i.b) = x /\ Var(t, i.b) = x
  BY ReadyWords
<1>2. PICK y \in Word, v \in Word : LoadVar(m, i.c) = y /\ Var(t, i.c) = y
  BY ReadyWords
<1>3. PICK p, q : p = Signed(x, WordBits) /\ q = Signed(y, WordBits)
  OBVIOUS
<1>4. PICK r : r = IF i.op = "DIVi" THEN Quotient(p, q) ELSE Remainder(p, q)
  OBVIOUS
<1>5. PICK zero, over : /\ zero = (y = 0)
                        /\ over = (y = MinusOne(WordBits) /\ x = MinSigned(WordBits))
  OBVIOUS
<1>6. zero = (q = 0) /\ over = (q = -1 /\ x = MinSigned(WordBits))
  BY <1>3, <1>5, SignedWord
<1>7. EmitNumeric(i, m) =
        IF zero THEN EmitInternalException(m, "TXT_DIVIDE_BY_ZERO")
        ELSE IF over THEN EmitInternalException(m, "TXT_DIVIDE_OVERFLOW")
        ELSE StoreVar(m, i.a, Half(r))
  <2>1. EmitNumeric(i, m) = DivideInt(i, m)
    BY EmitterOfGroup
  <2> QED  BY <1>1, <1>2, <1>3, <1>4, <1>5, <2>1, Zenon DEF DivideInt
<1>8. Interpret(i, t) =
        IF zero THEN SetInternalException(t, "TXT_DIVIDE_BY_ZERO")
        ELSE IF over THEN SetInternalException(t, "TXT_DIVIDE_OVERFLOW")
        ELSE SetVar(t, i.a, r)
  <2>1. Interpret(i, t) = Divide(i, t)
    BY HelperOfGroup
  <2> QED  BY <1>1, <1>2, <1>3, <1>4, <1>6, <2>1, Zenon DEF Divide, DivideSigned
<1>9. Half(r) = Low(r, WordBits)
  BY DEF Half
<1> QED  BY <1>7, <1>8, <1>9, WordStored, RaisedAgrees

\* DIVu, MODu
LEMMA DivideUintAgrees ==
  ASSUME NEW i, NEW m, NEW t, Ready(i, m, t), i.op \in DivideUnsignedOps
  PROVE  Agrees(EmitNumeric(i, m), Interpret(i, t))
<1>1. PICK x \in Word, u \in Word : LoadVar(m, i.b) = x /\ Var(t, i.b) = x
  BY ReadyWords
<1>2. PICK y \in Word, v \in Word : LoadVar(m, i.c) = y /\ Var(t, i.c) = y
  BY ReadyWords
<1>3. PICK r : r = IF i.op = "DIVu" THEN x \div y ELSE x % y
  OBVIOUS
<1>4. EmitNumeric(i, m) =
        IF y = 0 THEN EmitInternalException(m, "TXT_DIVIDE_BY_ZERO") ELSE StoreVar(m, i.a, r)
  <2>1. EmitNumeric(i, m) = DivideUint(i, m)
    BY EmitterOfGroup
  <2> QED  BY <1>1, <1>2, <1>3, <2>1 DEF DivideUint
<1>5. Interpret(i, t) =
        IF y = 0 THEN SetInternalException(t, "TXT_DIVIDE_BY_ZERO") ELSE SetVar(t, i.a, r)
  <2>1. Interpret(i, t) = DivideUnsigned(i, t)
    BY HelperOfGroup
  <2> QED  BY <1>1, <1>2, <1>3, <2>1 DEF DivideUnsigned
<1>6. CASE y = 0
  BY <1>4, <1>5, <1>6, RaisedAgrees
<1>7. CASE y # 0
  <2>1. x \div y \in Word /\ x % y \in Word
    BY <1>7, DivideWords
  <2>2. r = Low(r, WordBits)
    BY <1>3, <2>1, WordIsCut
  <2>3. EmitNumeric(i, m) = StoreVar(m, i.a, r) /\ Interpret(i, t) = SetVar(t, i.a, r)
    BY <1>4, <1>5, <1>7
  <2> QED  BY <2>2, <2>3, WordStored
<1> QED  BY <1>6, <1>7

\* DIVu64, MODu64
LEMMA DivideUnsignedQuadAgrees ==
  ASSUME NEW i, NEW m, NEW t, Ready(i, m, t), i.op \in DivideUnsigned64Ops
  PROVE  Agrees(EmitNumeric(i, m), Interpret(i, t))
<1>1. PICK x, y : /\ LoadQuad(m, i.b) = x /\ Var64(t, i.b) = x
                  /\ LoadQuad(m, i.c) = y /\ Var64(t, i.c) = y
  <2>1. \A o \in {i.b, i.c} : LoadQuad(m, o) = Var64(t, o)
    BY DEF Ready, LoadQuad
  <2> QED  BY <2>1
<1>2. PICK r : r = IF i.op = "DIVu64" THEN x \div y ELSE x % y
  OBVIOUS
<1>3. PICK n : /\ n = ReloadCachedLocals(FlushCachedLocals(m)) /\ Mirror(n, t)
               /\ i.a \in Int /\ Fp - i.a \in DOMAIN n.mem /\ Fp - i.a + 1 \in DOMAIN n.mem
  BY CalledMirrors
<1>4. EmitNumeric(i, m) =
        IF y = 0 THEN EmitInternalException(m, "TXT_DIVIDE_BY_ZERO")
        ELSE StoreVar64(n, i.a, Halves(r))
  <2>1. EmitNumeric(i, m) = DivideUnsignedQuad(i, m)
    BY EmitterOfGroup
  <2> QED  BY <1>1, <1>2, <1>3, <2>1 DEF DivideUnsignedQuad
<1>5. Interpret(i, t) =
        IF y = 0 THEN SetInternalException(t, "TXT_DIVIDE_BY_ZERO") ELSE SetVar64(t, i.a, r)
  <2>1. Interpret(i, t) = DivideUnsigned64(i, t)
    BY HelperOfGroup
  <2> QED  BY <1>1, <1>2, <2>1 DEF DivideUnsigned64
<1>6. CASE y = 0
  BY <1>4, <1>5, <1>6, RaisedAgrees
<1>7. CASE y # 0
  <2>1. EmitNumeric(i, m) = StoreVar64(n, i.a, Halves(r))
        /\ Interpret(i, t) = SetVar64(t, i.a, r)
    BY <1>4, <1>5, <1>7
  <2>2. Agrees(StoreVar64(n, i.a, Halves(r)), SetVar64(t, i.a, r))
    BY <1>3, Stored64Agrees
  <2> QED  BY <2>1, <2>2
<1> QED  BY <1>6, <1>7

\* What a signed division of two words of 64 bits comes to on each side.
LEMMA DivideQuadCases ==
  ASSUME NEW i, NEW m, NEW t, Ready(i, m, t), i.op \in Divide64Ops
  PROVE  \E n, r, zero, over, tested :
           /\ Mirror(n, t) /\ i.a \in Int
           /\ Fp - i.a \in DOMAIN n.mem /\ Fp - i.a + 1 \in DOMAIN n.mem
           /\ zero = (Var64(t, i.c) = 0)
           /\ over = (Var64(t, i.c) = MinusOne(QuadBits) /\ Var64(t, i.b) = MinSigned(QuadBits))
           /\ tested = (Var64(t, i.c) = MinusOne(WordBits)
                        /\ Var64(t, i.b) = MinSigned(QuadBits))
           /\ EmitNumeric(i, m) =
                IF zero THEN EmitInternalException(m, "TXT_DIVIDE_BY_ZERO")
                ELSE IF tested THEN EmitInternalException(m, "TXT_DIVIDE_OVERFLOW")
                ELSE IF over THEN [m EXCEPT !.exc = "undefined behaviour"]
                ELSE StoreVar64(n, i.a, Halves(r))
           /\ Interpret(i, t) =
                IF zero THEN SetInternalException(t, "TXT_DIVIDE_BY_ZERO")
                ELSE IF over THEN SetInternalException(t, "TXT_DIVIDE_OVERFLOW")
                ELSE SetVar64(t, i.a, r)
           /\ ~(over /\ tested)
<1>1. PICK x \in Word, u \in Word :
        LoadVar64(m, i.b) = <<x, u>> /\ Var64(t, i.b) = Quad(x, u)
  BY ReadyWords
<1>2. PICK y \in Word, v \in Word :
        LoadVar64(m, i.c) = <<y, v>> /\ Var64(t, i.c) = Quad(y, v)
  BY ReadyWords
<1>3. PICK p, q : p = Signed(Quad(x, u), QuadBits) /\ q = Signed(Quad(y, v), QuadBits)
  OBVIOUS
<1>4. PICK r : r = IF i.op = "DIVi64" THEN Quotient(p, q) ELSE Remainder(p, q)
  OBVIOUS
<1>5. PICK n : /\ n = ReloadCachedLocals(FlushCachedLocals(m)) /\ Mirror(n, t)
               /\ i.a \in Int /\ Fp - i.a \in DOMAIN n.mem /\ Fp - i.a + 1 \in DOMAIN n.mem
  BY CalledMirrors
<1>6. PICK zero, over, tested :
           /\ zero = (Quad(y, v) = 0)
           /\ over = (Quad(y, v) = MinusOne(QuadBits) /\ Quad(x, u) = MinSigned(QuadBits))
           /\ tested = (Quad(y, v) = MinusOne(WordBits) /\ Quad(x, u) = MinSigned(QuadBits))
  OBVIOUS
<1>7. /\ zero = (y = 0 /\ v = 0) /\ zero = (q = 0)
      /\ over = (q = -1 /\ p = -MinSigned(QuadBits))
      /\ over = (q = -1 /\ Quad(x, u) = MinSigned(QuadBits))
      /\ tested = (y = MinusOne(WordBits) /\ v = 0 /\ x = 0 /\ u = MinSigned(WordBits))
      /\ ~(over /\ tested)
  <2>1. /\ Quad(x, u) = MinSigned(QuadBits) <=> x = 0 /\ u = MinSigned(WordBits)
        /\ p = -MinSigned(QuadBits) <=> x = 0 /\ u = MinSigned(WordBits)
    BY <1>3, SpecialQuads
  <2>2. /\ Quad(y, v) = 0 <=> y = 0 /\ v = 0
        /\ q = 0 <=> y = 0 /\ v = 0
        /\ q = -1 <=> y = MinusOne(WordBits) /\ v = MinusOne(WordBits)
        /\ Quad(y, v) = MinusOne(QuadBits) <=>
              y = MinusOne(WordBits) /\ v = MinusOne(WordBits)
        /\ Quad(y, v) = MinusOne(WordBits) <=> y = MinusOne(WordBits) /\ v = 0
    BY <1>3, SpecialQuads
  <2>3. MinusOne(WordBits) # 0
    BY BaseFacts
  <2> QED  BY <1>6, <2>1, <2>2, <2>3, Zenon
<1>8. EmitNumeric(i, m) =
                IF zero THEN EmitInternalException(m, "TXT_DIVIDE_BY_ZERO")
                ELSE IF tested THEN EmitInternalException(m, "TXT_DIVIDE_OVERFLOW")
                ELSE IF over THEN [m EXCEPT !.exc = "undefined behaviour"]
                ELSE StoreVar64(n, i.a, Halves(r))
  <2>1. EmitNumeric(i, m) = DivideQuad(i, m)
    BY EmitterOfGroup
  <2>2. LoadVar64(m, i.b)[1] = x /\ LoadVar64(m, i.b)[2] = u
        /\ LoadVar64(m, i.c)[1] = y /\ LoadVar64(m, i.c)[2] = v
    BY <1>1, <1>2
  <2>3. /\ zero = (LoadVar64(m, i.c) = <<0, 0>>)
        /\ tested = (LoadVar64(m, i.c) = <<MinusOne(WordBits), 0>>
                     /\ LoadVar64(m, i.b) = <<0, MinSigned(WordBits)>>)
    BY <1>1, <1>2, <1>7
  <2> QED  BY <1>3, <1>4, <1>5, <1>7, <2>1, <2>2, <2>3, Zenon DEF DivideQuad
<1>9. Interpret(i, t) =
                IF zero THEN SetInternalException(t, "TXT_DIVIDE_BY_ZERO")
                ELSE IF over THEN SetInternalException(t, "TXT_DIVIDE_OVERFLOW")
                ELSE SetVar64(t, i.a, r)
  <2>1. Interpret(i, t) = Divide64(i, t)
    BY HelperOfGroup
  <2> QED  BY <1>1, <1>2, <1>3, <1>4, <1>7, <2>1, Zenon DEF Divide64, DivideSigned
<1> QED  BY <1>1, <1>2, <1>5, <1>6, <1>7, <1>8, <1>9, Zenon

-----------------------------------------------------------------------------
(* Near: the states differ in the destination at most.                     *)

\* The frames f and g differ in the variable at o at most.
Off(o, f, g) ==
  DOMAIN f = DOMAIN g /\ \A at \in DOMAIN g \ {Fp - o, Fp - o + 1} : f[at] = g[at]

\* A state that may differ from the interpreter's in the destination.
Near(i, n, s) ==
  /\ Off(i.a, View(n), s.mem) /\ n.sp = s.sp /\ n.object = s.object
  /\ n.exc # "none" /\ n.local => n.mem = View(n)

\* Writes of the variable at o.
LEMMA OffWritten ==
  ASSUME NEW f, NEW o, NEW x, NEW y, NEW p, NEW q
  PROVE  /\ Off(o, Put(f, o, x), Put(f, o, y)) /\ Off(o, Both(f, o, p), Both(f, o, q))
         /\ Off(o, f, Put(f, o, x)) /\ Off(o, f, Both(f, o, p))
BY DEF Off, Put, Both

\* States that agree are near.
LEMMA AgreesIsNear ==
  ASSUME NEW i, NEW n, NEW s, Agrees(n, s)
  PROVE  Near(i, n, s) /\ n.vr = s.vr /\ n.exc = s.exc
BY DEF Agrees, Alike, SameRegisters, Near, Off

\* Two different words stored.
LEMMA NearStored ==
  ASSUME NEW i, NEW m, NEW t, Ready(i, m, t), NEW x, NEW y
  PROVE  /\ Near(i, StoreVar(m, i.a, x), SetVar(t, i.a, y))
         /\ StoreVar(m, i.a, x).vr = SetVar(t, i.a, y).vr
         /\ StoreVar(m, i.a, x).exc = SetVar(t, i.a, y).exc
<1>1. IsMachine(m) /\ DOMAIN m = Fields /\ DOMAIN t = Fields /\ t.mem = View(m)
      /\ SameRegisters(m, t) /\ m.local = FALSE
      /\ i.a \in Int /\ Fp - i.a \in DOMAIN m.mem
  BY DEF Ready, Mirror
<1>2. PICK n : n = StoreVar(m, i.a, x)
  OBVIOUS
<1>3. View(n) = Put(View(m), i.a, x)
  BY <1>1, <1>2, StoreWritesView DEF Put
<1>4. n.vr = m.vr /\ n.sp = m.sp /\ n.object = m.object /\ n.exc = m.exc /\ n.local = FALSE
  BY <1>1, <1>2, StoreFields
<1>5. PICK s : s = SetVar(t, i.a, y)
  OBVIOUS
<1>6. SameRegisters(s, t) /\ s.mem = Put(t.mem, i.a, Low(y, WordBits))
  BY <1>1, <1>5, SetVarFields
<1>7. Off(i.a, View(n), s.mem)
  BY <1>1, <1>3, <1>6, OffWritten
<1>8. Near(i, n, s) /\ n.vr = s.vr /\ n.exc = s.exc
  BY <1>1, <1>4, <1>6, <1>7 DEF Near, SameRegisters
<1> QED  BY <1>2, <1>5, <1>8

\* Two different quads stored.
LEMMA NearStored64 ==
  ASSUME NEW i, NEW m, NEW t, Ready(i, m, t), NEW p, NEW y
  PROVE  /\ Near(i, StoreVar64(m, i.a, p), SetVar64(t, i.a, y))
         /\ StoreVar64(m, i.a, p).vr = SetVar64(t, i.a, y).vr
         /\ StoreVar64(m, i.a, p).exc = SetVar64(t, i.a, y).exc
<1>1. IsMachine(m) /\ DOMAIN m = Fields /\ DOMAIN t = Fields /\ t.mem = View(m)
      /\ SameRegisters(m, t) /\ m.local = FALSE
      /\ i.a \in Int /\ Fp - i.a \in DOMAIN m.mem /\ Fp - i.a + 1 \in DOMAIN m.mem
  BY DEF Ready, Mirror
<1>2. PICK n : n = StoreVar64(m, i.a, p)
  OBVIOUS
<1>3. View(n) = Both(View(m), i.a, p)
  BY <1>1, <1>2, Store64WritesView
<1>4. n.vr = m.vr /\ n.sp = m.sp /\ n.object = m.object /\ n.exc = m.exc /\ n.local = FALSE
  <2>1. PICK k : k = StoreVar(m, i.a, p[1])
    OBVIOUS
  <2>2. n = StoreVar(k, i.a - 1, p[2])
    BY <1>2, <2>1 DEF StoreVar64
  <2>3. DOMAIN k = Fields /\ k.vr = m.vr /\ k.sp = m.sp /\ k.object = m.object
        /\ k.exc = m.exc /\ k.local = m.local
    BY <1>1, <2>1, StoreFields
  <2>4. n.vr = k.vr /\ n.sp = k.sp /\ n.object = k.object /\ n.exc = k.exc
        /\ n.local = k.local
    BY <2>2, <2>3, StoreFields
  <2> QED  BY <1>1, <2>3, <2>4
<1>5. PICK s : s = SetVar64(t, i.a, y)
  OBVIOUS
<1>6. SameRegisters(s, t) /\ s.mem = Both(t.mem, i.a, Halves(y))
  BY <1>1, <1>5, SetVar64Fields
<1>7. Off(i.a, View(n), s.mem)
  BY <1>1, <1>3, <1>6, OffWritten
<1>8. Near(i, n, s) /\ n.vr = s.vr /\ n.exc = s.exc
  BY <1>1, <1>4, <1>6, <1>7 DEF Near, SameRegisters
<1> QED  BY <1>2, <1>5, <1>8

\* A double stored through memory may miss the register of one half.
LEMMA NearDouble ==
  ASSUME NEW i, NEW m, NEW t, Ready(i, m, t), NEW x, NEW y
  PROVE  /\ Near(i, StoreDouble(m, i.a, x), SetVar64(t, i.a, y))
         /\ StoreDouble(m, i.a, x).vr = SetVar64(t, i.a, y).vr
         /\ StoreDouble(m, i.a, x).exc = SetVar64(t, i.a, y).exc
<1>0. PICK p : p = Halves(x)
  OBVIOUS
<1>1. StoreDouble(m, i.a, x) = StoreDoubleVar(m, i.a, p, m.sse)
  BY <1>0 DEF StoreDouble
<1>2. CASE ~ThroughMemory(m, i.a, m.sse)
  <2>1. StoreDouble(m, i.a, x) = StoreVar64(m, i.a, p)
    BY <1>1, <1>2 DEF StoreDoubleVar
  <2> QED  BY <2>1, NearStored64
<1>3. CASE ThroughMemory(m, i.a, m.sse)
  <2>1. IsMachine(m) /\ DOMAIN m = Fields /\ DOMAIN t = Fields /\ t.mem = View(m)
        /\ SameRegisters(m, t) /\ m.local = FALSE
    BY DEF Ready, Mirror
  <2>2. PICK n : n = StoreDouble(m, i.a, x)
    OBVIOUS
  <2>3. n = [m EXCEPT !.mem = Both(m.mem, i.a, p)]
    BY <1>1, <1>3, <2>2, Zenon DEF StoreDoubleVar, Both
  <2>4. n.mem = Both(m.mem, i.a, p) /\ n.reg = m.reg /\ n.vr = m.vr /\ n.sp = m.sp
        /\ n.object = m.object /\ n.exc = m.exc /\ n.local = m.local /\ DOMAIN n = Fields
    BY <2>1, <2>3, WithMem
  <2>5. DOMAIN n.mem = DOMAIN m.mem
        /\ \A at \in DOMAIN m.mem \ {Fp - i.a, Fp - i.a + 1} : n.mem[at] = m.mem[at]
    BY <2>1, <2>4 DEF Both, IsMachine
  <2>6. Off(i.a, View(n), View(m))
    <3>1. View(m) = [at \in DOMAIN m.mem |->
                       IF Fp - at \in DOMAIN m.reg THEN m.reg[Fp - at] ELSE m.mem[at]]
      BY <2>1, ViewOfMachine
    <3>2. View(n) = [at \in DOMAIN n.mem |->
                       IF Fp - at \in DOMAIN n.reg THEN n.reg[Fp - at] ELSE n.mem[at]]
      BY <2>4 DEF View, FlushCachedLocals, Cached, Fields
    <3> QED  BY <2>4, <2>5, <3>1, <3>2 DEF Off
  <2>7. PICK s : s = SetVar64(t, i.a, y)
    OBVIOUS
  <2>8. SameRegisters(s, t) /\ s.mem = Both(t.mem, i.a, Halves(y))
    BY <2>1, <2>7, SetVar64Fields
  <2>9. Off(i.a, View(n), s.mem)
    <3>1. Off(i.a, View(m), s.mem)
      BY <2>1, <2>8, OffWritten
    <3> QED  BY <2>6, <3>1 DEF Off
  <2>10. Near(i, n, s) /\ n.vr = s.vr /\ n.exc = s.exc
    BY <2>1, <2>4, <2>8, <2>9 DEF Near, SameRegisters
  <2> QED  BY <2>2, <2>7, <2>10
<1> QED  BY <1>2, <1>3

\* An exception raised where the interpreter stores the destination.
LEMMA NearRaised ==
  ASSUME NEW i, NEW m, NEW t, Ready(i, m, t), NEW x, NEW s,
         \/ \E y : s = SetVar(t, i.a, y)
         \/ \E y : s = SetVar64(t, i.a, y)
         \/ \E y, z : s = SetInternalException(SetVar(t, i.a, y), z)
  PROVE  /\ Near(i, EmitInternalException(m, x), s)
         /\ EmitInternalException(m, x).vr = s.vr
         /\ EmitInternalException(m, x).exc = x
<1>1. DOMAIN t = Fields
  BY DEF Ready, Mirror
<1>2. PICK n : n = EmitInternalException(m, x)
  OBVIOUS
<1>3. PICK r : r = SetInternalException(t, x)
  OBVIOUS
<1>4. Near(i, n, r) /\ n.vr = r.vr /\ n.exc = r.exc /\ Agrees(n, r)
  BY <1>2, <1>3, RaisedAgrees, AgreesIsNear
<1>5. r.mem = t.mem /\ r.vr = t.vr /\ r.sp = t.sp /\ r.object = t.object /\ r.exc = x
  BY <1>1, <1>3 DEF SetInternalException, Fields
<1>6. Off(i.a, t.mem, s.mem) /\ s.vr = t.vr /\ s.sp = t.sp /\ s.object = t.object
  <2>1. \A y : /\ DOMAIN SetVar(t, i.a, y) = Fields
               /\ SameRegisters(SetVar(t, i.a, y), t)
               /\ Off(i.a, t.mem, SetVar(t, i.a, y).mem)
    BY <1>1, SetVarFields, OffWritten
  <2>2. \A y : /\ SameRegisters(SetVar64(t, i.a, y), t)
               /\ Off(i.a, t.mem, SetVar64(t, i.a, y).mem)
    BY <1>1, SetVar64Fields, OffWritten
  <2>3. CASE \E y, z : s = SetInternalException(SetVar(t, i.a, y), z)
    <3>1. PICK y, z : s = SetInternalException(SetVar(t, i.a, y), z)
      BY <2>3
    <3>2. PICK k : k = SetVar(t, i.a, y)
      OBVIOUS
    <3>3. DOMAIN k = Fields /\ SameRegisters(k, t) /\ Off(i.a, t.mem, k.mem)
      BY <2>1, <3>2
    <3>4. s.mem = k.mem /\ s.vr = k.vr /\ s.sp = k.sp /\ s.object = k.object
      BY <3>1, <3>2, <3>3 DEF SetInternalException, Fields
    <3> QED  BY <3>3, <3>4 DEF SameRegisters
  <2> QED  BY <2>1, <2>2, <2>3 DEF SameRegisters
<1>7. Off(i.a, View(n), s.mem)
  <2>1. Off(i.a, View(n), t.mem)
    BY <1>4, <1>5 DEF Near
  <2> QED  BY <1>6, <2>1 DEF Off
<1>8. Near(i, n, s) /\ n.vr = s.vr /\ n.exc = x
  BY <1>4, <1>5, <1>6, <1>7 DEF Near
<1> QED  BY <1>2, <1>8

-----------------------------------------------------------------------------
(* The instructions that are known to differ, and by how much.             *)

\* Near, and the value register as it is known to be.
Fine(i, n, s) == Near(i, n, s) /\ (n.vr # s.vr => i.op \in {"ClrHi", "CMPd"})

\* Two different value registers.
LEMMA NearVr ==
  ASSUME NEW i, NEW m, NEW t, Ready(i, m, t), NEW x, NEW y
  PROVE  /\ Near(i, [m EXCEPT !.vr = x], [t EXCEPT !.vr = y])
         /\ [m EXCEPT !.vr = x].exc = [t EXCEPT !.vr = y].exc
<1>1. IsMachine(m) /\ DOMAIN m = Fields /\ DOMAIN t = Fields /\ Mirror(m, t)
  BY DEF Ready, Mirror
<1>2. PICK n, r, s : n = [m EXCEPT !.vr = x] /\ r = [t EXCEPT !.vr = x]
                     /\ s = [t EXCEPT !.vr = y]
  BY Zenon
<1>3. Near(i, n, r) /\ n.exc = r.exc
  BY <1>1, <1>2, MirrorVr, MirrorAgrees, AgreesIsNear
<1>4. r.mem = s.mem /\ r.sp = s.sp /\ r.object = s.object /\ r.exc = s.exc
  BY <1>1, <1>2 DEF Fields
<1>5. Near(i, n, s) /\ n.exc = s.exc
  BY <1>3, <1>4 DEF Near
<1> QED  BY <1>2, <1>5

-----------------------------------------------------------------------------
Missed(i, t) ==
  /\ i.op \in Divide64Ops /\ Var64(t, i.b) = MinSigned(QuadBits)
  /\ Var64(t, i.c) \in {MinusOne(QuadBits), MinusOne(WordBits)}

\* DIVi64 and MODi64 agree except for the overflow that is looked for at the
\* wrong divisor.
LEMMA DivideQuadOutcome ==
  ASSUME NEW i, NEW m, NEW t, Ready(i, m, t), i.op \in Divide64Ops, t.exc = "none"
  PROVE  /\ Fine(i, EmitNumeric(i, m), Interpret(i, t))
         /\ EmitNumeric(i, m).exc # Interpret(i, t).exc <=> Missed(i, t)
         /\ ~Missed(i, t) => Agrees(EmitNumeric(i, m), Interpret(i, t))
<1>1. PICK k, r, zero, over, tested :
           /\ Mirror(k, t) /\ i.a \in Int
           /\ Fp - i.a \in DOMAIN k.mem /\ Fp - i.a + 1 \in DOMAIN k.mem
           /\ zero = (Var64(t, i.c) = 0)
           /\ over = (Var64(t, i.c) = MinusOne(QuadBits) /\ Var64(t, i.b) = MinSigned(QuadBits))
           /\ tested = (Var64(t, i.c) = MinusOne(WordBits)
                        /\ Var64(t, i.b) = MinSigned(QuadBits))
           /\ EmitNumeric(i, m) =
                IF zero THEN EmitInternalException(m, "TXT_DIVIDE_BY_ZERO")
                ELSE IF tested THEN EmitInternalException(m, "TXT_DIVIDE_OVERFLOW")
                ELSE IF over THEN [m EXCEPT !.exc = "undefined behaviour"]
                ELSE StoreVar64(k, i.a, Halves(r))
           /\ Interpret(i, t) =
                IF zero THEN SetInternalException(t, "TXT_DIVIDE_BY_ZERO")
                ELSE IF over THEN SetInternalException(t, "TXT_DIVIDE_OVERFLOW")
                ELSE SetVar64(t, i.a, r)
           /\ ~(over /\ tested)
  BY DivideQuadCases, Zenon
<1>2. PICK n, s : n = EmitNumeric(i, m) /\ s = Interpret(i, t)
  OBVIOUS
<1>3. Missed(i, t) <=> over \/ tested
  BY <1>1, Zenon DEF Missed
<1>4. CASE zero
  <2>1. Agrees(n, s)
    BY <1>1, <1>2, <1>4, RaisedAgrees, Zenon
  <2>2. ~over /\ ~tested
    <3>1. Var64(t, i.c) = 0
      BY <1>1, <1>4, Zenon
    <3>2. MinusOne(WordBits) # 0 /\ MinusOne(QuadBits) # 0
      <4>1. PICK b \in Nat, h \in Nat : /\ b >= 256 /\ MinusOne(WordBits) = b - 1
                                        /\ Bits(QuadBits) = b * b
        BY BaseFacts, Zenon
      <4>2. b * b \in Nat /\ b * b >= b
        BY <4>1, ProductIsNatural
      <4> QED  BY <4>1, <4>2 DEF MinusOne
    <3> QED  BY <1>1, <3>1, <3>2, Zenon
  <2> QED  BY <1>2, <1>3, <2>1, <2>2, AgreesIsNear DEF Fine
<1>5. CASE ~zero /\ ~over /\ ~tested
  <2>1. n = StoreVar64(k, i.a, Halves(r)) /\ s = SetVar64(t, i.a, r)
    BY <1>1, <1>2, <1>5
  <2>2. Agrees(StoreVar64(k, i.a, Halves(r)), SetVar64(t, i.a, r))
    BY <1>1, Stored64Agrees, Zenon
  <2>3. Agrees(n, s)
    BY <2>1, <2>2
  <2> QED  BY <1>2, <1>3, <1>5, <2>3, AgreesIsNear DEF Fine
<1>6. CASE ~zero /\ tested
  <2>1. n = EmitInternalException(m, "TXT_DIVIDE_OVERFLOW") /\ s = SetVar64(t, i.a, r)
    BY <1>1, <1>2, <1>6, Zenon
  <2>2. \E y : s = SetVar64(t, i.a, y)
    BY <2>1
  <2>3. Near(i, n, s) /\ n.vr = s.vr /\ n.exc = "TXT_DIVIDE_OVERFLOW"
    BY <2>1, <2>2, NearRaised
  <2>4. s.exc = "none"
    <3>1. DOMAIN t = Fields
      BY DEF Ready, Mirror
    <3> QED  BY <2>1, <3>1, SetVar64Fields DEF SameRegisters
  <2> QED  BY <1>2, <1>3, <1>6, <2>3, <2>4 DEF Fine
<1>7. CASE ~zero /\ over
  <2>1. n = [m EXCEPT !.exc = "undefined behaviour"]
        /\ s = SetInternalException(t, "TXT_DIVIDE_OVERFLOW")
    BY <1>1, <1>2, <1>7, Zenon
  <2>2. IsMachine(m) /\ DOMAIN m = Fields /\ DOMAIN t = Fields /\ t.mem = View(m)
        /\ SameRegisters(m, t) /\ m.local = FALSE
    BY DEF Ready, Mirror
  <2>3. /\ n.mem = m.mem /\ n.reg = m.reg /\ n.vr = m.vr /\ n.sp = m.sp
        /\ n.object = m.object /\ n.local = FALSE /\ n.exc = "undefined behaviour"
        /\ DOMAIN n = Fields
    BY <2>1, <2>2, Zenon DEF Fields
  <2>4. View(n) = View(m)
    BY <2>2, <2>3, SameView, Zenon
  <2>5. s.mem = t.mem /\ s.vr = t.vr /\ s.sp = t.sp /\ s.object = t.object
        /\ s.exc = "TXT_DIVIDE_OVERFLOW"
    BY <2>1, <2>2, Zenon DEF SetInternalException, Fields
  <2>6. Near(i, n, s) /\ n.vr = s.vr
    BY <2>2, <2>3, <2>4, <2>5, Zenon DEF Near, Off, SameRegisters
  <2> QED  BY <1>2, <1>3, <1>7, <2>3, <2>5, <2>6, Zenon DEF Fine
<1> QED  BY <1>4, <1>5, <1>6, <1>7

-----------------------------------------------------------------------------
\* A count of a word or more shifts a different amount.
LEMMA ShiftOutcome ==
  ASSUME NEW i, NEW m, NEW t, Ready(i, m, t), i.op \in Shift64Ops
  PROVE  /\ Fine(i, EmitNumeric(i, m), Interpret(i, t))
         /\ EmitNumeric(i, m).exc = Interpret(i, t).exc
         /\ LoadVar(m, i.c) < WordBits => Agrees(EmitNumeric(i, m), Interpret(i, t))
<1>1. PICK x \in Word, u \in Word :
        LoadVar64(m, i.b) = <<x, u>> /\ Var64(t, i.b) = Quad(x, u)
  BY ReadyWords
<1>2. PICK c \in Word, v \in Word : LoadVar(m, i.c) = c /\ Var(t, i.c) = c
  BY ReadyWords
<1>3. PICK d : d = c % WordBits
  OBVIOUS
<1>4. PICK p : p = CASE i.op = "BSLL64" ->
               <<ShiftLeft(x, d, WordBits), HighHalf(ShiftLeft(Quad(x, u), d, QuadBits))>>
          [] i.op = "BSRL64" ->
               <<LowHalf(ShiftRight(Quad(x, u), d)), ShiftRight(u, d)>>
          [] i.op = "BSRA64" ->
               <<LowHalf(ShiftRight(Quad(x, u), d)), ShiftArithmetic(u, d, WordBits)>>
  BY Zenon
<1>5. PICK y : y = CASE i.op = "BSLL64" -> ShiftLeft(Quad(x, u), c, QuadBits)
                         [] i.op = "BSRL64" -> ShiftRight(Quad(x, u), c)
                         [] i.op = "BSRA64" -> ShiftArithmetic(Quad(x, u), c, QuadBits)
  OBVIOUS
<1>6. EmitNumeric(i, m) = StoreVar64(m, i.a, p)
  <2>1. EmitNumeric(i, m) = ShiftQuad(i, m)
    BY EmitterOfGroup
  <2>2. LoadVar64(m, i.b)[1] = x /\ LoadVar64(m, i.b)[2] = u
    BY <1>1
  <2> QED  BY <1>2, <1>3, <1>4, <2>1, <2>2 DEF ShiftQuad
<1>7. Interpret(i, t) = SetVar64(t, i.a, y)
  <2>1. Interpret(i, t) = Shift64(i, t)
    BY HelperOfGroup
  <2> QED  BY <1>1, <1>2, <1>5, <2>1 DEF Shift64
<1>8. ASSUME c < WordBits PROVE Agrees(EmitNumeric(i, m), Interpret(i, t))
  <2>1. c \in Nat /\ d = c /\ c <= WordBits
    <3>1. c \in Nat
      BY WordIsNat
    <3>2. WordBits \in Nat
      BY Sizes
    <3>3. c % WordBits = c
      BY <1>8, <3>1, <3>2
    <3> QED  BY <1>3, <1>8, <3>1, <3>2, <3>3
  <2>2. /\ Halves(ShiftLeft(Quad(x, u), c, QuadBits)) =
              <<ShiftLeft(x, c, WordBits), HighHalf(ShiftLeft(Quad(x, u), c, QuadBits))>>
         /\ Halves(ShiftRight(Quad(x, u), c)) =
              <<LowHalf(ShiftRight(Quad(x, u), c)), ShiftRight(u, c)>>
         /\ Halves(ShiftArithmetic(Quad(x, u), c, QuadBits)) =
              <<LowHalf(ShiftRight(Quad(x, u), c)), ShiftArithmetic(u, c, WordBits)>>
    BY <2>1, ShiftHalves
  <2>3. p = Halves(y)
    <3>1. CASE i.op = "BSLL64"
      BY <1>4, <1>5, <2>1, <2>2, <3>1
    <3>2. CASE i.op = "BSRL64"
      BY <1>4, <1>5, <2>1, <2>2, <3>2
    <3>3. CASE i.op = "BSRA64"
      BY <1>4, <1>5, <2>1, <2>2, <3>3
    <3> QED  BY <3>1, <3>2, <3>3 DEF Shift64Ops
  <2> QED  BY <1>6, <1>7, <2>3, QuadStored
<1>9. Near(i, StoreVar64(m, i.a, p), SetVar64(t, i.a, y))
      /\ StoreVar64(m, i.a, p).vr = SetVar64(t, i.a, y).vr
      /\ StoreVar64(m, i.a, p).exc = SetVar64(t, i.a, y).exc
  BY NearStored64
<1> QED  BY <1>2, <1>6, <1>7, <1>8, <1>9 DEF Fine

-----------------------------------------------------------------------------
\* ClrHi
LEMMA ClearRegisterOutcome ==
  ASSUME NEW i, NEW m, NEW t, Ready(i, m, t), i.op = "ClrHi"
  PROVE  /\ Fine(i, EmitNumeric(i, m), Interpret(i, t))
         /\ EmitNumeric(i, m).exc = Interpret(i, t).exc
<1>1. PICK x : x = <<Low(m.vr[1], ByteBits), 0>>
  BY Zenon
<1>2. PICK y : y = [t.vr EXCEPT ![1] = Low(@, ByteBits)]
  BY Zenon
<1>3. EmitNumeric(i, m) = [m EXCEPT !.vr = x]
  BY <1>1, EmitterOfGroup DEF ClearRegister
<1>4. Interpret(i, t) = [t EXCEPT !.vr = y]
  <2>1. Interpret(i, t) = ClearHigh(i, t)
    BY HelperOfGroup DEF ClearHighOps
  <2> QED  BY <1>2, <2>1 DEF ClearHigh
<1> QED  BY <1>3, <1>4, NearVr DEF Fine

\* Doubles with one half in a register, and the other in the frame.
LEMMA DoubleOutcome ==
  ASSUME NEW i, NEW m, NEW t, Ready(i, m, t),
         i.op \in {"ADDd", "SUBd", "MULd", "DIVd", "CMPd", "dTOf", "fTOd"}
  PROVE  /\ Fine(i, EmitNumeric(i, m), Interpret(i, t))
         /\ EmitNumeric(i, m).exc = Interpret(i, t).exc
<1>1. PICK n, s : n = EmitNumeric(i, m) /\ s = Interpret(i, t)
  OBVIOUS
<1>2. CASE i.op \in {"ADDd", "SUBd", "MULd", "DIVd"}
  <2>1. PICK y \in Word, v \in Word :
          LoadVar64(m, i.c) = <<y, v>> /\ Var64(t, i.c) = Quad(y, v)
    BY ReadyWords
  <2>2. PICK zero : zero = (i.op = "DIVd" /\ y = 0 /\ Low(v, WordBits - 1) = 0)
    OBVIOUS
  <2>3. zero = (i.op \in {"DIVd", "MODd"} /\ IsZero(Var64(t, i.c), QuadBits))
    BY <1>2, <2>1, <2>2, ZeroHalves
  <2>4. PICK q : q = FloatResult(i.op, Var64(t, i.b), Var64(t, i.c), QuadBits)
    OBVIOUS
  <2>5. s = IF zero THEN SetInternalException(t, "TXT_DIVIDE_BY_ZERO")
            ELSE SetVar64(t, i.a, q)
    <3>1. s = Double(i, t)
      BY <1>1, <1>2, HelperOfGroup DEF DoubleOps
    <3> QED  BY <2>3, <2>4, <3>1, Zenon DEF Double
  <2>6. CASE zero
    <3>1. n = EmitHelperCall(i, m)
      <4>1. n = DivideDouble(i, m)
        BY <1>1, <2>2, <2>6, EmitterOfGroup, Zenon
      <4>2. LoadVar64(m, i.c)[1] = y /\ LoadVar64(m, i.c)[2] = v
        BY <2>1
      <4> QED  BY <2>2, <2>6, <4>1, <4>2, Zenon DEF DivideDouble
    <3>2. i.op \in InterpretedOps
      BY <1>2 DEF InterpretedOps, DoubleOps
    <3>3. Agrees(n, s)
      BY <1>1, <3>1, <3>2, HelperMirrors, MirrorAgrees DEF Ready
    <3> QED  BY <1>1, <3>3, AgreesIsNear DEF Fine
  <2>7. CASE ~zero
    <3>1. n = DoubleArithmetic(i, m)
      <4>1. CASE i.op = "DIVd"
        <5>1. n = DivideDouble(i, m)
          BY <1>1, <4>1, EmitterOfGroup
        <5>2. LoadVar64(m, i.c)[1] = y /\ LoadVar64(m, i.c)[2] = v
          BY <2>1
        <5> QED  BY <2>2, <2>7, <4>1, <5>1, <5>2, Zenon DEF DivideDouble
      <4>2. CASE i.op # "DIVd"
        BY <1>1, <1>2, <4>2, EmitterOfGroup
      <4> QED  BY <4>1, <4>2
    <3>2. PICK r : n = StoreDouble(m, i.a, r)
      BY <3>1 DEF DoubleArithmetic
    <3>3. s = SetVar64(t, i.a, q)
      BY <2>5, <2>7
    <3> QED  BY <1>1, <3>2, <3>3, NearDouble DEF Fine
  <2> QED  BY <2>6, <2>7
<1>3. CASE i.op = "CMPd"
  <2>1. PICK r : n = SetResult(m, r)
    <3>1. n = CompareFloat(i, m)
      BY <1>1, <1>3, EmitterOfGroup
    <3> QED  BY <3>1 DEF CompareFloat
  <2>2. PICK q : s = SetResult(t, q)
    <3>1. s = CompareVariables(i, t)
      BY <1>1, <1>3, HelperOfGroup DEF CompareOps
    <3> QED  BY <3>1 DEF CompareVariables
  <2>3. PICK x, y : n = [m EXCEPT !.vr = x] /\ s = [t EXCEPT !.vr = y]
    <3>1. n = [m EXCEPT !.vr = [m.vr EXCEPT ![1] = Low(r, WordBits)]]
      BY <2>1 DEF SetResult
    <3>2. s = [t EXCEPT !.vr = [t.vr EXCEPT ![1] = Low(q, WordBits)]]
      BY <2>2 DEF SetResult
    <3> QED  BY <3>1, <3>2, Zenon
  <2> QED  BY <1>1, <1>3, <2>3, NearVr DEF Fine
<1>4. CASE i.op = "dTOf"
  <2>1. PICK r : n = StoreVar(m, i.a, r)
    <3>1. n = ConvertFloat(i, m)
      BY <1>1, <1>4, EmitterOfGroup
    <3> QED  BY <1>4, <3>1 DEF ConvertFloat, StoreFloatVar
  <2>2. PICK q : s = SetVar(t, i.a, q)
    <3>1. s = ConvertDouble(i, t)
      BY <1>1, <1>4, HelperOfGroup DEF ConvertDoubleOps
    <3> QED  BY <1>4, <3>1 DEF ConvertDouble
  <2> QED  BY <1>1, <2>1, <2>2, NearStored DEF Fine
<1>5. CASE i.op = "fTOd"
  <2>1. PICK r : n = StoreDouble(m, i.a, r)
    <3>1. n = ConvertFloat(i, m)
      BY <1>1, <1>5, EmitterOfGroup
    <3> QED  BY <1>5, <3>1 DEF ConvertFloat
  <2>2. PICK q : s = SetVar64(t, i.a, q)
    <3>1. s = ConvertDouble(i, t)
      BY <1>1, <1>5, HelperOfGroup DEF ConvertDoubleOps
    <3> QED  BY <1>5, <3>1 DEF ConvertDouble
  <2> QED  BY <1>1, <2>1, <2>2, NearDouble DEF Fine
<1> QED  BY <1>2, <1>3, <1>4, <1>5

-----------------------------------------------------------------------------
\* An exponent that is not known to be two is left to the helper.
LEMMA PowerAgrees ==
  ASSUME NEW i, NEW m, NEW t, Ready(i, m, t), i.op = "POWi", ~i.square
  PROVE  Agrees(EmitNumeric(i, m), Interpret(i, t))
<1>1. EmitNumeric(i, m) = EmitHelperCall(i, m)
  <2>1. EmitNumeric(i, m) = SquareOrPower(i, m)
    BY EmitterOfGroup
  <2> QED  BY <2>1 DEF SquareOrPower
<1>2. i.op \in InterpretedOps
  BY DEF InterpretedOps, PowerOps
<1> QED  BY <1>1, <1>2, HelperMirrors, MirrorAgrees DEF Ready

\* A square is the power, or overflows when the power does; as_powi may also
\* return zero for the smallest int.
LEMMA SquareOutcome ==
  ASSUME NEW i, NEW m, NEW t, Ready(i, m, t), i.op = "POWi", i.square,
         LoadVar(m, i.c) = 2
  PROVE  /\ Fine(i, EmitNumeric(i, m), Interpret(i, t))
         /\ EmitNumeric(i, m).exc = Interpret(i, t).exc
         /\ \/ EmitNumeric(i, m).exc = "TXT_POW_OVERFLOW"
            \/ Agrees(EmitNumeric(i, m), Interpret(i, t))
         /\ Fine(i, EmitNumeric(i, m), SetVar(t, i.a, 0))
<1>1. PICK x \in Word, u \in Word : LoadVar(m, i.b) = x /\ Var(t, i.b) = x
  BY ReadyWords
<1>2. Var(t, i.c) = 2
  BY DEF Ready
<1>3. PICK r : /\ r = PowerOf(Signed(x, WordBits), Signed(2, WordBits))
               /\ r.isOverflow <=>
                    (IF IsNegative(Half(-x), WordBits) THEN x ELSE Half(-x)) > MaxSquareBase
               /\ ~r.isOverflow => Half(x * x) = Low(r.value, WordBits)
  BY Squares
<1>4. PICK n, s, z : n = EmitNumeric(i, m) /\ s = Interpret(i, t) /\ z = SetVar(t, i.a, 0)
  OBVIOUS
<1>5. PICK magnitude : magnitude = IF IsNegative(Half(-x), WordBits) THEN x ELSE Half(-x)
  OBVIOUS
<1>6. n = IF magnitude > MaxSquareBase THEN EmitInternalException(m, "TXT_POW_OVERFLOW")
          ELSE StoreVar(m, i.a, Half(x * x))
  <2>1. n = SquareOrPower(i, m)
    BY <1>4, EmitterOfGroup
  <2> QED  BY <1>1, <1>5, <2>1 DEF SquareOrPower
<1>7. s = IF r.isOverflow THEN SetInternalException(SetVar(t, i.a, r.value), "TXT_POW_OVERFLOW")
          ELSE SetVar(t, i.a, r.value)
  <2>1. s = RaiseToPower(i, t)
    BY <1>4, HelperOfGroup DEF PowerOps
  <2> QED  BY <1>1, <1>2, <1>3, <2>1 DEF RaiseToPower
<1>8. CASE magnitude > MaxSquareBase
  <2>1. n = EmitInternalException(m, "TXT_POW_OVERFLOW")
    BY <1>6, <1>8
  <2>2. s = SetInternalException(SetVar(t, i.a, r.value), "TXT_POW_OVERFLOW")
    BY <1>3, <1>5, <1>7, <1>8
  <2>3. Near(i, n, s) /\ n.vr = s.vr /\ n.exc = "TXT_POW_OVERFLOW"
    <3>1. \E y, w : s = SetInternalException(SetVar(t, i.a, y), w)
      BY <2>2
    <3> QED  BY <2>1, <3>1, NearRaised
  <2>4. Near(i, n, z) /\ n.vr = z.vr
    <3>1. \E y : z = SetVar(t, i.a, y)
      BY <1>4
    <3> QED  BY <2>1, <3>1, NearRaised
  <2>5. s.exc = "TXT_POW_OVERFLOW"
    <3>1. PICK k : k = SetVar(t, i.a, r.value)
      OBVIOUS
    <3>2. DOMAIN k = Fields
      <4>1. DOMAIN t = Fields
        BY DEF Ready, Mirror
      <4> QED  BY <3>1, <4>1, SetVarFields
    <3> QED  BY <2>2, <3>1, <3>2 DEF SetInternalException, Fields
  <2> QED  BY <1>4, <2>3, <2>4, <2>5 DEF Fine
<1>9. CASE ~(magnitude > MaxSquareBase)
  <2>1. n = StoreVar(m, i.a, Half(x * x)) /\ s = SetVar(t, i.a, r.value)
    BY <1>3, <1>5, <1>6, <1>7, <1>9
  <2>2. Half(x * x) = Low(r.value, WordBits)
    BY <1>3, <1>5, <1>9
  <2>3. Agrees(n, s)
    BY <2>1, <2>2, WordStored
  <2>4. Near(i, n, z) /\ n.vr = z.vr
    BY <1>4, <2>1, NearStored
  <2> QED  BY <1>4, <2>3, <2>4, AgreesIsNear DEF Fine
<1> QED  BY <1>8, <1>9

\* A number rounded to the single format.
LEMMA RoundedIs ==
  ASSUME NEW a \in Nat, NEW d \in {4, 8}, NEW Q \in Nat, Q >= 1, d * Q <= a, a < d * (2 * Q)
  PROVE  RoundHalfEven(a, d) \in Nat /\ Q <= RoundHalfEven(a, d) /\ RoundHalfEven(a, d) <= 2 * Q
<1>1. PICK k \in Int, j \in 0..d - 1 : a = d * k + j /\ a \div d = k /\ a % d = j
  <2>1. d \in Nat /\ d > 0
    OBVIOUS
  <2>2. a = d * (a \div d) + (a % d) /\ a % d \in 0..d - 1 /\ a \div d \in Int
    BY <2>1, DivideAgain
  <2> QED  BY <2>2
<1>2. Q <= k /\ k <= 2 * Q - 1
  <2>1. CASE d = 4
    BY <1>1, <2>1
  <2>2. CASE d = 8
    BY <1>1, <2>2
  <2> QED  BY <2>1, <2>2
<1>3. RoundHalfEven(a, d) = k \/ RoundHalfEven(a, d) = k + 1
  BY <1>1 DEF RoundHalfEven
<1> QED  BY <1>2, <1>3

\* An exact multiple is not rounded.
LEMMA ExactIs ==
  ASSUME NEW q \in Nat, NEW d \in {8, 16}
  PROVE  RoundHalfEven(d * q, d) = q
<1>1. d * q = d * q + 0 /\ 0 \in 0..d - 1 /\ d \in Nat /\ d > 0
  OBVIOUS
<1>2. d * q \in Int
  OBVIOUS
<1>3. PICK a \in Int : a = d * q
  BY <1>2
<1>4. a % d = 0 /\ a \div d = q
  <2>1. a = d * q + 0
    BY <1>3
  <2> QED  BY <1>1, <2>1, DivideOnce
<1> QED  BY <1>3, <1>4 DEF RoundHalfEven

\* Twice the number that a half with W - 1 bits is converted to.
LEMMA DoubledFloat ==
  ASSUME NEW Q \in Nat, Q = Bits(WordBits - 4), Q >= 1, NEW r \in Nat, Q <= r, r <= 2 * Q,
         NEW f, f = 2 * Q + r
  PROVE  SumOf(f, f, WordBits) = 3 * Q + r
<1>1. /\ Bits(WordBits - 3) = 2 * Q /\ Bits(WordBits - 2) = 4 * Q
      /\ Bits(WordBits - 1) = 8 * Q /\ Bits(WordBits) = 16 * Q /\ Bits(WordBits + 1) = 32 * Q
      /\ InfinityCode(WordBits) = 7 * Q /\ Mantissa(WordBits) = WordBits - 4
      /\ WordBits \in Nat /\ WordBits >= 8
  BY SingleFormat
<1>2. f \in 0..8 * Q - 1 /\ f < 7 * Q /\ f \in Nat
  OBVIOUS
<1>3. Code(f, WordBits) = f /\ ~IsNegative(f, WordBits)
  <2>1. WordBits - 1 \in Nat /\ f \in 0..Bits(WordBits - 1) - 1
    BY <1>1, <1>2
  <2>2. Low(f, WordBits - 1) = f
    BY <2>1, LowKeeps
  <2> QED  BY <1>1, <1>2, <2>2 DEF Code, IsNegative
<1>4. IsFinite(f, WordBits)
  BY <1>1, <1>2, <1>3 DEF IsFinite
<1>5. Value(f, WordBits) = 4 * r
  <2>1. CASE r < 2 * Q
    <3>1. f = Q * 3 + (r - Q) /\ r - Q \in 0..Q - 1
      BY <2>1
    <3>2. f \div Q = 3 /\ f % Q = r - Q
      BY <1>2, <3>1, DivideOnce
    <3>3. Bits(3 - 1) = 4
      BY SmallBits
    <3> QED  BY <1>1, <1>3, <3>2, <3>3 DEF Value
  <2>2. CASE r = 2 * Q
    <3>1. f = Q * 4 + 0 /\ 0 \in 0..Q - 1
      BY <2>2
    <3>2. f \div Q = 4 /\ f % Q = 0
      BY <1>2, <3>1, DivideOnce
    <3>3. Bits(4 - 1) = 8
      BY SmallBits
    <3>4. PICK e, g : e = f \div Q /\ g = f % Q
      OBVIOUS
    <3>5. Value(f, WordBits) = IF e = 0 THEN g ELSE (Q + g) * Bits(e - 1)
      BY <1>1, <1>3, <3>4 DEF Value
    <3>6. e = 4 /\ g = 0 /\ Bits(e - 1) = 8
      BY <3>2, <3>3, <3>4
    <3>7. Value(f, WordBits) = (Q + 0) * 8
      BY <3>5, <3>6
    <3> QED  BY <2>2, <3>7
  <2> QED  BY <2>1, <2>2
<1>6. PICK a \in Nat : a = 8 * r /\ a = 4 * r + 4 * r
  OBVIOUS
<1>7. SumOf(f, f, WordBits) = Nearest(a, WordBits)
  BY <1>4, <1>5, <1>6 DEF SumOf
<1>8. CASE r < 2 * Q
  <2>1. RoundHalfEven(a, 8) = r
    BY <1>6, ExactIs
  <2>2. Bits(3) = 8
    BY SmallBits
  <2>3. PICK c : c = 3 * Bits(WordBits - 4) + RoundHalfEven(a, Bits(3))
    OBVIOUS
  <2>4. c = 3 * Q + r
    BY <2>1, <2>2, <2>3
  <2>5. Bits(WordBits - 4 + 3) = 8 * Q /\ Bits(WordBits - 3 + 3) = 16 * Q
    <3>1. WordBits - 4 + 3 = WordBits - 1 /\ WordBits - 3 + 3 = WordBits
      BY <1>1
    <3> QED  BY <1>1, <3>1
  <2>6. Bits(WordBits - 4 + 3) <= a /\ a < Bits(WordBits - 3 + 3)
        /\ c \in Nat /\ c <= InfinityCode(WordBits)
    BY <1>1, <1>6, <1>8, <2>4, <2>5
  <2>7. Nearest(a, WordBits) = c
    BY <2>3, <2>6, NearestOf
  <2> QED  BY <1>7, <2>4, <2>7
<1>9. CASE r = 2 * Q
  <2>1. RoundHalfEven(a, 16) = Q
    <3>1. a = 16 * Q
      BY <1>6, <1>9
    <3> QED  BY <3>1, ExactIs
  <2>2. Bits(4) = 16
    BY SmallBits
  <2>3. PICK c : c = 4 * Bits(WordBits - 4) + RoundHalfEven(a, Bits(4))
    OBVIOUS
  <2>4. c = 3 * Q + r
    BY <1>9, <2>1, <2>2, <2>3
  <2>5. Bits(WordBits - 4 + 4) = 16 * Q /\ Bits(WordBits - 3 + 4) = 32 * Q
    <3>1. WordBits - 4 + 4 = WordBits /\ WordBits - 3 + 4 = WordBits + 1
      BY <1>1
    <3> QED  BY <1>1, <3>1
  <2>6. Bits(WordBits - 4 + 4) <= a /\ a < Bits(WordBits - 3 + 4)
        /\ c \in Nat /\ c <= InfinityCode(WordBits)
    BY <1>1, <1>6, <1>9, <2>4, <2>5
  <2>7. Nearest(a, WordBits) = c
    BY <2>3, <2>6, NearestOf
  <2> QED  BY <1>7, <2>4, <2>7
<1> QED  BY <1>8, <1>9

\* The half, one bit kept, converted and doubled is the whole converted.
LEMMA HalfDoubled ==
  ASSUME NEW x \in Nat, Bits(WordBits - 1) <= x, x < Bits(WordBits),
         NEW g \in Nat, NEW b \in {0, 1}, x = 2 * g + b
  PROVE  \E h : /\ h = IF g % 2 = 1 \/ b = 0 THEN g ELSE g + 1
                /\ SumOf(Nearest(h, WordBits), Nearest(h, WordBits), WordBits)
                     = Nearest(x, WordBits)
<1>0. PICK h : h = IF g % 2 = 1 \/ b = 0 THEN g ELSE g + 1
  OBVIOUS
<1>1. PICK Q \in Nat :
        /\ Q = Bits(WordBits - 4) /\ Q >= 1
        /\ Bits(WordBits - 3) = 2 * Q /\ Bits(WordBits - 2) = 4 * Q
        /\ Bits(WordBits - 1) = 8 * Q /\ Bits(WordBits) = 16 * Q
        /\ InfinityCode(WordBits) = 7 * Q
        /\ WordBits \in Nat /\ WordBits >= 8
  BY SingleFormat, Zenon
<1>2. 8 * Q <= x /\ x < 16 * Q
  BY <1>1
<1>5. h \in Nat /\ 4 * Q <= h /\ h < 8 * Q
  <2>1. 4 * Q <= g /\ g < 8 * Q
    BY <1>2
  <2>2. CASE g % 2 = 1 \/ b = 0
    BY <1>0, <2>1, <2>2
  <2>3. CASE ~(g % 2 = 1 \/ b = 0)
    <3>1. h = g + 1
      BY <1>0, <2>3
    <3>2. g # 8 * Q - 1
      <4> SUFFICES ASSUME g = 8 * Q - 1 PROVE FALSE
        OBVIOUS
      <4>1. g = 2 * (4 * Q - 1) + 1 /\ 1 \in 0..2 - 1 /\ 4 * Q - 1 \in Int
        OBVIOUS
      <4>2. g % 2 = 1
        BY <4>1, DivideOnce
      <4> QED  BY <2>3, <4>2
    <3> QED  BY <2>1, <3>1, <3>2
  <2> QED  BY <2>2, <2>3
<1>6. PICK r \in Nat : r = RoundHalfEven(x, 8) /\ r = RoundHalfEven(h, 4) /\ Q <= r /\ r <= 2 * Q
  <2>1. RoundHalfEven(x, 8) = RoundHalfEven(h, 4)
    BY <1>0, <1>2, HalvedRounds
  <2>2. 8 * Q <= x /\ x < 8 * (2 * Q)
    BY <1>2
  <2>3. RoundHalfEven(x, 8) \in Nat /\ Q <= RoundHalfEven(x, 8) /\ RoundHalfEven(x, 8) <= 2 * Q
    BY <1>1, <1>2, <2>2, RoundedIs
  <2> QED  BY <2>1, <2>3
<1>7. Nearest(x, WordBits) = 3 * Q + r
  <2>2. Bits(3) = 8
    BY SmallBits
  <2>3. PICK c : c = 3 * Bits(WordBits - 4) + RoundHalfEven(x, Bits(3))
    OBVIOUS
  <2>4. c = 3 * Q + r
    BY <1>1, <1>6, <2>2, <2>3
  <2>5. Bits(WordBits - 4 + 3) = 8 * Q /\ Bits(WordBits - 3 + 3) = 16 * Q
    <3>1. WordBits - 4 + 3 = WordBits - 1 /\ WordBits - 3 + 3 = WordBits
      BY <1>1
    <3> QED  BY <1>1, <3>1
  <2>6. Bits(WordBits - 4 + 3) <= x /\ x < Bits(WordBits - 3 + 3)
        /\ c \in Nat /\ c <= InfinityCode(WordBits)
    <3>1. c \in Nat /\ c <= 7 * Q
      BY <1>6, <2>4
    <3> QED  BY <1>1, <1>2, <2>5, <3>1
  <2>7. Nearest(x, WordBits) = c
    BY <1>2, <2>3, <2>6, NearestOf
  <2> QED  BY <2>4, <2>7
<1>8. Nearest(h, WordBits) = 2 * Q + r
  <2>2. Bits(2) = 4
    BY SmallBits
  <2>3. PICK c : c = 2 * Bits(WordBits - 4) + RoundHalfEven(h, Bits(2))
    OBVIOUS
  <2>4. c = 2 * Q + r
    BY <1>1, <1>6, <2>2, <2>3
  <2>5. Bits(WordBits - 4 + 2) = 4 * Q /\ Bits(WordBits - 3 + 2) = 8 * Q
    <3>1. WordBits - 4 + 2 = WordBits - 2 /\ WordBits - 3 + 2 = WordBits - 1
      BY <1>1
    <3> QED  BY <1>1, <3>1
  <2>6. Bits(WordBits - 4 + 2) <= h /\ h < Bits(WordBits - 3 + 2)
        /\ c \in Nat /\ c <= InfinityCode(WordBits)
    <3>1. c \in Nat /\ c <= 7 * Q
      BY <1>6, <2>4
    <3> QED  BY <1>1, <1>5, <2>5, <3>1
  <2>7. Nearest(h, WordBits) = c
    BY <1>5, <2>3, <2>6, NearestOf
  <2> QED  BY <2>4, <2>7
<1>9. PICK f : f = 2 * Q + r
  OBVIOUS
<1>10. SumOf(f, f, WordBits) = 3 * Q + r
  BY <1>1, <1>6, <1>9, DoubledFloat
<1> QED  BY <1>0, <1>7, <1>8, <1>9, <1>10

\* So the code for large unsigned words converts them as the helper does.
LEMMA HalvedAndDoubled ==
  ASSUME NEW x \in Word, IsNegative(x, WordBits)
  PROVE  \E h : /\ h = Or(ShiftRight(x, 1), And(x, 1, WordBits), WordBits)
                /\ SumOf(Nearest(h, WordBits), Nearest(h, WordBits), WordBits)
                     = Nearest(x, WordBits)
<1>1. PICK Q \in Nat : Bits(WordBits - 1) = 8 * Q /\ Bits(WordBits) = 16 * Q
                       /\ Word = 0..16 * Q - 1
  BY SingleFormat, Zenon
<1>2. x \in Nat /\ Bits(WordBits - 1) <= x /\ x < Bits(WordBits)
  BY <1>1 DEF IsNegative
<1>3. PICK g \in Nat, b \in {0, 1} : /\ g = x \div 2 /\ b = BitAt(x, 0) /\ x = 2 * g + b
  <2>1. x = 2 * (x \div 2) + BitAt(x, 0) /\ x \div 2 \in Nat /\ BitAt(x, 0) \in {0, 1}
    BY <1>2, BitAtOf
  <2> QED  BY <2>1
<1>4. g \in Word
  <2>1. x < 16 * Q /\ x = 2 * g + b
    BY <1>1, <1>2, <1>3
  <2>2. g < 16 * Q
    BY <2>1
  <2> QED  BY <1>1, <2>2
<1>5. ShiftRight(x, 1) = g /\ And(x, 1, WordBits) = b
  BY <1>3, AndOne, SmallBits DEF ShiftRight
<1>6. Or(g, b, WordBits) = IF g % 2 = 1 \/ b = 0 THEN g ELSE g + 1
  BY <1>4, OrBit
<1>7. PICK h : /\ h = IF g % 2 = 1 \/ b = 0 THEN g ELSE g + 1
               /\ SumOf(Nearest(h, WordBits), Nearest(h, WordBits), WordBits)
                    = Nearest(x, WordBits)
  <2>1. x \in Nat /\ Bits(WordBits - 1) <= x /\ x < Bits(WordBits)
    BY <1>2
  <2>2. g \in Nat /\ b \in {0, 1} /\ x = 2 * g + b
    BY <1>3
  <2> QED  BY <2>1, <2>2, HalfDoubled
<1> QED  BY <1>5, <1>6, <1>7

\* uTOf: an unsigned word with its top bit set is halved, the bit that is
\* shifted out kept, converted and doubled (asBC_uTOf in numeric.cpp); it
\* rounds as the direct conversion does.
THEOREM UnsignedToFloatAgrees ==
  ASSUME NEW i, NEW m, NEW t, Ready(i, m, t), i.op = "uTOf"
  PROVE  Agrees(EmitNumeric(i, m), Interpret(i, t))
<1>1. PICK x \in Word, u \in Word : LoadVar(m, i.a) = x /\ Var(t, i.a) = x
  BY ReadyWords
<1>2. PICK h : h = Or(ShiftRight(x, 1), And(x, 1, WordBits), WordBits)
  OBVIOUS
<1>3. PICK r : r = IF IsNegative(x, WordBits)
                   THEN SumOf(Nearest(h, WordBits), Nearest(h, WordBits), WordBits)
                   ELSE Nearest(x, WordBits)
  OBVIOUS
<1>4. EmitNumeric(i, m) = StoreVar(m, i.a, Half(r))
  <2>1. EmitNumeric(i, m) = UnsignedToFloat(i, m)
    BY EmitterOfGroup
  <2> QED  BY <1>1, <1>2, <1>3, <2>1 DEF UnsignedToFloat, StoreFloatVar
<1>5. r = Nearest(x, WordBits)
  BY <1>2, <1>3, HalvedAndDoubled
<1>6. Interpret(i, t) = SetVar(t, i.a, r)
  <2>1. Interpret(i, t) = Convert(i, t)
    BY HelperOfGroup DEF ConvertOps
  <2>2. Interpret(i, t) = SetVar(t, i.a, Nearest(x, WordBits))
    BY <1>1, <2>1 DEF Convert
  <2> QED  BY <1>5, <2>2
<1> QED  BY <1>4, <1>6, WordStored DEF Half

-----------------------------------------------------------------------------
(* Every instruction                                                       *)

SplitOps == {"ADDd", "SUBd", "MULd", "DIVd", "CMPd", "dTOf", "fTOd"}
SpecialOps == Divide64Ops \union Shift64Ops \union SplitOps \union {"ClrHi", "POWi"}

\* The doubles an instruction names.
DoublesOf(i) ==
  CASE i.op \in DoubleOps -> {i.a, i.b, i.c}
    [] i.op = "CMPd" -> {i.a, i.b}
    [] i.op = "dTOf" -> {i.b}
    [] i.op = "fTOd" -> {i.a}
    [] OTHER -> {}

Smallest(i, m) ==
  i.op = "POWi" /\ i.square /\ LoadVar(m, i.b) = MinSigned(WordBits)

\* What the two runs of an instruction come to.
Outcome(i, m, n, s) ==
  /\ Fine(i, n, s)
  /\ Smallest(i, m) \/ (n.exc # s.exc <=> Missed(i, Interpreted(m)))
  /\ \/ Agrees(n, s)
     \/ Missed(i, Interpreted(m))
     \/ i.op \in Shift64Ops /\ ~(LoadVar(m, i.c) < WordBits)
     \/ m.sse /\ \E o \in DoublesOf(i) : IsSplit(m, o)
     \/ i.op = "POWi" /\ n.exc = "TXT_POW_OVERFLOW"
     \/ Smallest(i, m)
     \/ i.op = "ClrHi"

\* Every numeric instruction that is not special agrees in every state.
LEMMA PlainNumericAgrees ==
  ASSUME NEW i, NEW m, NEW t, Ready(i, m, t), i.op \in NumericOps \ SpecialOps
  PROVE  Agrees(EmitNumeric(i, m), Interpret(i, t))
<1>1. CASE i.op \in IntegerOps
  BY <1>1, AddSubMulAgrees
<1>2. CASE i.op \in IntegerImmediateOps
  BY <1>2, ImmediateAgrees
<1>3. CASE i.op \in FloatImmediateOps
  BY <1>3, FloatImmediateAgrees
<1>4. CASE i.op \in FloatOps
  BY <1>4, FloatAgrees, FloatRemainderAgrees
<1>5. CASE i.op \in BitOps \ {"BNOT"}
  BY <1>5, BitsAgree
<1>6. CASE i.op \in {"NEGi", "BNOT", "NOT"}
  BY <1>6, UnaryAgrees
<1>7. CASE i.op \in StepVariableOps
  BY <1>7, StepLocalAgrees
<1>8. CASE i.op \in {"NEGf", "NEGd"}
  BY <1>8, NegateFloatAgrees, NegateDoubleAgrees
<1>9. CASE i.op \in {"NEGi64", "BNOT64", "uTOi64", "iTOi64", "i64TOi"}
  BY <1>9, Quads64Agree
<1>10. CASE i.op \in Integer64Ops
  BY <1>10, Integers64Agree
<1>11. CASE i.op \in Bit64Ops
  BY <1>11, Bits64Agree
<1>12. CASE i.op \in {"iTOf", "fTOi", "fTOu"}
  BY <1>12, WordConversionsAgree
<1>13. CASE i.op \in {"iTOd", "dTOi"}
  BY <1>13, IntDoubleConversionsAgree
<1>14. CASE i.op = "uTOf"
  BY <1>14, UnsignedToFloatAgrees
<1>15. CASE i.op \in TestOps
  BY <1>15, TestsAgree
<1>16. CASE i.op \in {"CMPi", "CMPIi", "CMPu", "CMPIu", "CmpPtr"}
  BY <1>16, ComparesAgree
<1>17. CASE i.op \in {"CMPf", "CMPIf"}
  BY <1>17, FloatComparesAgree, Zenon
<1>18. CASE i.op \in Compare64Ops
  BY <1>18, Compares64Agree
<1>19. CASE i.op \in DivideOps
  BY <1>19, DivideIntAgrees
<1>20. CASE i.op \in DivideUnsignedOps
  BY <1>20, DivideUintAgrees
<1>21. CASE i.op \in DivideUnsigned64Ops
  BY <1>21, DivideUnsignedQuadAgrees
<1>22. i.op \in IntegerOps \union IntegerImmediateOps \union FloatImmediateOps
           \union FloatOps \union (BitOps \ {"BNOT"}) \union {"NEGi", "BNOT", "NOT"}
           \union StepVariableOps \union {"NEGf", "NEGd"}
           \union {"NEGi64", "BNOT64", "uTOi64", "iTOi64", "i64TOi"}
           \union Integer64Ops \union Bit64Ops \union {"iTOf", "fTOi", "fTOu"}
           \union {"iTOd", "dTOi"} \union {"uTOf"} \union TestOps
           \union {"CMPi", "CMPIi", "CMPu", "CMPIu", "CmpPtr"} \union {"CMPf", "CMPIf"}
           \union Compare64Ops \union DivideOps \union DivideUnsignedOps
           \union DivideUnsigned64Ops
  BY DEF NumericOps, SpecialOps, SplitOps, NegateOps, BitOps, DoubleOps, CompareOps,
     ClearHighOps
<1> QED  BY <1>1, <1>2, <1>3, <1>4, <1>5, <1>6, <1>7, <1>8, <1>9, <1>10, <1>11, <1>12, <1>13,
            <1>14, <1>15, <1>16, <1>17, <1>18, <1>19, <1>20, <1>21, <1>22

\* Agreement is a known outcome.
LEMMA AgreesOutcome ==
  ASSUME NEW i, NEW m, NEW n, NEW s, Agrees(n, s), i.op \notin Divide64Ops
  PROVE  Outcome(i, m, n, s)
BY AgreesIsNear DEF Outcome, Fine, Missed

\* So is what comes of a double with its halves apart, and it agrees when
\* they are not.
LEMMA DoublesOutcome ==
  ASSUME NEW i, NEW m, IsMachineState(m), Ready(i, m, Interpreted(m)), i.op \in SplitOps
  PROVE  Outcome(i, m, EmitNumeric(i, m), Interpret(i, Interpreted(m)))
<1>1. PICK t : t = Interpreted(m)
  OBVIOUS
<1>2. Ready(i, m, t)
  BY <1>1
<1>3. i.op \notin Divide64Ops
  BY DEF SplitOps, Divide64Ops
<1>4. CASE Whole(m, DoublesOf(i))
  <2>1. Agrees(EmitNumeric(i, m), Interpret(i, t))
    <3>1. CASE i.op \in {"ADDd", "SUBd", "MULd", "DIVd"}
      <4>1. Whole(m, {i.a, i.b, i.c}) /\ i.op \in DoubleOps \ {"MODd"}
        BY <1>4, <3>1 DEF DoublesOf, DoubleOps
      <4> QED  BY <1>2, <4>1, DoublesAgree
    <3>2. CASE i.op = "CMPd"
      <4>1. Whole(m, {i.a, i.b})
        BY <1>4, <3>2 DEF DoublesOf, DoubleOps
      <4> QED  BY <1>2, <3>2, <4>1, FloatComparesAgree
    <3>3. CASE i.op = "dTOf"
      <4>1. Whole(m, {i.b})
        BY <1>4, <3>3 DEF DoublesOf, DoubleOps
      <4> QED  BY <1>2, <3>3, <4>1, DoubleConversionsAgree, Zenon
    <3>4. CASE i.op = "fTOd"
      <4>1. Whole(m, {i.a})
        BY <1>4, <3>4 DEF DoublesOf, DoubleOps
      <4> QED  BY <1>2, <3>4, <4>1, DoubleConversionsAgree, Zenon
    <3> QED  BY <3>1, <3>2, <3>3, <3>4 DEF SplitOps
  <2> QED  BY <1>1, <1>3, <2>1, AgreesOutcome
<1>5. CASE ~Whole(m, DoublesOf(i))
  <2>1. m.sse /\ \E o \in DoublesOf(i) : IsSplit(m, o)
    BY <1>5 DEF Whole
  <2>2. Fine(i, EmitNumeric(i, m), Interpret(i, t))
        /\ EmitNumeric(i, m).exc = Interpret(i, t).exc
    BY <1>2, DoubleOutcome DEF SplitOps
  <2> QED  BY <1>1, <1>3, <2>1, <2>2 DEF Outcome, Missed
<1> QED  BY <1>4, <1>5

\* A power agrees; a square is stored unless it overflows.
LEMMA PowerOutcome ==
  ASSUME NEW i, NEW m, IsMachineState(m), Ready(i, m, Interpreted(m)), i.op = "POWi",
         SquareKnown(i, m), NEW s \in Interpretations(i, Interpreted(m))
  PROVE  Outcome(i, m, EmitNumeric(i, m), s)
<1>1. PICK t : t = Interpreted(m)
  OBVIOUS
<1>2. Ready(i, m, t)
  BY <1>1
<1>3. i.op \notin Divide64Ops
  BY DEF Divide64Ops
<1>4. i.square \in BOOLEAN /\ (i.square => LoadVar(m, i.c) = 2)
  BY DEF SquareKnown
<1>5. LoadVar(m, i.b) = Var(t, i.b)
  BY <1>2 DEF Ready
<1>6. CASE ~i.square
  <2>1. s = Interpret(i, t)
    BY <1>1, <1>6 DEF Interpretations
  <2> QED  BY <1>2, <1>3, <1>6, <2>1, PowerAgrees, AgreesOutcome
<1>7. CASE i.square
  <2>1. /\ Fine(i, EmitNumeric(i, m), Interpret(i, t))
        /\ EmitNumeric(i, m).exc = Interpret(i, t).exc
        /\ \/ EmitNumeric(i, m).exc = "TXT_POW_OVERFLOW"
           \/ Agrees(EmitNumeric(i, m), Interpret(i, t))
        /\ Fine(i, EmitNumeric(i, m), SetVar(t, i.a, 0))
    BY <1>2, <1>4, <1>7, SquareOutcome
  <2>2. CASE s = Interpret(i, t)
    BY <1>1, <1>3, <2>1, <2>2 DEF Outcome, Missed
  <2>3. CASE s # Interpret(i, t)
    <3>1. s = SetVar(t, i.a, 0) /\ Smallest(i, m)
      BY <1>1, <1>5, <1>7, <2>3 DEF Interpretations, Smallest
    <3> QED  BY <2>1, <3>1 DEF Outcome
  <2> QED  BY <2>2, <2>3
<1> QED  BY <1>4, <1>6, <1>7

\* EmitNumeric does what the helpers of the numeric instructions do, or comes
\* to one of the known differences, which stay in the destination.
THEOREM NumericOutcome ==
  ASSUME NEW i, NEW m, IsMachineState(m), OperandsFit(i, m), SquareKnown(i, m),
         i.op \in NumericOps, NEW s \in Interpretations(i, Interpreted(m))
  PROVE  Outcome(i, m, EmitNumeric(i, m), s)
<1>1. PICK t : t = Interpreted(m)
  OBVIOUS
<1>2. Ready(i, m, t)
  BY <1>1, NumericIsReady
<1>3. t.exc = "none"
  BY <1>1, InterpretedFields, StateIsMachine, Zenon
<1>4. CASE i.op = "POWi"
  BY <1>1, <1>2, <1>4, PowerOutcome
<1>5. ASSUME i.op # "POWi" PROVE s = Interpret(i, t)
  BY <1>1, <1>5 DEF Interpretations
<1>6. CASE i.op \in SplitOps
  <2>1. i.op # "POWi"
    BY <1>6 DEF SplitOps
  <2> QED  BY <1>1, <1>2, <1>5, <1>6, <2>1, DoublesOutcome
<1>7. CASE i.op = "ClrHi"
  <2>1. s = Interpret(i, t) /\ i.op \notin Divide64Ops
    BY <1>5, <1>7 DEF Divide64Ops
  <2>2. Fine(i, EmitNumeric(i, m), s) /\ EmitNumeric(i, m).exc = s.exc
    BY <1>2, <1>7, <2>1, ClearRegisterOutcome
  <2> QED  BY <1>7, <2>1, <2>2 DEF Outcome, Missed
<1>8. CASE i.op \in Shift64Ops
  <2>1. s = Interpret(i, t) /\ i.op \notin Divide64Ops
    BY <1>5, <1>8 DEF Divide64Ops, Shift64Ops
  <2>2. /\ Fine(i, EmitNumeric(i, m), s) /\ EmitNumeric(i, m).exc = s.exc
        /\ LoadVar(m, i.c) < WordBits => Agrees(EmitNumeric(i, m), s)
    BY <1>2, <1>8, <2>1, ShiftOutcome
  <2> QED  BY <1>8, <2>1, <2>2 DEF Outcome, Missed
<1>9. CASE i.op \in Divide64Ops
  <2>1. s = Interpret(i, t)
    BY <1>5, <1>9 DEF Divide64Ops
  <2>2. /\ Fine(i, EmitNumeric(i, m), s)
        /\ EmitNumeric(i, m).exc # s.exc <=> Missed(i, t)
        /\ ~Missed(i, t) => Agrees(EmitNumeric(i, m), s)
    BY <1>2, <1>3, <1>9, <2>1, DivideQuadOutcome
  <2> QED  BY <1>1, <2>2 DEF Outcome
<1>10. CASE i.op \notin SpecialOps
  <2>1. s = Interpret(i, t) /\ i.op \notin Divide64Ops
    BY <1>5, <1>10 DEF SpecialOps
  <2>2. Agrees(EmitNumeric(i, m), Interpret(i, t))
    BY <1>2, <1>10, PlainNumericAgrees
  <2> QED  BY <2>1, <2>2, AgreesOutcome
<1> QED  BY <1>4, <1>6, <1>7, <1>8, <1>9, <1>10 DEF SpecialOps

\* A helper call does what the interpreter does.
LEMMA HelperOutcome ==
  ASSUME NEW i, NEW m, IsMachineState(m), i.op \in InterpretedOps \ NumericOps,
         NEW s \in Interpretations(i, Interpreted(m))
  PROVE  Outcome(i, m, EmitHelperCall(i, m), s)
<1>1. i.op # "POWi" /\ i.op \notin Divide64Ops
  BY DEF NumericOps
<1>2. s = Interpret(i, Interpreted(m))
  BY <1>1 DEF Interpretations
<1>3. Agrees(EmitHelperCall(i, m), s)
  BY <1>2, MirrorStart, HelperMirrors, MirrorAgrees
<1> QED  BY <1>1, <1>3, AgreesOutcome

\* The emitters of the other groups.
LEMMA OtherOutcome ==
  ASSUME NEW i, NEW m, IsMachineState(m), OperandsFit(i, m), AddressesFit(i, m),
         CachedApart(i, m), NEW s \in Interpretations(i, Interpreted(m))
  PROVE  /\ i.op \in StackOps => Outcome(i, m, EmitStack(i, m), s)
         /\ i.op \in ReferenceOps => Outcome(i, m, EmitReferences(i, m), s)
         /\ i.op \in MemoryOps => Outcome(i, m, EmitMemory(i, m), s)
<1>1. i.op \in StackOps => i.op \notin Divide64Ops /\ i.op # "POWi"
  BY DEF StackOps, Divide64Ops, PushOps, PushMoreOps, AddAddressOps
<1>2. i.op \in ReferenceOps => i.op \notin Divide64Ops /\ i.op # "POWi"
  BY DEF ReferenceOps, Divide64Ops, FreeOps, ObjectRegisterOps, ArgumentOps,
     ReferenceCopyOps, ReferenceCopyVariableOps, CastOps, CopyOps, ListOps
<1>3. i.op \in MemoryOps => i.op \notin Divide64Ops /\ i.op # "POWi"
  BY DEF MemoryOps, Divide64Ops, StepOps, ExtendOps, NarrowOps, FieldOps, IndirectOps,
     PropertyOps, LoadGlobalOps, SetGlobalOps, CopyVariableOps
<1>4. ASSUME i.op # "POWi" PROVE s = Interpret(i, Interpreted(m))
  BY <1>4 DEF Interpretations
<1>5. CASE i.op \in StackOps \union ReferenceOps \union MemoryOps
  <2>1. s = Interpret(i, Interpreted(m)) /\ i.op \notin Divide64Ops
    BY <1>1, <1>2, <1>3, <1>4, <1>5
  <2> QED  BY <2>1, StackAgrees, ReferencesAgree, MemoryAgrees, AgreesOutcome
<1> QED  BY <1>5

-----------------------------------------------------------------------------
(* Beside: two states that differ in the value register. What the analyses *)
(* list as preserving it leaves it alone, what they list as writing it     *)
(* writes the same.                                                        *)

\* Two states that differ in the value register and the exception only.
Beside(m, n) ==
  /\ DOMAIN m = Fields /\ DOMAIN n = Fields
  /\ m.mem = n.mem /\ m.sp = n.sp /\ m.object = n.object
  /\ 1 \in DOMAIN m.vr /\ 1 \in DOMAIN n.vr

\* r and s, made from m and n, have the same memory and their own registers.
Kept(m, n, r, s) == r.mem = s.mem /\ r.vr = m.vr /\ s.vr = n.vr

\* r and s have the same value register, unless r has failed.
Wrote(r, s) == r.exc = "none" => r.vr[1] = s.vr[1]

\* Beside states read the same.
LEMMA BesideRead ==
  ASSUME NEW m, NEW n, Beside(m, n)
  PROVE  /\ m.mem = n.mem /\ m.sp = n.sp /\ m.object = n.object
         /\ Top(m) = Top(n)
         /\ \A o : Var(m, o) = Var(n, o) /\ Var64(m, o) = Var64(n, o)
BY DEF Beside, Top, Var, Var64

\* What is stored in beside states leaves the memory the same and the
\* registers as they were.
LEMMA KeptSetVar ==
  ASSUME NEW m, NEW n, Beside(m, n), NEW o, NEW x
  PROVE  Kept(m, n, SetVar(m, o, x), SetVar(n, o, x))
<1>1. /\ SameRegisters(SetVar(m, o, x), m)
      /\ SetVar(m, o, x).mem = Put(m.mem, o, Low(x, WordBits))
      /\ SameRegisters(SetVar(n, o, x), n)
      /\ SetVar(n, o, x).mem = Put(n.mem, o, Low(x, WordBits))
  BY SetVarFields DEF Beside
<1> QED  BY <1>1 DEF Beside, Kept, SameRegisters

LEMMA KeptSetVar64 ==
  ASSUME NEW m, NEW n, Beside(m, n), NEW o, NEW x
  PROVE  Kept(m, n, SetVar64(m, o, x), SetVar64(n, o, x))
<1>1. /\ SameRegisters(SetVar64(m, o, x), m)
      /\ SetVar64(m, o, x).mem = Both(m.mem, o, Halves(x))
      /\ SameRegisters(SetVar64(n, o, x), n)
      /\ SetVar64(n, o, x).mem = Both(n.mem, o, Halves(x))
  BY SetVar64Fields DEF Beside
<1> QED  BY <1>1 DEF Beside, Kept, SameRegisters

LEMMA KeptWord ==
  ASSUME NEW m, NEW n, Beside(m, n), NEW at, NEW x
  PROVE  Kept(m, n, [m EXCEPT !.mem[at] = x], [n EXCEPT !.mem[at] = x])
<1>1. [m EXCEPT !.mem[at] = x] = [m EXCEPT !.mem = [m.mem EXCEPT ![at] = x]]
  OBVIOUS
<1>2. [n EXCEPT !.mem[at] = x] = [n EXCEPT !.mem = [n.mem EXCEPT ![at] = x]]
  OBVIOUS
<1>3. PICK f : f = [m.mem EXCEPT ![at] = x] /\ f = [n.mem EXCEPT ![at] = x]
  BY DEF Beside
<1>4. Kept(m, n, [m EXCEPT !.mem = f], [n EXCEPT !.mem = f])
  BY WithMem DEF Beside, Kept
<1> QED  BY <1>1, <1>2, <1>3, <1>4

LEMMA KeptPushed ==
  ASSUME NEW m, NEW n, Beside(m, n), NEW words
  PROVE  Kept(m, n, Pushed(m, words), Pushed(n, words))
<1>1. PICK k : k = Len(words)
  OBVIOUS
<1>2. PICK f : f = [a \in DOMAIN m.mem |->
                      IF a \in m.sp - k..m.sp - 1
                      THEN words[a - (m.sp - k) + 1] ELSE m.mem[a]]
  BY Zenon
<1>3. Pushed(m, words) = [[m EXCEPT !.sp = m.sp - k] EXCEPT !.mem = f]
  BY <1>1, <1>2 DEF Pushed
<1>4. Pushed(n, words) = [[n EXCEPT !.sp = m.sp - k] EXCEPT !.mem = f]
  BY <1>1, <1>2 DEF Pushed, Beside
<1>5. PICK p, q : p = [m EXCEPT !.sp = m.sp - k] /\ q = [n EXCEPT !.sp = m.sp - k]
  BY Zenon
<1>6. DOMAIN p = Fields /\ DOMAIN q = Fields /\ p.vr = m.vr /\ q.vr = n.vr
  BY <1>5 DEF Beside, Fields
<1>7. Kept(m, n, [p EXCEPT !.mem = f], [q EXCEPT !.mem = f])
  BY <1>6, WithMem DEF Kept
<1> QED  BY <1>3, <1>4, <1>5, <1>7

LEMMA KeptPopped ==
  ASSUME NEW m, NEW n, Beside(m, n)
  PROVE  Kept(m, n, Popped(m), Popped(n))
BY DEF Beside, Fields, Popped, Kept

\* A result written to the value register does not depend on what was in it.
LEMMA WroteResult ==
  ASSUME NEW m, NEW n, Beside(m, n), NEW x
  PROVE  /\ Wrote(SetResult(m, x), SetResult(n, x))
         /\ Wrote(Popped(SetResult(m, x)), Popped(SetResult(n, x)))
         /\ DOMAIN SetResult(m, x) = Fields /\ DOMAIN SetResult(n, x) = Fields
<1>1. PICK v, w : /\ v = [m.vr EXCEPT ![1] = Low(x, WordBits)]
                  /\ w = [n.vr EXCEPT ![1] = Low(x, WordBits)]
  BY Zenon
<1>2. v[1] = w[1]
  BY <1>1 DEF Beside
<1>3. SetResult(m, x) = [m EXCEPT !.vr = v] /\ SetResult(n, x) = [n EXCEPT !.vr = w]
  BY <1>1 DEF SetResult
<1>4. PICK p, q : p = [m EXCEPT !.vr = v] /\ q = [n EXCEPT !.vr = w]
  BY Zenon
<1>5. DOMAIN p = Fields /\ DOMAIN q = Fields /\ p.vr = v /\ q.vr = w
  BY <1>4 DEF Beside, Fields
<1>6. Popped(p).vr = v /\ Popped(q).vr = w
  BY <1>5 DEF Popped, Fields
<1> QED  BY <1>2, <1>3, <1>4, <1>5, <1>6 DEF Wrote

\* Storing in memory afterwards changes nothing about that.
LEMMA WroteThenSet ==
  ASSUME NEW r, NEW s, DOMAIN r = Fields, DOMAIN s = Fields, Wrote(r, s), NEW o, NEW x
  PROVE  Wrote(SetVar(r, o, x), SetVar(s, o, x))
BY SetVarFields DEF Wrote, SameRegisters

\* Nor does a null check before it, unless it fails.
LEMMA WroteOrFailed ==
  ASSUME NEW m, NEW n, Beside(m, n), NEW x, NEW r, NEW s, Wrote(r, s)
  PROVE  Wrote(NullCheck(m, x, r), NullCheck(n, x, s))
<1>1. CASE x = 0
  <2>1. NullCheck(m, x, r) = [m EXCEPT !.exc = "TXT_NULL_POINTER_ACCESS"]
    BY <1>1 DEF NullCheck, SetInternalException
  <2>2. NullCheck(m, x, r).exc = "TXT_NULL_POINTER_ACCESS"
    BY <2>1 DEF Beside, Fields
  <2> QED  BY <2>2 DEF Wrote
<1>2. CASE x # 0
  BY <1>2 DEF NullCheck
<1> QED  BY <1>1, <1>2

Ignores(op) ==
  PreservesValueRegister(op) /\ ~ReadsValueRegister32(op) /\ op # "CpyRtoV8"

\* The helpers of the listed instructions do the same to memory whatever the
\* value register holds, and leave it alone.
LEMMA NegateKeeps ==
  ASSUME NEW m, NEW n, Beside(m, n), NEW i, i.op \in NegateOps, Ignores(i.op)
  PROVE  Kept(m, n, Negate(i, m), Negate(i, n))
BY BesideRead, KeptSetVar, KeptSetVar64
   DEF Negate, NegateOps, Ignores, PreservesValueRegister, ReadsValueRegister32

LEMMA StepVariableKeeps ==
  ASSUME NEW m, NEW n, Beside(m, n), NEW i, i.op \in StepVariableOps, Ignores(i.op)
  PROVE  Kept(m, n, StepVariable(i, m), StepVariable(i, n))
BY BesideRead, KeptSetVar
   DEF StepVariable, StepVariableOps, Ignores, PreservesValueRegister, ReadsValueRegister32

LEMMA BitKeeps ==
  ASSUME NEW m, NEW n, Beside(m, n), NEW i, i.op \in BitOps, Ignores(i.op)
  PROVE  Kept(m, n, Bit(i, m), Bit(i, n))
BY BesideRead, KeptSetVar
   DEF Bit, BitOps, Ignores, PreservesValueRegister, ReadsValueRegister32

LEMMA ConvertKeeps ==
  ASSUME NEW m, NEW n, Beside(m, n), NEW i, i.op \in ConvertOps, Ignores(i.op)
  PROVE  Kept(m, n, Convert(i, m), Convert(i, n))
BY BesideRead, KeptSetVar
   DEF Convert, ConvertOps, Ignores, PreservesValueRegister, ReadsValueRegister32

LEMMA ExtendPartKeeps ==
  ASSUME NEW m, NEW n, Beside(m, n), NEW i, i.op \in ExtendOps, Ignores(i.op)
  PROVE  Kept(m, n, ExtendPart(i, m), ExtendPart(i, n))
BY BesideRead, KeptSetVar
   DEF ExtendPart, ExtendOps, Ignores, PreservesValueRegister, ReadsValueRegister32

LEMMA ConvertDoubleKeeps ==
  ASSUME NEW m, NEW n, Beside(m, n), NEW i, i.op \in ConvertDoubleOps, Ignores(i.op)
  PROVE  Kept(m, n, ConvertDouble(i, m), ConvertDouble(i, n))
BY BesideRead, KeptSetVar, KeptSetVar64
   DEF ConvertDouble, ConvertDoubleOps, Ignores, PreservesValueRegister, ReadsValueRegister32

LEMMA IntegerKeeps ==
  ASSUME NEW m, NEW n, Beside(m, n), NEW i, i.op \in IntegerOps, Ignores(i.op)
  PROVE  Kept(m, n, Integer(i, m), Integer(i, n))
BY BesideRead, KeptSetVar
   DEF Integer, IntegerOps, Ignores, PreservesValueRegister, ReadsValueRegister32

LEMMA FloatKeeps ==
  ASSUME NEW m, NEW n, Beside(m, n), NEW i, i.op \in FloatOps, Ignores(i.op)
  PROVE  Kept(m, n, Float(i, m), Float(i, n))
BY BesideRead, KeptSetVar
   DEF Float, FloatOps, Ignores, PreservesValueRegister, ReadsValueRegister32

LEMMA DoubleKeeps ==
  ASSUME NEW m, NEW n, Beside(m, n), NEW i, i.op \in DoubleOps, Ignores(i.op)
  PROVE  Kept(m, n, Double(i, m), Double(i, n))
BY BesideRead, KeptSetVar64
   DEF Double, DoubleOps, Ignores, PreservesValueRegister, ReadsValueRegister32

LEMMA IntegerImmediateKeeps ==
  ASSUME NEW m, NEW n, Beside(m, n), NEW i, i.op \in IntegerImmediateOps, Ignores(i.op)
  PROVE  Kept(m, n, IntegerImmediate(i, m), IntegerImmediate(i, n))
BY BesideRead, KeptSetVar
   DEF IntegerImmediate, IntegerImmediateOps, Ignores, PreservesValueRegister, ReadsValueRegister32

LEMMA FloatImmediateKeeps ==
  ASSUME NEW m, NEW n, Beside(m, n), NEW i, i.op \in FloatImmediateOps, Ignores(i.op)
  PROVE  Kept(m, n, FloatImmediate(i, m), FloatImmediate(i, n))
BY BesideRead, KeptSetVar
   DEF FloatImmediate, FloatImmediateOps, Ignores, PreservesValueRegister, ReadsValueRegister32

LEMMA SetGlobalKeeps ==
  ASSUME NEW m, NEW n, Beside(m, n), NEW i, i.op \in SetGlobalOps, Ignores(i.op)
  PROVE  Kept(m, n, SetGlobal(i, m), SetGlobal(i, n))
BY BesideRead, KeptWord
   DEF SetGlobal, SetGlobalOps, Ignores, PreservesValueRegister, ReadsValueRegister32

LEMMA NarrowKeeps ==
  ASSUME NEW m, NEW n, Beside(m, n), NEW i, i.op \in NarrowOps, Ignores(i.op)
  PROVE  Kept(m, n, Narrow(i, m), Narrow(i, n))
BY BesideRead, KeptSetVar
   DEF Narrow, NarrowOps, Ignores, PreservesValueRegister, ReadsValueRegister32

LEMMA Convert64Keeps ==
  ASSUME NEW m, NEW n, Beside(m, n), NEW i, i.op \in Convert64Ops, Ignores(i.op)
  PROVE  Kept(m, n, Convert64(i, m), Convert64(i, n))
BY BesideRead, KeptSetVar, KeptSetVar64
   DEF Convert64, Convert64Ops, Ignores, PreservesValueRegister, ReadsValueRegister32

LEMMA Unary64Keeps ==
  ASSUME NEW m, NEW n, Beside(m, n), NEW i, i.op \in Unary64Ops, Ignores(i.op)
  PROVE  Kept(m, n, Unary64(i, m), Unary64(i, n))
BY BesideRead, KeptSetVar64
   DEF Unary64, Unary64Ops, Ignores, PreservesValueRegister, ReadsValueRegister32

LEMMA Integer64Keeps ==
  ASSUME NEW m, NEW n, Beside(m, n), NEW i, i.op \in Integer64Ops, Ignores(i.op)
  PROVE  Kept(m, n, Integer64(i, m), Integer64(i, n))
BY BesideRead, KeptSetVar64
   DEF Integer64, Integer64Ops, Ignores, PreservesValueRegister, ReadsValueRegister32

LEMMA Bit64Keeps ==
  ASSUME NEW m, NEW n, Beside(m, n), NEW i, i.op \in Bit64Ops, Ignores(i.op)
  PROVE  Kept(m, n, Bit64(i, m), Bit64(i, n))
BY BesideRead, KeptSetVar64
   DEF Bit64, Bit64Ops, Ignores, PreservesValueRegister, ReadsValueRegister32

LEMMA PushKeeps ==
  ASSUME NEW m, NEW n, Beside(m, n), NEW i, i.op \in PushOps, Ignores(i.op)
  PROVE  Kept(m, n, Push(i, m), Push(i, n))
<1>1. CASE i.op # "SwapPtr"
  BY <1>1, BesideRead, KeptPushed, KeptPopped
     DEF Push, PushOps
<1>2. CASE i.op = "SwapPtr"
  <2>1. PICK f : f = [[m.mem EXCEPT ![m.sp] = m.mem[m.sp + 1]]
                        EXCEPT ![m.sp + 1] = m.mem[m.sp]]
    BY Zenon
  <2>2. Push(i, m) = [m EXCEPT !.mem = f]
    BY <1>2, <2>1 DEF Push
  <2>3. Push(i, n) = [n EXCEPT !.mem = f]
    <3>1. n.mem = m.mem /\ n.sp = m.sp
      BY BesideRead
    <3>2. f = [[n.mem EXCEPT ![n.sp] = n.mem[n.sp + 1]]
                 EXCEPT ![n.sp + 1] = n.mem[n.sp]]
      BY <2>1, <3>1
    <3> QED  BY <1>2, <3>2 DEF Push
  <2>4. Kept(m, n, [m EXCEPT !.mem = f], [n EXCEPT !.mem = f])
    BY WithMem DEF Beside, Kept
  <2> QED  BY <2>2, <2>3, <2>4
<1> QED  BY <1>1, <1>2

LEMMA PushMoreKeeps ==
  ASSUME NEW m, NEW n, Beside(m, n), NEW i, i.op \in PushMoreOps, Ignores(i.op)
  PROVE  Kept(m, n, PushMore(i, m), PushMore(i, n))
BY BesideRead, KeptPushed
   DEF PushMore, PushMoreOps, Ignores, PreservesValueRegister, ReadsValueRegister32

LEMMA SetVariableKeeps ==
  ASSUME NEW m, NEW n, Beside(m, n), NEW i, i.op \in SetVariableOps, Ignores(i.op)
  PROVE  Kept(m, n, SetVariable(i, m), SetVariable(i, n))
BY BesideRead, KeptSetVar, KeptSetVar64
   DEF SetVariable, SetVariableOps, Ignores, PreservesValueRegister, ReadsValueRegister32

LEMMA CopyVariableKeeps ==
  ASSUME NEW m, NEW n, Beside(m, n), NEW i, i.op \in CopyVariableOps, Ignores(i.op)
  PROVE  Kept(m, n, CopyVariable(i, m), CopyVariable(i, n))
<1>1. CASE i.op = "CpyVtoG4"
  <2>1. /\ CopyVariable(i, m) = [m EXCEPT !.mem[i.p] = Var(m, i.a)]
        /\ CopyVariable(i, n) = [n EXCEPT !.mem[i.p] = Var(m, i.a)]
    BY <1>1, BesideRead DEF CopyVariable
  <2>2. Kept(m, n, [m EXCEPT !.mem[i.p] = Var(m, i.a)],
                   [n EXCEPT !.mem[i.p] = Var(m, i.a)])
    BY KeptWord, Zenon
  <2> QED  BY <2>1, <2>2, Zenon
<1>2. CASE i.op # "CpyVtoG4"
  BY <1>2, BesideRead, KeptSetVar, KeptSetVar64
     DEF CopyVariable, CopyVariableOps, Ignores, PreservesValueRegister,
         ReadsValueRegister32
<1> QED  BY <1>1, <1>2

LEMMA AddressKeeps ==
  ASSUME NEW m, NEW n, Beside(m, n), NEW i, i.op \in AddressOps, Ignores(i.op)
  PROVE  Kept(m, n, Address(i, m), Address(i, n))
BY BesideRead, KeptPushed
   DEF Address, AddressOps, Ignores, PreservesValueRegister, ReadsValueRegister32

LEMMA PushObjectKeeps ==
  ASSUME NEW m, NEW n, Beside(m, n), NEW i, i.op \in PushObjectOps, Ignores(i.op)
  PROVE  Kept(m, n, PushObject(i, m), PushObject(i, n))
BY BesideRead, KeptPushed, KeptSetVar
   DEF PushObject, PushObjectOps, Ignores, PreservesValueRegister, ReadsValueRegister32

LEMMA PropertyKeeps ==
  ASSUME NEW m, NEW n, Beside(m, n), NEW i, i.op \in PropertyOps, Ignores(i.op)
  PROVE  Kept(m, n, Property(i, m), Property(i, n))
BY BesideRead, KeptPushed
   DEF Property, PropertyOps, Ignores, PreservesValueRegister, ReadsValueRegister32

LEMMA ObjectRegisterKeeps ==
  ASSUME NEW m, NEW n, Beside(m, n), NEW i, i.op \in ObjectRegisterOps, Ignores(i.op)
  PROVE  Kept(m, n, ObjectRegister(i, m), ObjectRegister(i, n))
<1>1. i.op = "LOADOBJ"
  BY DEF ObjectRegisterOps, Ignores, PreservesValueRegister
<1>2. PICK x : x = Var(m, i.a) /\ x = Var(n, i.a)
  BY BesideRead
<1>3. PICK p, q : p = [m EXCEPT !.object = x] /\ q = [n EXCEPT !.object = x]
  BY Zenon
<1>4. Beside(p, q) /\ p.vr = m.vr /\ q.vr = n.vr
  BY <1>3 DEF Beside, Fields
<1>5. Kept(p, q, SetVar(p, i.a, 0), SetVar(q, i.a, 0))
  BY <1>4, KeptSetVar
<1>6. ObjectRegister(i, m) = SetVar(p, i.a, 0) /\ ObjectRegister(i, n) = SetVar(q, i.a, 0)
  BY <1>1, <1>2, <1>3 DEF ObjectRegister
<1> QED  BY <1>4, <1>5, <1>6 DEF Kept

\* The helpers that write the value register do not look at it.
LEMMA LoadGlobalWrites ==
  ASSUME NEW m, NEW n, Beside(m, n), NEW i, i.op \in LoadGlobalOps,
         WritesValueRegister(i.op)
  PROVE  Wrote(LoadGlobal(i, m), LoadGlobal(i, n))
BY BesideRead, WroteResult, WroteThenSet
   DEF LoadGlobal, LoadGlobalOps, WritesValueRegister

LEMMA PushMoreWrites ==
  ASSUME NEW m, NEW n, Beside(m, n), NEW i, i.op \in PushMoreOps,
         WritesValueRegister(i.op)
  PROVE  Wrote(PushMore(i, m), PushMore(i, n))
BY BesideRead, WroteResult
   DEF PushMore, PushMoreOps, WritesValueRegister

LEMMA CopyVariableWrites ==
  ASSUME NEW m, NEW n, Beside(m, n), NEW i, i.op \in CopyVariableOps,
         WritesValueRegister(i.op)
  PROVE  Wrote(CopyVariable(i, m), CopyVariable(i, n))
<1>1. CASE i.op = "CpyVtoR8"
  <2>1. PICK v : v = <<Var(m, i.a), Var(m, i.a - 1)>>
    OBVIOUS
  <2>2. CopyVariable(i, m) = [m EXCEPT !.vr = v] /\ CopyVariable(i, n) = [n EXCEPT !.vr = v]
    BY <1>1, <2>1, BesideRead DEF CopyVariable
  <2>3. CopyVariable(i, m).vr = v /\ CopyVariable(i, n).vr = v
    BY <2>2 DEF Beside, Fields
  <2> QED  BY <2>3 DEF Wrote
<1>2. CASE i.op # "CpyVtoR8"
  BY <1>2, BesideRead, WroteResult
     DEF CopyVariable, CopyVariableOps, WritesValueRegister
<1> QED  BY <1>1, <1>2

LEMMA AddressWrites ==
  ASSUME NEW m, NEW n, Beside(m, n), NEW i, i.op \in AddressOps,
         WritesValueRegister(i.op)
  PROVE  Wrote(Address(i, m), Address(i, n))
BY BesideRead, WroteResult
   DEF Address, AddressOps, WritesValueRegister

LEMMA Compare64Writes ==
  ASSUME NEW m, NEW n, Beside(m, n), NEW i, i.op \in Compare64Ops,
         WritesValueRegister(i.op)
  PROVE  Wrote(Compare64(i, m), Compare64(i, n))
BY BesideRead, WroteResult
   DEF Compare64, Compare64Ops, WritesValueRegister

LEMMA CompareVariablesWrites ==
  ASSUME NEW m, NEW n, Beside(m, n), NEW i, i.op \in CompareOps,
         WritesValueRegister(i.op)
  PROVE  Wrote(CompareVariables(i, m), CompareVariables(i, n))
BY BesideRead, WroteResult
   DEF CompareVariables, CompareOps, WritesValueRegister

LEMMA PropertyWrites ==
  ASSUME NEW m, NEW n, Beside(m, n), NEW i, i.op \in PropertyOps,
         WritesValueRegister(i.op)
  PROVE  Wrote(Property(i, m), Property(i, n))
BY BesideRead, WroteResult, WroteOrFailed
   DEF Property, PropertyOps, WritesValueRegister

\* What changes something through the value register leaves the register.
LEMMA StepsKeepRegister ==
  ASSUME NEW m, DOMAIN m = Fields, NEW i,
         i.op \in {"INCi", "DECi", "CpyRtoV4", "CpyRtoV8"}
  PROVE  Interpret(i, m).vr = m.vr
<1>1. /\ i.op \in {"INCi", "DECi"} => i.op \in StepOps
      /\ i.op \in {"CpyRtoV4", "CpyRtoV8"} => i.op \in CopyVariableOps
  BY DEF StepOps, CopyVariableOps
<1>2. CASE i.op \in {"INCi", "DECi"}
  <2>1. Interpret(i, m) = Step(i, m)
    BY <1>1, <1>2, HelperOfGroup
  <2>2. \E o, x : Step(i, m) = SetVar(m, o, x)
    BY <1>2 DEF Step
  <2> QED  BY <2>1, <2>2, SetVarFields DEF SameRegisters
<1>3. CASE i.op \in {"CpyRtoV4", "CpyRtoV8"}
  <2>1. Interpret(i, m) = CopyVariable(i, m)
    BY <1>1, <1>3, HelperOfGroup
  <2>2. \/ \E x : CopyVariable(i, m) = SetVar(m, i.a, x)
        \/ \E x : CopyVariable(i, m) = SetVar64(m, i.a, x)
    BY <1>3 DEF CopyVariable
  <2> QED  BY <2>1, <2>2, SetVarFields, SetVar64Fields DEF SameRegisters
<1> QED  BY <1>2, <1>3

\* The helpers that the listed instructions have.
LEMMA IgnoredGroups ==
  ASSUME NEW op, Ignores(op), op \in InterpretedOps
  PROVE  op \in UNION {NegateOps, StepVariableOps, BitOps, ConvertOps, ExtendOps,
                       ConvertDoubleOps, IntegerOps, FloatOps, DoubleOps,
                       IntegerImmediateOps, FloatImmediateOps, SetGlobalOps,
                       NarrowOps, Convert64Ops, Unary64Ops, Integer64Ops,
                       Bit64Ops, PushOps, PushMoreOps, SetVariableOps,
                       CopyVariableOps, AddressOps, PushObjectOps,
                       PropertyOps, ObjectRegisterOps}
<1>1. op # "JitEntry"
  BY DEF InterpretedOps, NegateOps, StepOps, StepVariableOps, BitOps,
         ConvertOps, ExtendOps, ConvertDoubleOps, IntegerOps, DivideOps,
         FloatOps, DoubleOps, IntegerImmediateOps, FloatImmediateOps,
         SetGlobalOps, NarrowOps, Convert64Ops, Unary64Ops, Integer64Ops,
         Divide64Ops, Bit64Ops, Shift64Ops, Compare64Ops, ClearHighOps,
         DivideUnsignedOps, DivideUnsigned64Ops, TestOps, CompareOps,
         PowerOps, PushOps, LoadGlobalOps, CopyOps, PushMoreOps,
         SetVariableOps, AddAddressOps, CopyVariableOps, IndirectOps,
         AddressOps, FreeOps, ObjectRegisterOps, ArgumentOps,
         ReferenceCopyOps, CheckOps, PushObjectOps, CastOps, PropertyOps,
         ReferenceCopyVariableOps, ListOps
<1>2. op \notin {"INCi", "DECi", "CpyRtoV4", "CpyRtoV8"}
  BY DEF Ignores, ReadsValueRegister32
<1>3. PreservesValueRegister(op)
  BY DEF Ignores
<1> QED
  BY <1>1, <1>2, <1>3 DEF PreservesValueRegister, NegateOps,
         StepVariableOps, BitOps, ConvertOps, ExtendOps, ConvertDoubleOps,
         IntegerOps, FloatOps, DoubleOps, IntegerImmediateOps,
         FloatImmediateOps, SetGlobalOps, NarrowOps, Convert64Ops,
         Unary64Ops, Integer64Ops, Bit64Ops, PushOps, PushMoreOps,
         SetVariableOps, CopyVariableOps, AddressOps, PushObjectOps,
         PropertyOps, ObjectRegisterOps

\* What the analyses list as preserving the value register, and not as a reader,
\* does the same to memory whatever is in it.
LEMMA InterpretIgnores ==
  ASSUME NEW m, NEW n, Beside(m, n), NEW i, i.op \in InterpretedOps, Ignores(i.op)
  PROVE  Kept(m, n, Interpret(i, m), Interpret(i, n))
<1>1. i.op \in NegateOps => Kept(m, n, Interpret(i, m), Interpret(i, n))
  BY HelperOfGroup, NegateKeeps
<1>2. i.op \in StepVariableOps => Kept(m, n, Interpret(i, m), Interpret(i, n))
  BY HelperOfGroup, StepVariableKeeps
<1>3. i.op \in BitOps => Kept(m, n, Interpret(i, m), Interpret(i, n))
  BY HelperOfGroup, BitKeeps
<1>4. i.op \in ConvertOps => Kept(m, n, Interpret(i, m), Interpret(i, n))
  BY HelperOfGroup, ConvertKeeps
<1>5. i.op \in ExtendOps => Kept(m, n, Interpret(i, m), Interpret(i, n))
  BY HelperOfGroup, ExtendPartKeeps
<1>6. i.op \in ConvertDoubleOps => Kept(m, n, Interpret(i, m), Interpret(i, n))
  BY HelperOfGroup, ConvertDoubleKeeps
<1>7. i.op \in IntegerOps => Kept(m, n, Interpret(i, m), Interpret(i, n))
  BY HelperOfGroup, IntegerKeeps
<1>8. i.op \in FloatOps => Kept(m, n, Interpret(i, m), Interpret(i, n))
  BY HelperOfGroup, FloatKeeps
<1>9. i.op \in DoubleOps => Kept(m, n, Interpret(i, m), Interpret(i, n))
  BY HelperOfGroup, DoubleKeeps
<1>10. i.op \in IntegerImmediateOps => Kept(m, n, Interpret(i, m), Interpret(i, n))
  BY HelperOfGroup, IntegerImmediateKeeps
<1>11. i.op \in FloatImmediateOps => Kept(m, n, Interpret(i, m), Interpret(i, n))
  BY HelperOfGroup, FloatImmediateKeeps
<1>12. i.op \in SetGlobalOps => Kept(m, n, Interpret(i, m), Interpret(i, n))
  BY HelperOfGroup, SetGlobalKeeps
<1>13. i.op \in NarrowOps => Kept(m, n, Interpret(i, m), Interpret(i, n))
  BY HelperOfGroup, NarrowKeeps
<1>14. i.op \in Convert64Ops => Kept(m, n, Interpret(i, m), Interpret(i, n))
  BY HelperOfGroup, Convert64Keeps
<1>15. i.op \in Unary64Ops => Kept(m, n, Interpret(i, m), Interpret(i, n))
  BY HelperOfGroup, Unary64Keeps
<1>16. i.op \in Integer64Ops => Kept(m, n, Interpret(i, m), Interpret(i, n))
  BY HelperOfGroup, Integer64Keeps
<1>17. i.op \in Bit64Ops => Kept(m, n, Interpret(i, m), Interpret(i, n))
  BY HelperOfGroup, Bit64Keeps
<1>18. i.op \in PushOps => Kept(m, n, Interpret(i, m), Interpret(i, n))
  BY HelperOfGroup, PushKeeps
<1>19. i.op \in PushMoreOps => Kept(m, n, Interpret(i, m), Interpret(i, n))
  BY HelperOfGroup, PushMoreKeeps
<1>20. i.op \in SetVariableOps => Kept(m, n, Interpret(i, m), Interpret(i, n))
  BY HelperOfGroup, SetVariableKeeps
<1>21. i.op \in CopyVariableOps => Kept(m, n, Interpret(i, m), Interpret(i, n))
  BY HelperOfGroup, CopyVariableKeeps
<1>22. i.op \in AddressOps => Kept(m, n, Interpret(i, m), Interpret(i, n))
  BY HelperOfGroup, AddressKeeps
<1>23. i.op \in PushObjectOps => Kept(m, n, Interpret(i, m), Interpret(i, n))
  BY HelperOfGroup, PushObjectKeeps
<1>24. i.op \in PropertyOps => Kept(m, n, Interpret(i, m), Interpret(i, n))
  BY HelperOfGroup, PropertyKeeps
<1>25. i.op \in ObjectRegisterOps => Kept(m, n, Interpret(i, m), Interpret(i, n))
  BY HelperOfGroup, ObjectRegisterKeeps
<1> QED  BY <1>1, <1>2, <1>3, <1>4, <1>5, <1>6, <1>7, <1>8, <1>9, <1>10,
            <1>11, <1>12, <1>13, <1>14, <1>15, <1>16, <1>17, <1>18, <1>19,
            <1>20, <1>21, <1>22, <1>23, <1>24, <1>25, IgnoredGroups

\* What they list as writing it writes the same whatever was in it.
LEMMA InterpretWrites ==
  ASSUME NEW m, NEW n, Beside(m, n), NEW i, WritesValueRegister(i.op)
  PROVE  /\ i.op \in InterpretedOps
         /\ Wrote(Interpret(i, m), Interpret(i, n))
<1>1. i.op \in LoadGlobalOps => Wrote(Interpret(i, m), Interpret(i, n))
  BY HelperOfGroup, LoadGlobalWrites
<1>2. i.op \in PushMoreOps => Wrote(Interpret(i, m), Interpret(i, n))
  BY HelperOfGroup, PushMoreWrites
<1>3. i.op \in CopyVariableOps => Wrote(Interpret(i, m), Interpret(i, n))
  BY HelperOfGroup, CopyVariableWrites
<1>4. i.op \in AddressOps => Wrote(Interpret(i, m), Interpret(i, n))
  BY HelperOfGroup, AddressWrites
<1>5. i.op \in Compare64Ops => Wrote(Interpret(i, m), Interpret(i, n))
  BY HelperOfGroup, Compare64Writes
<1>6. i.op \in CompareOps => Wrote(Interpret(i, m), Interpret(i, n))
  BY HelperOfGroup, CompareVariablesWrites
<1>7. i.op \in PropertyOps => Wrote(Interpret(i, m), Interpret(i, n))
  BY HelperOfGroup, PropertyWrites
<1>8. i.op \in UNION {LoadGlobalOps, PushMoreOps, CopyVariableOps, AddressOps,
                     Compare64Ops, CompareOps, PropertyOps}
  BY DEF WritesValueRegister, LoadGlobalOps, PushMoreOps, CopyVariableOps,
         AddressOps, Compare64Ops, CompareOps, PropertyOps
<1> QED  BY <1>1, <1>2, <1>3, <1>4, <1>5, <1>6, <1>7, <1>8 DEF InterpretedOps

-----------------------------------------------------------------------------
(* The specification                                                       *)

PairInv ==
  /\ instruction \in Instructions /\ before \in Machines(instruction)
  /\ done \in BOOLEAN
  /\ ~done => native = before /\ interpreter = Interpreted(before)
  /\ done => /\ Outcome(instruction, before, native, interpreter)
             /\ interpreter \in Interpretations(instruction, Interpreted(before))

\* What the assumptions say of the instruction that runs.
LEMMA InstructionFits ==
  ASSUME PairInv
  PROVE  /\ instruction.op \in InterpretedOps
         /\ IsMachineState(before) /\ OperandsFit(instruction, before)
         /\ AddressesFit(instruction, before) /\ CachedApart(instruction, before)
         /\ SquareKnown(instruction, before)
BY InstructionsAssumption, MachinesAssumption DEF PairInv

\* Whatever code an instruction gets, its run comes to a known outcome.
LEMMA PairInvStep ==
  ASSUME PairInv, Next
  PROVE  PairInv'
<1> USE InstructionFits
<1>1. /\ ~done /\ done' = TRUE
      /\ instruction' = instruction /\ before' = before
      /\ native = before /\ interpreter = Interpreted(before)
      /\ interpreter' \in Interpretations(instruction, interpreter)
  BY DEF PairInv, Next, RunStack, RunReferences, RunMemory, RunNumeric, RunHelper, Run
<1>2. interpreter' \in Interpretations(instruction, Interpreted(before))
  BY <1>1
<1>3. CASE RunStack
  <2>1. instruction.op \in StackOps /\ native' = EmitStack(instruction, before)
    BY <1>1, <1>3 DEF RunStack, Run
  <2>2. Outcome(instruction, before, EmitStack(instruction, before), interpreter')
    BY <1>2, <2>1, OtherOutcome
  <2> QED  BY <1>1, <1>2, <2>1, <2>2 DEF PairInv
<1>4. CASE RunReferences
  <2>1. instruction.op \in ReferenceOps /\ native' = EmitReferences(instruction, before)
    BY <1>1, <1>4 DEF RunReferences, Run
  <2>2. Outcome(instruction, before, EmitReferences(instruction, before), interpreter')
    BY <1>2, <2>1, OtherOutcome
  <2> QED  BY <1>1, <1>2, <2>1, <2>2 DEF PairInv
<1>5. CASE RunMemory
  <2>1. instruction.op \in MemoryOps /\ native' = EmitMemory(instruction, before)
    BY <1>1, <1>5 DEF RunMemory, Run
  <2>2. Outcome(instruction, before, EmitMemory(instruction, before), interpreter')
    BY <1>2, <2>1, OtherOutcome
  <2> QED  BY <1>1, <1>2, <2>1, <2>2 DEF PairInv
<1>6. CASE RunNumeric
  <2>1. instruction.op \in NumericOps /\ native' = EmitNumeric(instruction, before)
    BY <1>1, <1>6 DEF RunNumeric, Run
  <2>2. Outcome(instruction, before, EmitNumeric(instruction, before), interpreter')
    BY <1>2, <2>1, NumericOutcome
  <2> QED  BY <1>1, <1>2, <2>1, <2>2 DEF PairInv
<1>7. CASE RunHelper
  <2>1. /\ instruction.op \notin NumericOps
        /\ native' = EmitHelperCall(instruction, before)
    BY <1>1, <1>7 DEF RunHelper, Run
  <2>2. Outcome(instruction, before, EmitHelperCall(instruction, before), interpreter')
    BY <1>2, <2>1, HelperOutcome
  <2> QED  BY <1>1, <1>2, <2>1, <2>2 DEF PairInv
<1> QED  BY <1>3, <1>4, <1>5, <1>6, <1>7 DEF Next

\* Every run of an instruction comes to a known outcome: emitted code and
\* interpreter agree, or differ where the instruction is known to, and there only.
THEOREM PairInvariant == Spec => []PairInv
<1>1. Init => PairInv
  BY Zenon DEF Init, PairInv
<1>2. PairInv /\ [Next]_vars => PairInv'
  <2>1. CASE UNCHANGED vars
    BY <2>1 DEF PairInv, vars
  <2> QED  BY <2>1, PairInvStep
<1> QED  BY <1>1, <1>2, PTL DEF Spec

-----------------------------------------------------------------------------
(* What the run checks                                                     *)

\* The differences, as the properties name them.
LEMMA OutcomeIsKnown ==
  ASSUME PairInv, done
  PROVE  /\ Missed(instruction, Interpreted(before)) <=> DivideOverflowMissed
         /\ Smallest(instruction, before) <=> SquareOfSmallest
         /\ DoublesOf(instruction) = DoubleOperands
<1>1. Missed(instruction, Interpreted(before)) <=> DivideOverflowMissed
  BY DEF Missed, DivideOverflowMissed, Dividend, Divisor
<1>2. Smallest(instruction, before) <=> SquareOfSmallest
  BY DEF Smallest, SquareOfSmallest
<1>3. DoublesOf(instruction) = DoubleOperands
  BY DEF DoublesOf, DoubleOperands
<1> QED  BY <1>1, <1>2, <1>3

\* Emitted code leaves the program as the interpreter does, save where it is
\* known to differ (the emitters of src/codegen/emit, the helpers of
\* src/bytecode/helpers), for every state and every choice of cached locals.
THEOREM ResultsAreTheSame == Spec => []SameResult
<1>1. ASSUME PairInv PROVE SameResult
  <2> SUFFICES ASSUME done PROVE SameResult
    BY DEF SameResult
  <2>1. /\ Outcome(instruction, before, native, interpreter)
        /\ instruction.op \in Shift64Ops => LoadVar(before, instruction.c) \in Int
    <3>1. instruction.op \in Shift64Ops => LoadVar(before, instruction.c) \in Word
      <4>1. instruction.op \in Shift64Ops => instruction.op \in NumericOps
        BY DEF NumericOps
      <4> QED  BY <1>1, <4>1, InstructionFits, NumericIsReady DEF Ready
    <3>2. Word \subseteq Int
      BY WordIsNat
    <3>3. Outcome(instruction, before, native, interpreter)
      BY <1>1 DEF PairInv
    <3> QED  BY <3>1, <3>2, <3>3, Zenon
  <2>2. CASE Agrees(native, interpreter)
    BY <2>2 DEF SameResult, Same, Agrees
  <2>3. CASE instruction.op \in Shift64Ops /\ ~(LoadVar(before, instruction.c) < WordBits)
    <3>1. PICK x \in Int : x = LoadVar(before, instruction.c)
      BY <2>1, <2>3
    <3>2. x >= WordBits
      BY <2>3, <3>1, WordBitsAssumption
    <3> QED  BY <2>3, <3>1, <3>2 DEF SameResult, LongShift
  <2>4. CASE before.sse /\ \E o \in DoublesOf(instruction) : IsSplit(before, o)
    BY <1>1, <2>4, OutcomeIsKnown DEF SameResult, HalfCachedDouble
  <2> QED  BY <1>1, <2>1, <2>2, <2>3, <2>4, OutcomeIsKnown
           DEF Outcome, SameResult, SquareNotStored, HighWordCleared
<1> QED  BY <1>1, PairInvariant, PTL

\* Emitted code raises the exception the interpreter raises, except for the
\* overflow of a 64-bit division (asBC_DIVi64 in numeric.cpp compares with the
\* wrong word).
THEOREM ExceptionsAreTheSame == Spec => []SameException
<1>1. ASSUME PairInv PROVE SameException
  <2> SUFFICES ASSUME done PROVE SameException
    BY DEF SameException
  <2>1. Outcome(instruction, before, native, interpreter)
    BY <1>1 DEF PairInv
  <2> QED  BY <1>1, <2>1, OutcomeIsKnown DEF Outcome, SameException
<1> QED  BY <1>1, PairInvariant, PTL

\* Where emitted code differs it differs in the destination, the high word of
\* the value register or the exception's flag.
THEOREM DifferencesStayLocal == Spec => []DifferencesAreLocal
<1>1. ASSUME PairInv PROVE DifferencesAreLocal
  <2> SUFFICES ASSUME done PROVE DifferencesAreLocal
    BY DEF DifferencesAreLocal
  <2>1. Fine(instruction, native, interpreter)
    BY <1>1 DEF PairInv, Outcome
  <2> QED  BY <2>1 DEF Fine, Near, Off, DifferencesAreLocal, HighWordCleared
<1> QED  BY <1>1, PairInvariant, PTL

\* After an exception raised by emitted code (EmitInternalException) every
\* cached local is in the frame.
THEOREM ExceptionsFindFrame == Spec => []ExceptionFindsFrame
<1>1. ASSUME PairInv PROVE ExceptionFindsFrame
  BY <1>1 DEF PairInv, Outcome, Fine, Near, ExceptionFindsFrame
<1> QED  BY <1>1, PairInvariant, PTL

\* The known differences are in no list, or differ in the high word.
LEMMA ListedOps ==
  ASSUME NEW op, PreservesValueRegister(op) \/ WritesValueRegister(op)
  PROVE  /\ op \notin {"ClrHi", "POWi"} \union Divide64Ops
         /\ op = "CMPd" => ~PreservesValueRegister(op)
BY DEF PreservesValueRegister, WritesValueRegister, Divide64Ops

\* The lists PreservesValueRegister, WritesValueRegister and ReadsValueRegister32
\* of analysis.cpp are right about every instruction in every state, so that a
\* value register that is forwarded or never stored is not missed.
THEOREM ValueRegisterLists == Spec => []ValueRegisterListsRight
<1>1. ASSUME PairInv PROVE ValueRegisterListsRight
  <2> DEFINE op == instruction.op
             Another(v) == Interpret(instruction, [Interpreted(before) EXCEPT !.vr = v])
             others == {Another(v) : v \in {<<200, 9>>, <<1, 0>>}}
  <2> SUFFICES ASSUME done, native.exc = "none"
               PROVE  /\ PreservesValueRegister(op) => native.vr[1] = before.vr[1]
                      /\ Ignores(op) => \A m \in others : m.mem = interpreter.mem
                      /\ WritesValueRegister(op) =>
                           \A m \in others : m.vr[1] = interpreter.vr[1]
    BY Zenon DEF ValueRegisterListsRight, Ignores
  <2> SUFFICES ASSUME NEW v \in {<<200, 9>>, <<1, 0>>}
               PROVE  /\ PreservesValueRegister(op) => native.vr[1] = before.vr[1]
                      /\ Ignores(op) => Another(v).mem = interpreter.mem
                      /\ WritesValueRegister(op) => Another(v).vr[1] = interpreter.vr[1]
    <3> HIDE DEF Another, op
    <3> QED  OBVIOUS
  <2>1. CASE ~PreservesValueRegister(op) /\ ~WritesValueRegister(op)
    BY <2>1 DEF Ignores
  <2>2. CASE PreservesValueRegister(op) \/ WritesValueRegister(op)
    <3>1. op \notin {"ClrHi", "POWi"} \union Divide64Ops
          /\ (op = "CMPd" => ~PreservesValueRegister(op))
      BY <2>2, ListedOps
    <3>2. PICK s : s = Interpreted(before)
      OBVIOUS
    <3>3. interpreter = Interpret(instruction, s)
      BY <1>1, <3>1, <3>2 DEF PairInv, Interpretations
    <3>4. /\ DOMAIN s = Fields /\ s.vr = before.vr /\ before.vr \in Word \X Word
          /\ op \in InterpretedOps
      BY <1>1, <3>2, InstructionFits, InterpretedFields, StateIsMachine
    <3>5. PICK n : n = [s EXCEPT !.vr = v]
      OBVIOUS
    <3>6. n.vr = v /\ Beside(s, n) /\ Beside(n, s)
      BY <3>4, <3>5 DEF Beside, Fields
    <3>7. Another(v) = Interpret(instruction, n)
      BY <3>2, <3>5
    <3>8. Outcome(instruction, before, native, interpreter)
      BY <1>1 DEF PairInv
    <3>9. PreservesValueRegister(op) => native.vr[1] = before.vr[1]
      <4> SUFFICES ASSUME PreservesValueRegister(op) PROVE native.vr[1] = before.vr[1]
        OBVIOUS
      <4>1. native.vr = interpreter.vr
        BY <3>1, <3>8 DEF Outcome, Fine
      <4>2. interpreter.vr = s.vr
        <5>1. CASE op \in {"INCi", "DECi", "CpyRtoV4", "CpyRtoV8"}
          BY <3>3, <3>4, <5>1, StepsKeepRegister
        <5>2. CASE op \notin {"INCi", "DECi", "CpyRtoV4", "CpyRtoV8"}
          <6>1. Ignores(op)
            BY <5>2 DEF Ignores, PreservesValueRegister, ReadsValueRegister32
          <6> QED  BY <3>3, <3>4, <3>6, <6>1, InterpretIgnores DEF Kept
        <5> QED  BY <5>1, <5>2
      <4> QED  BY <3>4, <4>1, <4>2
    <3>10. Ignores(op) => Another(v).mem = interpreter.mem
      BY <3>3, <3>4, <3>6, <3>7, InterpretIgnores DEF Kept
    <3>11. WritesValueRegister(op) => Another(v).vr[1] = interpreter.vr[1]
      <4> SUFFICES ASSUME WritesValueRegister(op)
                   PROVE  Another(v).vr[1] = interpreter.vr[1]
        OBVIOUS
      <4>1. interpreter.exc = "none"
        BY <3>1, <3>8 DEF Outcome, Missed, Smallest
      <4>2. Wrote(interpreter, Another(v))
        BY <3>3, <3>6, <3>7, InterpretWrites
      <4> QED  BY <4>1, <4>2 DEF Wrote
    <3> QED  BY <3>9, <3>10, <3>11
  <2> QED  BY <2>1, <2>2
<1> QED  BY <1>1, PairInvariant, PTL
=============================================================================
