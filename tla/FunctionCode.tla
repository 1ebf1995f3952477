---------------------------- MODULE FunctionCode ----------------------------
(***************************************************************************)
(* A whole function as native code, step by step beside the interpreter.   *)
(* One native step is what EmitInstructions (emitter.cpp) emits as one     *)
(* piece: an instruction, a comparison with its branch, a handle copied or *)
(* moved, floats computed together. Native code leaves to the interpreter  *)
(* when it is suspended or a helper fails, and is entered again at the     *)
(* next JitEntry. The interpreter always runs the instructions of the      *)
(* native step, so the two can be compared after each.                     *)
(***************************************************************************)
EXTENDS EmittedMemory, FunctionAnalysis, BranchInstructions

CONSTANTS Programs,      \* the functions
          Frames(_),     \* the frames a function starts with, in the interpreter
          CallOf(_, _, _, _),     \* the whole call of a function
          CodeOfCall(_, _, _, _, _), \* the code emitted for a call, and how it ends
          WideLanes,     \* floats in a ymm register
          NarrowLanes    \* floats in an xmm register

ASSUME LanesAssumption == {WideLanes, NarrowLanes} \subseteq Nat \ {0, 1}

\* Bytecode as the compiler leaves it: it ends with RET, branches and try blocks
\* lead to instructions, and behind a system call, where a JitEntry is
\* (asCByteCode::Call), no block begins or ends.
WellFormed(P) ==
  /\ Len(P.code) \in Nat \ {0} /\ Op(P, Len(P.code)) = "RET"
  /\ \A k \in Positions(P) : IsBranch(Op(P, k)) => P.code[k].to \in Positions(P)
  /\ Len(P.tries) \in Nat /\ DOMAIN P.tries = 1..Len(P.tries)
  /\ \A t \in DOMAIN P.tries :
       /\ {P.tries[t].from, P.tries[t].catch} \subseteq Positions(P)
       /\ \A k \in Positions(P) :
            Op(P, k) = "CALLSYS" => k + 1 \notin {P.tries[t].from, P.tries[t].catch}
  /\ \A v \in P.objects : v.at \in Int /\ v.declared \in Nat

ASSUME ProgramsAssumption == \A P \in Programs : WellFormed(P)

VARIABLES program, plan, \* the function and what the analyses decided
          mode,          \* native, interpreter, done, or apart
          pc, native,    \* position and machine of the compiled function
          shadow,        \* the value register kept in a processor register
          ipc, interpreter, \* position and machine of the interpreter
          from           \* mode, position and machine before the last step,
                         \* where it meant to go on, the number of instructions
                         \* it stood for, and what happened in it

codeVars == <<program, plan, mode, pc, native, shadow, ipc, interpreter, from>>

\* Nothing but what its instructions say.
NoEvent == [kind |-> "none", how |-> "none"]

NoShadow == [active |-> FALSE, value |-> 0]

-----------------------------------------------------------------------------
(* Floats computed together: EmitPackedFloatBinary and -Immediate.         *)

LanePositions(k, width, stride) == {k + l * stride : l \in 0..width - 1}

\* The instructions of the lanes are alike and, with stride two, a JitEntry
\* stands before each but the first.
LanesFit(P, k, width, stride) ==
  /\ k + (width - 1) * stride <= Len(P.code)
  /\ \A j \in LanePositions(k, width, stride) :
       /\ Op(P, j) = Op(P, k)
       /\ P.code[j].a = P.code[j].b
       /\ j # k => /\ j \notin NeedsLabel(P)
                   /\ stride = 2 => Op(P, j - 1) = "JitEntry"

PackedBinary(P, k, width, stride) ==
  LET Offset(j) == P.code[j].a
      Right(j) == P.code[j].c
      Lane(j) == (j - k) \div stride
      Range(o) == o - width + 1..o
  IN  /\ Op(P, k) \in {"ADDf", "SUBf", "MULf"}
      /\ LanesFit(P, k, width, stride)
      /\ \A j \in LanePositions(k, width, stride) :
           Offset(j) = Offset(k) - Lane(j) /\ Right(j) = Right(k) - Lane(j)
      /\ Range(Offset(k)) \intersect Range(Right(k)) # {} => Offset(k) = Right(k)

PackedImmediate(P, k, width, stride) ==
  LET Lane(j) == (j - k) \div stride
      step == P.code[k + stride].a - P.code[k].a
  IN  /\ Op(P, k) \in {"ADDIf", "SUBIf", "MULIf"}
      /\ LanesFit(P, k, width, stride)
      /\ step \in {1, -1}
      /\ \A j \in LanePositions(k, width, stride) :
           /\ P.code[j].q = P.code[k].q
           /\ P.code[j].a = P.code[k].a + step * Lane(j)

NotPacked == [width |-> 0, span |-> 0, stride |-> 1]

\* The widest group first, with entries between the lanes before without.
PackedGroup(P, k, avx) ==
  LET shapes == IF avx THEN <<<<WideLanes, 2>>, <<WideLanes, 1>>,
                              <<NarrowLanes, 2>>, <<NarrowLanes, 1>>>>
                ELSE <<<<NarrowLanes, 2>>, <<NarrowLanes, 1>>>>
      Fits(s) == \/ PackedBinary(P, k, s[1], s[2])
                 \/ PackedImmediate(P, k, s[1], s[2])
      fitting == {n \in DOMAIN shapes : Fits(shapes[n])}
      best == shapes[CHOOSE n \in fitting : \A j \in fitting : n <= j]
  IN  IF CacheLocals(P) \/ fitting = {} THEN NotPacked
      ELSE [width |-> best[1], stride |-> best[2],
            span |-> (best[1] - 1) * best[2] + 1]

\* Groups are taken from the front; one that starts inside another is not made.
PackedGroups(P, avx) ==
  LET group[k \in Positions(P)] ==
        IF \E j \in 1..k - 1 : k < j + group[j].span THEN NotPacked
        ELSE PackedGroup(P, k, avx)
  IN  group

\* All lanes are read before any is written; memory goes up as offsets go down.
RunPackedLanes(P, k, width, m) ==
  LET i == P.code[k]
      binary == i.op \in {"ADDf", "SUBf", "MULf"}
      upward == P.code[k + plan.packed[k].stride].a > i.a
      low == Fp - (IF upward THEN i.a + width - 1 ELSE i.a)
      Operand(x) == IF binary THEN m.mem[x - low + Fp - i.c] ELSE i.q[1]
  IN  [m EXCEPT !.mem = [x \in DOMAIN @ |->
         IF x \in low..low + width - 1
         THEN Half(FloatResult(i.op, @[x], Operand(x), WordBits)) ELSE @[x]]]

-----------------------------------------------------------------------------
(* Exceptions and what cleaning the frame does to its objects.             *)

\* CleanStackFrame for a caught exception: what was declared before the try
\* block stays, the block's objects and all temporaries go.
Cleaned(P, t, m) ==
  LET gone == {Fp - v.at : v \in {w \in P.objects :
                  w.declared = 0 \/ w.declared >= P.tries[t].from}}
      References(x) == Cardinality({at \in gone : m.mem[at] = x})
  IN  [m EXCEPT !.mem = [x \in DOMAIN @ |->
         IF x \in gone THEN 0 ELSE @[x] - References(x)]]

Caught(m) == [m EXCEPT !.exc = "none", !.local = FALSE]

\* CatchLocalException cleans the frame only when an object is declared in the
\* try block.
CatchLocalException(P, t, m) ==
  IF LocalCatchNeedsCleanup(P, t) THEN Cleaned(P, t, Caught(m)) ELSE Caught(m)

\* A system function returns a word or an object, or raises.
SystemFunction(i, m, event) ==
  IF event = "raises" THEN SetInternalException(m, "SetException")
  ELSE IF i.kind = "object" THEN AddRef([m EXCEPT !.object = i.p], i.p)
  ELSE SetResult(m, i.q[1])

\* AllocApp is ALLOC of an application's type, into the variable whose address
\* is on the stack. A system function constructs the object, unless the type
\* needs no constructor (plain).
AllocateForApplication(i, m, event) ==
  LET address == m.mem[m.sp]
      Holding(x) ==
        [m EXCEPT !.mem[address] = IF address = 0 THEN @ ELSE x, !.sp = @ + 1]
  IN  IF event = "raises" THEN SetInternalException(Holding(0), "SetException")
      ELSE Holding(i.p)

-----------------------------------------------------------------------------
(* The interpreter: one instruction, then several. Position 0 is the end.  *)

\* What may happen in a step: a system function raises, the application asks to
\* suspend, the functions called leave native code.
Events(i) ==
  {"none"} \union
  CASE i.op = "CALLSYS" -> {"raises"}
    [] i.op \in CallOps -> {"request", "leaves"}
    [] i.op = "AllocApp" -> {"request"} \union (IF i.kind = "plain" THEN {} ELSE {"raises"})
    [] OTHER -> {}

\* Instructions that have their position behind them when they raise.
RaisesBehind(op) == op \in CallOps \union {"CALLSYS", "AllocApp"}

\* Execute catches at the innermost block around the position, which is behind
\* the call when the exception comes from a call.
InterpretedCatch(P, k, m) ==
  LET t == CatchTry(P, IF RaisesBehind(Op(P, k)) THEN k + 1 ELSE k)
  IN  IF m.exc = "none" THEN [pc |-> k + 1, m |-> m]
      ELSE IF t = 0 THEN [pc |-> 0, m |-> m]
      ELSE [pc |-> P.tries[t].catch, m |-> Cleaned(P, t, Caught(m))]

InterpretOne(P, k, m, event) ==
  LET i == P.code[k]
  IN  CASE IsBranch(i.op) ->
             [pc |-> IF Branches(i.op, m) THEN i.to ELSE k + 1, m |-> m]
        [] i.op = "JMPP" -> [pc |-> k + 1 + Var(m, i.a), m |-> m]
        [] i.op \in {"JitEntry", "SUSPEND"} -> [pc |-> k + 1, m |-> m]
        [] i.op = "RET" -> [pc |-> 0, m |-> m]
        [] i.op = "CALLSYS" ->
             InterpretedCatch(P, k, SystemFunction(i, m, event))
        [] i.op = "AllocApp" ->
             InterpretedCatch(P, k, AllocateForApplication(i, m, event))
        [] i.op \in CallOps -> InterpretedCatch(P, k, CallOf(P, i, m, Var(m, i.a)))
        [] OTHER -> InterpretedCatch(P, k, Interpret(i, m))

InterpretMany(P, k, m, count, event) ==
  LET run[n \in 0..count] ==
        IF n = 0 THEN [pc |-> k, m |-> m]
        ELSE InterpretOne(P, run[n - 1].pc, run[n - 1].m, event)
  IN  run[count]

-----------------------------------------------------------------------------
(* Before the first step.                                                  *)

\* Mutant: locals stay in registers that nobody keeps.
InterpretedKeepingRegisters(m) == FlushCachedLocals(m)

Interpreted(m) == [FlushCachedLocals(m) EXCEPT !.reg = NoRegisters]

\* Mutant: the prologue leaves the cached locals as they are.
EnteredWithoutLoads(m) == [m EXCEPT !.reg = [o \in plan.cached |-> 0]]

\* The prologue reads the cached locals from the frame.
Entered(m) ==
  ReloadCachedLocals([m EXCEPT !.reg = [o \in plan.cached |-> 0]])

Plan(P, avx) ==
  [cached |-> CachedLocalOffsets(P),
   fusion |-> [k \in Positions(P) |-> ComparisonBranchFusion(P, k)],
   copies |-> [k \in Positions(P) |-> RefCopyFusionSpan(P, k)],
   forward |-> [k \in Positions(P) |-> ValueRegisterForward(P, k)],
   packed |-> PackedGroups(P, avx),
   \* positions that have no code of their own
   without |-> RefCopyFusionSkip(P) \union FusedAway(P)]

\* The interpreter enters the function at its first JitEntry.
Init ==
  /\ program \in Programs
  /\ \E avx \in BOOLEAN : plan = Plan(program, avx)
  /\ mode = "interpreter" /\ pc = 1 /\ ipc = 1
  /\ native \in Frames(program) /\ interpreter = native
  /\ shadow = NoShadow
  /\ from = [mode |-> mode, to |-> mode, pc |-> 1, m |-> native, count |-> 0,
             event |-> NoEvent]

\* What still matters of two machines: the stack and all above it.
SameState(m, n) ==
  /\ m.sp = n.sp /\ m.object = n.object /\ m.exc = n.exc
  /\ \A x \in DOMAIN n.mem : x >= n.sp => View(m)[x] = n.mem[x]

\* At the end the value register is the result.
SameEnd(k, m, n) == k = 0 /\ m.exc = "none" => m.vr[1] = n.vr[1]

\* One step, to position next and machine m.
Advance(to, next, m, count, kept, event) ==
  /\ pc' = next /\ native' = m /\ shadow' = kept
  /\ from' = [mode |-> mode, to |-> to, pc |-> pc, m |-> native, count |-> count,
              event |-> event]

\* The instructions the step stands for bring the interpreter to r.
FollowTo(r) ==
  LET agree == pc' = r.pc /\ SameState(native', r.m) /\ SameEnd(pc', native', r.m)
  IN  /\ ipc' = r.pc /\ interpreter' = r.m
      /\ mode' = IF ~agree THEN "apart" ELSE IF pc' = 0 THEN "done" ELSE from'.to
      /\ UNCHANGED <<program, plan>>

Follow ==
  FollowTo(InterpretMany(program, ipc, interpreter, from'.count, from'.event.kind))

GoOn(next, m, count) == Advance("native", next, m, count, NoShadow, NoEvent)

\* An exception in native code: caught there, or left to Execute.
Raise(k, m, event) ==
  LET t == CatchTry(program, k)
      left == Interpreted(m)
  IN  IF t = 0 THEN Advance("done", 0, left, 1, NoShadow, event)
      ELSE IF m.local
      THEN Advance("native", program.tries[t].catch,
                   ReloadCachedLocals(CatchLocalException(program, t, m)),
                   1, NoShadow, event)
      ELSE Advance("interpreter", program.tries[t].catch,
                   Cleaned(program, t, Caught(left)), 1, NoShadow, event)

Here == program.code[pc]
IsNative(ops) == mode = "native" /\ Here.op \in ops

-----------------------------------------------------------------------------
(* Native steps.                                                           *)

\* A forwarded value register stays where it is.
RunPackedFloats ==
  /\ mode = "native" /\ plan.packed[pc].width > 0
  /\ LET g == plan.packed[pc]
     IN  Advance("native", pc + g.span, RunPackedLanes(program, pc, g.width, native),
                 g.span, shadow, NoEvent)

\* FastRefCopyScriptObject, FastMoveScriptObject; the stack is not used.
RunCopiedHandle ==
  /\ IsNative({"PshVPtr"}) /\ plan.copies[pc] > 0
  /\ LET source == Fp - Here.a
         destination == Fp - program.code[pc + 1].a
         span == plan.copies[pc]
     IN  GoOn(pc + span,
              IF span = 4 THEN FastMoveScriptObject(native, destination, source)
              ELSE FastRefCopyScriptObject(native, destination, native.mem[source]),
              span)

\* The conditional jump looks at the flags of the comparison.
FusedTaken(op, unsigned, f) ==
  CASE op \in {"JZ", "JLowZ"} -> f.zero
    [] op \in {"JNZ", "JLowNZ"} -> ~f.zero
    [] op = "JS" -> IF unsigned THEN f.carry ELSE f.sign
    [] op = "JNS" -> IF unsigned THEN ~f.carry ELSE ~f.sign
    [] op = "JP" -> IF unsigned THEN UnsignedGreater(f) ELSE SignedGreater(f)
    [] op = "JNP" -> IF unsigned THEN ~UnsignedGreater(f) ELSE ~SignedGreater(f)

RunFusedComparison ==
  /\ mode = "native" /\ plan.fusion[pc].span > 0
  /\ LET fusion == plan.fusion[pc]
         branch == pc + fusion.span
         taken == FusedTaken(fusion.op, IsUnsignedCompare(Here.op),
                             CompareFlags(Here, native))
     IN  IF taken THEN GoOn(program.code[branch].to, native, fusion.span + 1)
         ELSE GoOn(branch + 1,
                   IF fusion.fall = 2 THEN native
                   ELSE SetResult(native, Half(fusion.fall)), fusion.span + 1)

RunBranch ==
  /\ mode = "native" /\ IsBranch(Here.op)
  /\ GoOn(IF JumpTaken(Here.op, native) THEN Here.to ELSE pc + 1, native, 1)

\* A comparison for each JMP behind the JMPP; the rest is left to BcJmpP.
RunJumpTable ==
  /\ IsNative({"JMPP"})
  /\ LET selector == LoadVar(native, Here.a)
         compared == {n \in 0..Len(program.code) - pc - 1 :
                        \A j \in 0..n : Op(program, pc + 1 + j) = "JMP"}
     IN  IF selector \in compared
         THEN GoOn(program.code[pc + 1 + selector].to, native, 2)
         ELSE Advance("interpreter", pc + 1 + selector, Interpreted(native),
                      1, NoShadow, NoEvent)

RunJitEntry == IsNative({"JitEntry"}) /\ GoOn(pc + 1, native, 1)

\* With a suspension the function leaves, without it goes on.
RunSuspend ==
  /\ IsNative({"SUSPEND"})
  /\ \/ GoOn(pc + 1, native, 1)
     \/ Advance("interpreter", pc + 1, Interpreted(native), 1, NoShadow, NoEvent)

RunReturn ==
  IsNative({"RET"}) /\ Advance("done", 0, Interpreted(native), 1, NoShadow, NoEvent)

\* Between write-back and reload; an exception is caught by FinishSystemCallAt.
RunSystemCall ==
  /\ IsNative({"CALLSYS"})
  /\ \E kind \in Events(Here) :
       LET m == ReloadCachedLocals(
                  SystemFunction(Here, FlushCachedLocals(native), kind))
       IN  IF kind = "raises"
           THEN Raise(pc, [m EXCEPT !.local = TRUE], [NoEvent EXCEPT !.kind = kind])
           ELSE GoOn(pc + 1, m, 1)

\* BcAlloc adds the instruction's length to the program pointer, which is its
\* position only if it has called a constructor: else the pointer has what was
\* last written, at some other position. (PSF and PGA, which are before an ALLOC
\* without constructor, write none.) It matters when the function is suspended.
LeavesAfterAlloc(m, event) ==
  \E p \in IF Here.kind = "plain"
           THEN Positions(program) \ {pc, Len(program.code)} ELSE {pc} :
    Advance("interpreter", p + 1, Interpreted(m), 1, NoShadow, event)

RunAllocForApplication ==
  /\ IsNative({"AllocApp"})
  /\ \E kind \in Events(Here) :
       LET m == ReloadCachedLocals(
                  AllocateForApplication(Here, FlushCachedLocals(native), kind))
           event == [NoEvent EXCEPT !.kind = kind]
       IN  CASE kind = "raises" -> Raise(pc + 1, [m EXCEPT !.local = FALSE], event)
             [] kind = "request" -> LeavesAfterAlloc(m, event)
             [] kind = "none" -> GoOn(pc + 1, m, 1)

\* The function called has returned, or native code was left below it. What it
\* raised is caught by Execute.
AfterCall(m, left, event) ==
  IF m.exc # "none" THEN Raise(pc + 1, [m EXCEPT !.local = FALSE], event)
  ELSE Advance(IF left THEN "interpreter" ELSE "native", pc + 1,
               IF left THEN Interpreted(m) ELSE m, 1, NoShadow, event)

\* The helper runs the function from where the stack pointer is now.
SlowCall(m) ==
  LET flushed == FlushCachedLocals(m)
  IN  ReloadCachedLocals(CallOf(program, Here, flushed, Var(flushed, Here.a)))

\* r is what the inlined code of the call has come to.
FinishCall(r, kind) ==
  LET left == r.how = "left" \/ (r.how = "slow" /\ kind # "none")
  IN  AfterCall(IF r.how = "slow" THEN SlowCall(r.m) ELSE r.m, left,
                [kind |-> kind, how |-> r.how, m |-> r.m])

RunCall ==
  /\ IsNative(CallOps)
  /\ \E kind \in Events(Here) :
       FinishCall(CodeOfCall(program, Here, native, kind = "request", kind = "leaves"),
                  kind)

ControlOps == {"JitEntry", "SUSPEND", "RET", "CALLSYS", "AllocApp", "JMPP"} \union CallOps

\* What starts a forward leaves its result in shadow; the instruction that takes
\* it stores it unless the value is dead by then.
AfterInstruction(m, takes) ==
  LET stored == IF takes /\ ~IsValueRegisterDeadFrom(program, pc + 1)
                THEN SetResult(native, shadow.value).vr ELSE native.vr
      starts == plan.forward[pc] > 0
  IN  IF m.exc # "none" THEN Raise(pc, m, NoEvent)
      ELSE IF starts
      THEN Advance("native", pc + 1, [m EXCEPT !.vr = native.vr], 1,
                   [active |-> TRUE, value |-> m.vr[1]], NoEvent)
      ELSE IF takes
      THEN Advance("native", pc + 1, [m EXCEPT !.vr = stored], 1, NoShadow, NoEvent)
      ELSE Advance("native", pc + 1, m, 1, shadow, NoEvent)

\* Any other instruction.
RunInstruction ==
  /\ mode = "native"
  /\ ~IsBranch(Here.op) /\ Here.op \notin ControlOps
  /\ plan.packed[pc].width = 0 /\ plan.fusion[pc].span = 0
  /\ plan.copies[pc] = 0
  /\ LET takes == shadow.active /\ \E k \in Positions(program) : plan.forward[k] = pc
         given == IF takes THEN SetResult(native, shadow.value) ELSE native
     IN  AfterInstruction(EmitInstruction(Here, given), takes)

-----------------------------------------------------------------------------
(* The interpreter runs the function until it comes to a JitEntry.         *)

EnterNative ==
  /\ mode = "interpreter" /\ pc \in Positions(program) /\ Here.op = "JitEntry"
  /\ native' = Entered(native) /\ mode' = "native"
  /\ UNCHANGED <<program, plan, pc, shadow, ipc, interpreter, from>>

InterpretHere ==
  LET Arrive(r, kind) == Advance("interpreter", r.pc, r.m, 1, NoShadow,
                                 [NoEvent EXCEPT !.kind = kind])
  IN  /\ mode = "interpreter" /\ Here.op # "JitEntry"
      /\ \E kind \in Events(Here) \ {"request", "leaves"} :
           Arrive(InterpretOne(program, pc, native, kind), kind)

RunOrInterpret ==
  \/ RunPackedFloats \/ RunCopiedHandle \/ RunFusedComparison \/ RunBranch
  \/ RunJumpTable \/ RunJitEntry \/ RunSuspend \/ RunReturn \/ RunSystemCall
  \/ RunAllocForApplication \/ RunCall \/ RunInstruction \/ InterpretHere

Next == EnterNative \/ (RunOrInterpret /\ Follow)

Spec == Init /\ [][Next]_codeVars

-----------------------------------------------------------------------------
(* Where the two are known to part, at the last step.                      *)

At(k) == program.code[k]
WasNative == from.mode = "native" /\ from.to = "native"

\* js and jns after a signed comparison look at the sign of the difference,
\* which is wrong when the difference overflows.
SignOfOverflow ==
  /\ WasNative
  /\ plan.fusion[from.pc].span > 0 /\ plan.fusion[from.pc].op \in {"JS", "JNS"}
  /\ ~IsUnsignedCompare(At(from.pc).op)
  /\ CompareFlags(At(from.pc), from.m).overflow

\* The fast path of CatchLocalException does not look for temporaries. (The
\* instruction before a catch block jumps over it.)
TemporaryKept ==
  LET t == CatchTry(program, from.pc)
  IN  /\ WasNative /\ t > 0 /\ pc = program.tries[t].catch
      /\ ~LocalCatchNeedsCleanup(program, t)
      /\ \E v \in program.objects :
           v.declared = 0 /\ LoadVar(from.m, v.at) # 0

\* How the inlined code of a call ended, in the last step.
LastCall == from.event

\* The slow path runs the function from its start, after what its inlined code
\* has done to objects, to variables or to the stack pointer.
RestartedLate ==
  /\ LastCall.how = "slow"
  /\ \/ LastCall.m.sp # from.m.sp \/ LastCall.m.object # from.m.object
     \/ \E x \in DOMAIN from.m.mem :
          x >= from.m.sp /\ LastCall.m.mem[x] # from.m.mem[x]

\* A function pointer called by an inlined body leaves native code: the rest of
\* the body is not run.
LeftInside ==
  LastCall.how = "left" /\ LastCall.m.exc = "none"

\* An inlined body changes a variable of its own through its address, while the
\* variable is in a register.
LocalThroughAddress ==
  /\ LastCall.how = "done"
  /\ \E n \in DOMAIN program.callees :
       LET f == program.callees[n]
       IN  \E k \in Positions(f) :
             Op(f, k) \in {"LDV", "LoadVObjR"} /\ f.code[k].a \in 1..f.space

\* A suspension behind an allocation without constructor: the interpreter goes
\* on somewhere else.
StaleAfterAlloc ==
  /\ from.mode = "native" /\ LastCall.kind = "request"
  /\ At(from.pc).op = "AllocApp" /\ At(from.pc).kind = "plain"

-----------------------------------------------------------------------------
\* Words in memory, and locals in registers exactly while native code runs.
FunctionTypeOK ==
  /\ mode \in {"native", "interpreter", "done", "apart"}
  /\ pc \in 0..Len(program.code) /\ ipc \in 0..Len(program.code)
  /\ mode = "native" => DOMAIN native.reg = plan.cached
  /\ mode \in {"interpreter", "done"} => native.reg = NoRegisters
  /\ shadow.active \in BOOLEAN
  /\ \A x \in DOMAIN native.mem : native.mem[x] \in Word
  /\ mode \in {"native", "interpreter"} =>
       IsMachineState(native) /\ IsMachineState(interpreter)

\* The variables that a shortcut, a jump table or the cleaning of the frame here
\* reads.
VariablesHere ==
  IF plan.packed[pc].width > 0
  THEN LET g == plan.packed[pc]
       IN  UNION {{At(k).a, IF At(k).op \in FloatOps THEN At(k).c ELSE At(k).a} :
                    k \in LanePositions(pc, g.width, g.stride)}
  ELSE IF plan.copies[pc] > 0 THEN {Here.a, At(pc + 1).a}
  ELSE IF plan.fusion[pc].span > 0
  THEN IF Here.op \in {"CMPIi", "CMPIu"} THEN {Here.a} ELSE {Here.a, Here.b}
  ELSE IF Here.op = "JMPP" THEN {Here.a}
  ELSE IF Here.op \in {"CALLSYS", "AllocApp"} THEN {v.at : v \in program.objects}
  ELSE {}

\* As long as native code and the interpreter go on, they are at the same
\* instruction in the same state.
Together ==
  mode \in {"native", "interpreter"} => ipc = pc /\ SameState(native, interpreter)

\* Native code has what decides on the way it goes and on what a shortcut does:
\* the value register where a branch looks at it, the variables in the frame,
\* handles that are objects or null, never variables. What is declared behind a
\* try block is null in it.
WayIsKnown ==
  mode = "native" =>
    /\ DOMAIN native.mem = DOMAIN interpreter.mem /\ 0 \notin DOMAIN native.mem
    /\ \A o \in VariablesHere :
         o \in Int /\ Fp - o >= native.sp /\ Fp - o \in DOMAIN native.mem
    /\ IsConditionalBranch(Here.op) \/ Here.op = "RET" =>
         native.vr[1] = interpreter.vr[1]
    /\ plan.fusion[pc].span > 0 => Here.q[1] \in Word
    /\ plan.copies[pc] > 0 =>
         /\ native.sp - 1 \in DOMAIN native.mem
         /\ \A o \in VariablesHere : Fp - native.mem[Fp - o] \notin VariablesHere
    /\ Here.op = "AllocApp" => native.sp \in DOMAIN native.mem
    /\ Here.op = "CALLSYS" /\ CatchTry(program, pc) > 0 =>
         \A v \in program.objects :
           v.declared < program.tries[CatchTry(program, pc)].catch
             \/ LoadVar(native, v.at) = 0

\* Native code and the interpreter go the same way from the same state: also
\* after an entry, which loads the cached locals, and after a forward, which must
\* be over where a branch looks at the value register.
GoTogether == Together /\ WayIsKnown

\* Native code, with its shortcuts, its exits to the interpreter and its entries
\* from it, does to the program what the interpreter does (jit_consistency.cpp
\* compares results and exceptions of whole functions), except in exactly six
\* cases.
OnlyKnownDifferences ==
  mode = "apart" <=> \/ SignOfOverflow \/ TemporaryKept
                     \/ RestartedLate \/ LeftInside \/ LocalThroughAddress
                     \/ StaleAfterAlloc

\* Native code never comes to an instruction that was taken into another one:
\* jumps, catch blocks and entries lead to labels, and labels stop every fusion.
CodeExists ==
  mode = "native" =>
    /\ pc \notin plan.without
    /\ \A k \in Positions(program) :
         k < pc /\ pc < k + plan.packed[k].span => plan.packed[k].stride = 2

\* A forwarded value register is taken before control can come from or go to
\* anywhere else, and before anything that would not keep it: a shortcut, or
\* the start of another forward. (That the machines are apart is only found
\* after the step.)
ForwardIsTaken ==
  shadow.active =>
    /\ mode \in {"native", "apart"} /\ pc \notin NeedsLabel(program)
    /\ Here.op \notin ControlOps /\ ~IsBranch(Here.op)
    /\ plan.copies[pc] = 0 /\ plan.fusion[pc].span = 0 /\ plan.forward[pc] = 0
=============================================================================
