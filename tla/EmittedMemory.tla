--------------------------- MODULE EmittedMemory ---------------------------
(***************************************************************************)
(* What the native code of the instructions that move values does          *)
(* (memory.cpp, stack.cpp and references.cpp), and the order in which      *)
(* EmitInstruction asks the emitters. What goes through LoadVar and        *)
(* StoreVar knows the cached locals; Var, SetVar and the stack are plain   *)
(* accesses to memory. A machine has one more field, inlineFields: the     *)
(* function is short enough for field accesses of its own.                 *)
(***************************************************************************)
EXTENDS EmittedInstructions

(* EmitMemory                                                              *)

SetWord(i, m) == StoreVar(m, i.a, i.q[1])
CopyWord(i, m) == StoreVar(m, i.a, LoadVar(m, i.b))
WordToRegister(i, m) == SetResult(m, LoadVar(m, i.a))
QuadToRegister(i, m) == [m EXCEPT !.vr = LoadVar64(m, i.a)]
RegisterToWord(i, m) == StoreVar(m, i.a, m.vr[1])
RegisterToQuad(i, m) == StoreVar64(m, i.a, m.vr)
SetQuad(i, m) == StoreVar64(m, i.a, i.q)
CopyQuad(i, m) == StoreVar64(m, i.a, LoadVar64(m, i.b))
WordToGlobal(i, m) == [m EXCEPT !.mem[i.p] = LoadVar(m, i.a)]
GlobalToWord(i, m) == StoreVar(m, i.a, m.mem[i.p])
SetGlobalWord(i, m) == [m EXCEPT !.mem[i.p] = i.q[1]]

\* The low n bits of a dword in memory, the others kept.
WritePart(m, at, x, n) == [m EXCEPT !.mem[at] = @ - Low(@, n) + Low(x, n)]

WidthOf(op) ==
  CASE op \in {"WRTV1", "RDR1", "INCi8", "DECi8", "sbTOi", "ubTOi", "iTOb"} ->
         ByteBits
    [] op \in {"WRTV2", "RDR2", "INCi16", "DECi16", "swTOi", "uwTOi", "iTOw"} ->
         ShortBits
    [] op \in {"WRTV4", "RDR4", "INCi", "DECi"} -> WordBits

WriteField(i, m) == WritePart(m, m.vr[1], LoadVar(m, i.a), WidthOf(i.op))

\* The halves come from the frame, which no cached function does with this op.
WriteQuadField(i, m) ==
  [m EXCEPT !.mem[m.vr[1]] = Var(m, i.a), !.mem[m.vr[1] + 1] = Var(m, i.a - 1)]

ReadField(i, m) == StoreVar(m, i.a, Low(m.mem[m.vr[1]], WidthOf(i.op)))

ReadQuadField(i, m) ==
  SetVar(SetVar(m, i.a, m.mem[m.vr[1]]), i.a - 1, m.mem[m.vr[1] + 1])

AddressOfField(i, m) == SetResult(m, Fp - i.a + i.b)

FieldOfObject(i, m) ==
  LET object == Var(m, IF i.op = "LoadThisR" THEN 0 ELSE i.a)
      field == IF i.op = "LoadThisR" THEN i.a ELSE i.b
  IN  NullGuard(m, object, SetResult(m, object + field))

CheckVariable(i, m) == NullGuard(m, Var(m, i.a), m)
GlobalAddress(i, m) == SetResult(m, i.p)
LocalAddress(i, m) == SetResult(m, Fp - i.a)

StepThroughAddress(i, m) ==
  LET at == m.vr[1]
      up == i.op \in {"INCi", "INCi8", "INCi16"}
  IN  WritePart(m, at, m.mem[at] + (IF up THEN 1 ELSE -1), WidthOf(i.op))

StepFloat(i, m) ==
  LET one == One(WordBits)
      x == m.mem[m.vr[1]]
  IN  [m EXCEPT !.mem[m.vr[1]] =
         Half(SumOf(x, IF i.op = "INCf" THEN one ELSE Negated(one, WordBits),
                    WordBits))]

StepDouble(i, m) ==
  LET one == One(QuadBits)
      x == Quad(m.mem[m.vr[1]], m.mem[m.vr[1] + 1])
      y == SumOf(x, IF i.op = "INCd" THEN one ELSE Negated(one, QuadBits), QuadBits)
  IN  [m EXCEPT !.mem[m.vr[1]] = Halves(y)[1], !.mem[m.vr[1] + 1] = Halves(y)[2]]

\* add and adc, sub and sbb.
StepQuad(i, m) ==
  LET low == m.mem[m.vr[1]]
      high == m.mem[m.vr[1] + 1]
      up == i.op = "INCi64"
  IN  [m EXCEPT !.mem[m.vr[1]] = Half(low + (IF up THEN 1 ELSE -1)),
                !.mem[m.vr[1] + 1] =
                   Half(IF up THEN high + Truth(low = MinusOne(WordBits))
                        ELSE high - Truth(low = 0))]

ClearPointer(i, m) == StoreVar(m, i.a, 0)
LoadGlobalWord(i, m) == StoreVar(SetResult(m, i.p), i.a, m.mem[i.p])

ExtendOrCut(i, m) ==
  LET x == LoadVar(m, i.a)
      n == WidthOf(i.op)
  IN  StoreVar(m, i.a, IF i.op \in {"sbTOi", "swTOi"} THEN Extend(x, n, WordBits)
                       ELSE Low(x, n))

FieldOps == IndirectOps \union (PropertyOps \ {"FuncPtr"})

EmitMemory(i, m) ==
  IF i.op \in FieldOps /\ ~m.inlineFields THEN EmitHelperCall(i, m)
  ELSE CASE i.op = "SetV4" -> SetWord(i, m)
         [] i.op = "CpyVtoV4" -> CopyWord(i, m)
         [] i.op = "CpyVtoR4" -> WordToRegister(i, m)
         [] i.op = "CpyVtoR8" -> QuadToRegister(i, m)
         [] i.op = "CpyRtoV4" -> RegisterToWord(i, m)
         [] i.op = "CpyRtoV8" -> RegisterToQuad(i, m)
         [] i.op = "SetV8" -> SetQuad(i, m)
         [] i.op = "CpyVtoV8" -> CopyQuad(i, m)
         [] i.op = "CpyVtoG4" -> WordToGlobal(i, m)
         [] i.op = "CpyGtoV4" -> GlobalToWord(i, m)
         [] i.op = "SetG4" -> SetGlobalWord(i, m)
         [] i.op \in {"WRTV1", "WRTV2", "WRTV4"} -> WriteField(i, m)
         [] i.op = "WRTV8" -> WriteQuadField(i, m)
         [] i.op \in {"RDR1", "RDR2", "RDR4"} -> ReadField(i, m)
         [] i.op = "RDR8" -> ReadQuadField(i, m)
         [] i.op = "LoadVObjR" -> AddressOfField(i, m)
         [] i.op \in {"LoadThisR", "LoadRObjR"} -> FieldOfObject(i, m)
         [] i.op = "ChkNullV" -> CheckVariable(i, m)
         [] i.op = "LDG" -> GlobalAddress(i, m)
         [] i.op = "LDV" -> LocalAddress(i, m)
         [] i.op \in {"INCi", "DECi", "INCi8", "DECi8", "INCi16", "DECi16"} ->
              StepThroughAddress(i, m)
         [] i.op \in {"INCf", "DECf"} -> StepFloat(i, m)
         [] i.op \in {"INCd", "DECd"} -> StepDouble(i, m)
         [] i.op \in {"INCi64", "DECi64"} -> StepQuad(i, m)
         [] i.op = "ClrVPtr" -> ClearPointer(i, m)
         [] i.op = "LdGRdR4" -> LoadGlobalWord(i, m)
         [] i.op \in ExtendOps \union NarrowOps -> ExtendOrCut(i, m)

MemoryOps ==
  StepOps \union ExtendOps \union NarrowOps \union FieldOps \union LoadGlobalOps
    \union SetGlobalOps \union CopyVariableOps
    \union {"SetV4", "SetV8", "ChkNullV", "LDG", "LDV", "INCi64", "DECi64",
            "ClrVPtr"}

-----------------------------------------------------------------------------
(* EmitStack                                                               *)

PushVariable(i, m) == Pushed(m, <<LoadVar(m, i.a)>>)
PushVariable64(i, m) == Pushed(m, LoadVar64(m, i.a))
PopPointer(i, m) == Popped(m)
PopToRegister(i, m) == SetResult(Popped(m), Top(m))
PushRegister(i, m) == Pushed(m, <<m.vr[1]>>)
PushConstant(i, m) == Pushed(m, <<i.q[1]>>)
PushConstant64(i, m) == Pushed(m, i.q)
PushPointerArgument(i, m) == Pushed(m, <<i.p>>)
PushOffset(i, m) == Pushed(m, <<Half(i.a)>>)
PushFrameAddress(i, m) == Pushed(m, <<Fp - i.a>>)
PushGlobal(i, m) == Pushed(m, <<m.mem[i.p]>>)
PushNull(i, m) == Pushed(m, <<0>>)

Swap(i, m) == [m EXCEPT !.mem[m.sp] = m.mem[m.sp + 1],
                        !.mem[m.sp + 1] = m.mem[m.sp]]

AddToTop(i, m) == NullGuard(m, Top(m), SetTop(m, Half(Top(m) + i.a)))
ReadThroughTop(i, m) == NullGuard(m, Top(m), SetTop(m, m.mem[Top(m)]))

EmitStack(i, m) ==
  CASE i.op \in {"PshC4", "TYPEID"} -> PushConstant(i, m)
    [] i.op = "PshV4" -> PushVariable(i, m)
    [] i.op = "PshV8" -> PushVariable64(i, m)
    [] i.op = "PopPtr" -> PopPointer(i, m)
    [] i.op = "PopRPtr" -> PopToRegister(i, m)
    [] i.op = "PshRPtr" -> PushRegister(i, m)
    [] i.op \in {"PGA", "OBJTYPE", "FuncPtr"} -> PushPointerArgument(i, m)
    [] i.op = "VAR" -> PushOffset(i, m)
    [] i.op = "PSF" -> PushFrameAddress(i, m)
    [] i.op = "PshC8" -> PushConstant64(i, m)
    [] i.op \in {"PshG4", "PshGPtr"} -> PushGlobal(i, m)
    [] i.op = "PshNull" -> PushNull(i, m)
    [] i.op = "SwapPtr" -> Swap(i, m)
    [] i.op = "ADDSi" -> AddToTop(i, m)
    [] i.op = "RDSPtr" -> ReadThroughTop(i, m)

StackOps == PushOps \union (PushMoreOps \ {"PshVPtr"}) \union AddAddressOps
              \union {"PshV8", "PGA", "VAR", "PshNull", "OBJTYPE", "TYPEID",
                      "FuncPtr"}

-----------------------------------------------------------------------------
(* EmitReferences                                                          *)

\* A call of a C++ function that sees the frame in memory.
Invoke(m, F(_)) == ReloadCachedLocals(F(FlushCachedLocals(m)))

FastReleaseScriptObject(m, object) == Release(m, object)
FastRefCopyScriptObject(m, destination, source) == Replaced(m, destination, source)

\* The reference changes hands: the source gives up its own.
FastMoveScriptObject(m, destination, source) ==
  LET current == m.mem[destination]
      released == IF current = 0 THEN m ELSE Release(m, current)
  IN  [released EXCEPT !.mem = [@ EXCEPT ![destination] = m.mem[source],
                                         ![source] = 0]]

FastCopied(i) == i.kind \in {"script", "function"}

PushPointer(i, m) == Pushed(m, <<LoadVar(m, i.a)>>)

FreeVariable(i, m) ==
  LET object == LoadVar(m, i.a)
      Freed(n) == FastReleaseScriptObject(n, object)
  IN  IF ~FastCopied(i) THEN EmitHelperCall(i, m)
      ELSE IF object = 0 THEN m ELSE StoreVar(Invoke(m, Freed), i.a, 0)

StoreObject(i, m) == [StoreVar(m, i.a, m.object) EXCEPT !.object = 0]
LoadObject(i, m) == StoreVar([m EXCEPT !.object = LoadVar(m, i.a)], i.a, 0)

ObjectArgument(i, m) ==
  LET slot == m.sp + i.a
      offset == m.mem[slot]
      got == [m EXCEPT !.mem[slot] = Var(m, offset)]
  IN  IF i.op = "GETOBJ" THEN SetVar(got, offset, 0) ELSE got

ReferenceArgument(i, m) ==
  LET slot == m.sp + i.a IN [m EXCEPT !.mem[slot] = Fp - @]

CopyReference(i, m) ==
  LET popped == IF i.op = "REFCPY" THEN Popped(m) ELSE m
      destination == IF i.op = "REFCPY" THEN Top(m) ELSE Fp - i.a
      Copied(n) == FastRefCopyScriptObject(n, destination, Top(popped))
  IN  IF FastCopied(i) THEN Invoke(popped, Copied) ELSE EmitHelperCall(i, m)

TryScriptObjectCast(i, m, object) ==
  IF i.kind = "derives" THEN AddRef([m EXCEPT !.object = object], object) ELSE m

\* The target of an asBC_Cast is a script class or an interface: BcCast and the
\* interpreter assert it, so that the case left to the helper never happens.
CastReference(i, m) ==
  LET object == IF Top(m) = 0 THEN 0 ELSE m.mem[Top(m)]
      Tried(n) == TryScriptObjectCast(i, n, object)
  IN  Popped(IF object = 0 THEN m ELSE Invoke(m, Tried))

CheckTop(i, m) == NullGuard(m, Top(m), m)
CheckReference(i, m) == NullGuard(m, m.mem[Top(m)], m)
CheckArgument(i, m) == NullGuard(m, m.mem[m.sp + i.a], m)

CopyBytes(i, m) ==
  LET d == Top(m)
      popped == Popped(m)
      s == Top(popped)
      Bytes(n) == [n EXCEPT !.mem = [x \in DOMAIN @ |->
                     IF x \in d..d + i.a - 1 THEN @[s + x - d] ELSE @[x]]]
  IN  IF d = 0 \/ s = 0
      THEN EmitInternalException(popped, "TXT_NULL_POINTER_ACCESS")
      ELSE SetTop(Invoke(popped, Bytes), d)

SetListField(i, m) == [m EXCEPT !.mem[LoadVar(m, i.a) + i.q[1]] = i.q[2]]
PushListElement(i, m) == Pushed(m, <<LoadVar(m, i.a) + i.q[1]>>)

EmitReferences(i, m) ==
  CASE i.op = "PshVPtr" -> PushPointer(i, m)
    [] i.op = "FREE" -> FreeVariable(i, m)
    [] i.op = "STOREOBJ" -> StoreObject(i, m)
    [] i.op = "LOADOBJ" -> LoadObject(i, m)
    [] i.op \in {"GETOBJ", "GETOBJREF"} -> ObjectArgument(i, m)
    [] i.op = "GETREF" -> ReferenceArgument(i, m)
    [] i.op \in {"REFCPY", "RefCpyV"} -> CopyReference(i, m)
    [] i.op = "Cast" -> CastReference(i, m)
    [] i.op = "CHKREF" -> CheckTop(i, m)
    [] i.op = "ChkRefS" -> CheckReference(i, m)
    [] i.op = "ChkNullS" -> CheckArgument(i, m)
    [] i.op = "COPY" -> CopyBytes(i, m)
    [] i.op \in {"SetListSize", "SetListType"} -> SetListField(i, m)
    [] i.op = "PshListElmnt" -> PushListElement(i, m)

ReferenceOps ==
  {"PshVPtr"} \union FreeOps \union ObjectRegisterOps \union ArgumentOps
    \union ReferenceCopyOps \union ReferenceCopyVariableOps \union CastOps
    \union {"CHKREF", "ChkRefS", "ChkNullS"} \union CopyOps \union ListOps

-----------------------------------------------------------------------------
\* The first emitter that knows the instruction; the rest is left to helpers.
\* An ALLOC of a script class calls the constructor: a call, and therefore in
\* InlinedCalls and FunctionCode (as a "method" in JitCallChain), not here.
EmitInstruction(i, m) ==
  CASE i.op \in StackOps -> EmitStack(i, m)
    [] i.op \in ReferenceOps -> EmitReferences(i, m)
    [] i.op \in MemoryOps -> EmitMemory(i, m)
    [] i.op \in NumericOps -> EmitNumeric(i, m)
    [] OTHER -> EmitHelperCall(i, m)
-----------------------------------------------------------------------------
(* A machine between two instructions.                                     *)

Fields == {"mem", "reg", "vr", "sp", "object", "exc", "local", "sse", "inlineFields"}

IsMachineState(m) ==
  /\ DOMAIN m = Fields /\ m = [x \in Fields |-> m[x]]
  /\ DOMAIN m.mem \subseteq Int /\ m.mem \in [DOMAIN m.mem -> Word]
  /\ DOMAIN m.reg \subseteq Int /\ m.reg \in [DOMAIN m.reg -> Word]
  /\ \A o \in DOMAIN m.reg : Fp - o \in DOMAIN m.mem
  /\ m.vr \in Word \X Word /\ m.sp \in Int /\ m.object \in Word
  /\ m.exc = "none" /\ m.local = FALSE
=============================================================================
