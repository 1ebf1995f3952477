--------------------------- MODULE MemoryHelpers ---------------------------
(***************************************************************************)
(* What the instructions that move values do in the interpreter: the       *)
(* helpers of stack_memory_helpers.cpp and those of object_helpers.cpp     *)
(* that only move or count references. An object is its address: the word  *)
(* there is its reference count, the words after it its properties.        *)
(***************************************************************************)
EXTENDS NumericHelpers

(* stack_memory_helpers.cpp                                                *)

PushOps == {"PopPtr", "PshGPtr", "PshC4", "PshV4", "PSF", "SwapPtr", "PshG4"}
Push(i, m) ==
  CASE i.op = "PopPtr" -> Popped(m)
    [] i.op \in {"PshGPtr", "PshG4"} -> Pushed(m, <<m.mem[i.p]>>)
    [] i.op = "PshC4" -> Pushed(m, <<i.q[1]>>)
    [] i.op = "PshV4" -> Pushed(m, <<Var(m, i.a)>>)
    [] i.op = "PSF" -> Pushed(m, <<Fp - i.a>>)
    [] i.op = "SwapPtr" -> [m EXCEPT !.mem[m.sp] = m.mem[m.sp + 1],
                                     !.mem[m.sp + 1] = m.mem[m.sp]]

LoadGlobalOps == {"LdGRdR4"}
LoadGlobal(i, m) == SetVar(SetResult(m, i.p), i.a, m.mem[i.p])

CopyOps == {"COPY"}
Copy(i, m) ==
  LET d == Top(m)
      t == Popped(m)
      s == Top(t)
  IN  IF d = 0 \/ s = 0
      THEN SetInternalException(t, "TXT_NULL_POINTER_ACCESS")
      ELSE [t EXCEPT !.mem = [x \in DOMAIN t.mem |->
                                IF x = t.sp THEN d
                                ELSE IF x \in d..d + i.a - 1 THEN @[s + x - d]
                                ELSE @[x]]]

PushMoreOps == {"PshC8", "PshVPtr", "RDSPtr", "PopRPtr", "PshRPtr"}
PushMore(i, m) ==
  CASE i.op = "PshC8" -> Pushed(m, i.q)
    [] i.op = "PshVPtr" -> Pushed(m, <<Var(m, i.a)>>)
    [] i.op = "RDSPtr" -> NullCheck(m, Top(m), SetTop(m, m.mem[Top(m)]))
    [] i.op = "PopRPtr" -> Popped(SetResult(m, Top(m)))
    [] i.op = "PshRPtr" -> Pushed(m, <<m.vr[1]>>)

SetVariableOps == {"SetV1", "SetV2", "SetV4", "SetV8"}
SetVariable(i, m) ==
  IF i.op = "SetV8" THEN SetVar64(m, i.a, Quad(i.q[1], i.q[2]))
  ELSE SetVar(m, i.a, i.q[1])

AddAddressOps == {"ADDSi"}
AddAddress(i, m) ==
  NullCheck(m, Top(m), SetTop(m, Low(Top(m) + i.a, WordBits)))

CopyVariableOps == {"CpyVtoV4", "CpyVtoV8", "CpyVtoR4", "CpyVtoR8",
                    "CpyVtoG4", "CpyRtoV4", "CpyRtoV8", "CpyGtoV4"}
CopyVariable(i, m) ==
  CASE i.op = "CpyVtoV4" -> SetVar(m, i.a, Var(m, i.b))
    [] i.op = "CpyVtoV8" -> SetVar64(m, i.a, Var64(m, i.b))
    [] i.op = "CpyVtoR4" -> SetResult(m, Var(m, i.a))
    [] i.op = "CpyVtoR8" ->
         [m EXCEPT !.vr = <<Var(m, i.a), Var(m, i.a - 1)>>]
    [] i.op = "CpyVtoG4" -> [m EXCEPT !.mem[i.p] = Var(m, i.a)]
    [] i.op = "CpyRtoV4" -> SetVar(m, i.a, m.vr[1])
    [] i.op = "CpyRtoV8" -> SetVar64(m, i.a, Quad(m.vr[1], m.vr[2]))
    [] i.op = "CpyGtoV4" -> SetVar(m, i.a, m.mem[i.p])

\* Through the address in the value register.
IndirectOps == {"WRTV1", "WRTV2", "WRTV4", "WRTV8",
                "RDR1", "RDR2", "RDR4", "RDR8"}
Indirect(i, m) ==
  LET at == Fp - m.vr[1]
      \* the low n bits of the dword written, the others kept
      Write(n) == SetVar(m, at, Var(m, at) - Low(Var(m, at), n)
                                  + Low(Var(m, i.a), n))
  IN  CASE i.op = "WRTV1" -> Write(ByteBits)
        [] i.op = "WRTV2" -> Write(ShortBits)
        [] i.op = "WRTV4" -> Write(WordBits)
        [] i.op = "WRTV8" -> SetVar64(m, at, Var64(m, i.a))
        [] i.op = "RDR1" -> SetVar(m, i.a, Low(Var(m, at), ByteBits))
        [] i.op = "RDR2" -> SetVar(m, i.a, Low(Var(m, at), ShortBits))
        [] i.op = "RDR4" -> SetVar(m, i.a, Var(m, at))
        [] i.op = "RDR8" -> SetVar64(m, i.a, Var64(m, at))

AddressOps == {"LDG", "LDV", "PGA", "VAR", "PshV8"}
Address(i, m) ==
  CASE i.op = "LDG" -> SetResult(m, i.p)
    [] i.op = "LDV" -> SetResult(m, Fp - i.a)
    [] i.op = "PGA" -> Pushed(m, <<i.p>>)
    [] i.op = "VAR" -> Pushed(m, <<Low(i.a, WordBits)>>)
    [] i.op = "PshV8" -> Pushed(m, <<Var(m, i.a), Var(m, i.a - 1)>>)

-----------------------------------------------------------------------------
(* object_helpers.cpp                                                      *)

AddRef(m, object) == [m EXCEPT !.mem[object] = @ + 1]
Release(m, object) == [m EXCEPT !.mem[object] = @ - 1]

FreeOps == {"FREE"}
Free(i, m) ==
  IF Var(m, i.a) = 0 THEN m ELSE SetVar(Release(m, Var(m, i.a)), i.a, 0)

ObjectRegisterOps == {"LOADOBJ", "STOREOBJ"}
ObjectRegister(i, m) ==
  IF i.op = "LOADOBJ" THEN SetVar([m EXCEPT !.object = Var(m, i.a)], i.a, 0)
  ELSE [SetVar(m, i.a, m.object) EXCEPT !.object = 0]

\* The stack holds the offset of a variable; it is replaced by what the
\* variable holds, or by its address.
ArgumentOps == {"GETOBJ", "GETOBJREF", "GETREF"}
Argument(i, m) ==
  LET at == m.sp + i.a
      o == m.mem[at]
      got == [m EXCEPT !.mem[at] = Var(m, o)]
  IN  CASE i.op = "GETOBJ" -> SetVar(got, o, 0)
        [] i.op = "GETOBJREF" -> got
        [] i.op = "GETREF" -> [m EXCEPT !.mem[at] = Fp - o]

\* The old reference goes before the new one comes.
Replaced(m, d, s) ==
  LET old == IF m.mem[d] = 0 THEN m ELSE Release(m, m.mem[d])
      new == IF s = 0 THEN old ELSE AddRef(old, s)
  IN  [new EXCEPT !.mem[d] = s]

ReferenceCopyOps == {"REFCPY"}
ReferenceCopy(i, m) == Replaced(Popped(m), Top(m), Top(Popped(m)))

CheckOps == {"CHKREF", "ChkRefS", "ChkNullV", "ChkNullS"}
Check(i, m) ==
  NullCheck(m, CASE i.op = "CHKREF" -> Top(m)
                 [] i.op = "ChkRefS" -> m.mem[Top(m)]
                 [] i.op = "ChkNullV" -> Var(m, i.a)
                 [] i.op = "ChkNullS" -> m.mem[m.sp + i.a], m)

PushObjectOps == {"PshNull", "ClrVPtr", "OBJTYPE", "TYPEID"}
PushObject(i, m) ==
  CASE i.op = "PshNull" -> Pushed(m, <<0>>)
    [] i.op = "ClrVPtr" -> SetVar(m, i.a, 0)
    [] i.op = "OBJTYPE" -> Pushed(m, <<i.p>>)
    [] i.op = "TYPEID" -> Pushed(m, <<i.q[1]>>)

\* kind "derives": the object is of the type the cast asks for.
CastOps == {"Cast"}
Cast(i, m) ==
  LET s == IF Top(m) = 0 THEN 0 ELSE m.mem[Top(m)]
      cast == IF s # 0 /\ i.kind = "derives"
              THEN AddRef([m EXCEPT !.object = s], s) ELSE m
  IN  Popped(cast)

PropertyOps == {"FuncPtr", "LoadThisR", "LoadRObjR", "LoadVObjR"}
Property(i, m) ==
  CASE i.op = "FuncPtr" -> Pushed(m, <<i.p>>)
    [] i.op = "LoadThisR" ->
         NullCheck(m, Var(m, 0), SetResult(m, Var(m, 0) + i.a))
    [] i.op = "LoadRObjR" ->
         NullCheck(m, Var(m, i.a), SetResult(m, Var(m, i.a) + i.b))
    [] i.op = "LoadVObjR" -> SetResult(m, Fp - i.a + i.b)

ReferenceCopyVariableOps == {"RefCpyV"}
ReferenceCopyVariable(i, m) == Replaced(m, Fp - i.a, Top(m))

ListOps == {"SetListSize", "PshListElmnt", "SetListType"}
List(i, m) ==
  LET at == Var(m, i.a) + i.q[1]
  IN  IF i.op = "PshListElmnt" THEN Pushed(m, <<at>>)
      ELSE [m EXCEPT !.mem[at] = i.q[2]]

-----------------------------------------------------------------------------
\* GetJitBcHelper and the call of the helper.
Interpret(i, m) ==
  CASE i.op \in NegateOps -> Negate(i, m)
    [] i.op \in StepOps -> Step(i, m)
    [] i.op \in StepVariableOps -> StepVariable(i, m)
    [] i.op \in BitOps -> Bit(i, m)
    [] i.op \in ConvertOps -> Convert(i, m)
    [] i.op \in ExtendOps -> ExtendPart(i, m)
    [] i.op \in ConvertDoubleOps -> ConvertDouble(i, m)
    [] i.op \in IntegerOps -> Integer(i, m)
    [] i.op \in DivideOps -> Divide(i, m)
    [] i.op \in FloatOps -> Float(i, m)
    [] i.op \in DoubleOps -> Double(i, m)
    [] i.op \in IntegerImmediateOps -> IntegerImmediate(i, m)
    [] i.op \in FloatImmediateOps -> FloatImmediate(i, m)
    [] i.op \in SetGlobalOps -> SetGlobal(i, m)
    [] i.op \in NarrowOps -> Narrow(i, m)
    [] i.op \in Convert64Ops -> Convert64(i, m)
    [] i.op \in Unary64Ops -> Unary64(i, m)
    [] i.op \in Integer64Ops -> Integer64(i, m)
    [] i.op \in Divide64Ops -> Divide64(i, m)
    [] i.op \in Bit64Ops -> Bit64(i, m)
    [] i.op \in Shift64Ops -> Shift64(i, m)
    [] i.op \in Compare64Ops -> Compare64(i, m)
    [] i.op \in ClearHighOps -> ClearHigh(i, m)
    [] i.op \in DivideUnsignedOps -> DivideUnsigned(i, m)
    [] i.op \in DivideUnsigned64Ops -> DivideUnsigned64(i, m)
    [] i.op \in TestOps -> Test(i, m)
    [] i.op \in CompareOps -> CompareVariables(i, m)
    [] i.op \in PowerOps -> RaiseToPower(i, m)
    [] i.op \in PushOps -> Push(i, m)
    [] i.op \in LoadGlobalOps -> LoadGlobal(i, m)
    [] i.op \in CopyOps -> Copy(i, m)
    [] i.op \in PushMoreOps -> PushMore(i, m)
    [] i.op \in SetVariableOps -> SetVariable(i, m)
    [] i.op \in AddAddressOps -> AddAddress(i, m)
    [] i.op \in CopyVariableOps -> CopyVariable(i, m)
    [] i.op \in IndirectOps -> Indirect(i, m)
    [] i.op \in AddressOps -> Address(i, m)
    [] i.op \in FreeOps -> Free(i, m)
    [] i.op \in ObjectRegisterOps -> ObjectRegister(i, m)
    [] i.op \in ArgumentOps -> Argument(i, m)
    [] i.op \in ReferenceCopyOps -> ReferenceCopy(i, m)
    [] i.op \in CheckOps -> Check(i, m)
    [] i.op \in PushObjectOps -> PushObject(i, m)
    [] i.op \in CastOps -> Cast(i, m)
    [] i.op \in PropertyOps -> Property(i, m)
    [] i.op \in ReferenceCopyVariableOps -> ReferenceCopyVariable(i, m)
    [] i.op \in ListOps -> List(i, m)

\* The instructions that have a helper.
InterpretedOps ==
  UNION {NegateOps, StepOps, StepVariableOps, BitOps, ConvertOps,
         ExtendOps, ConvertDoubleOps, IntegerOps, DivideOps, FloatOps, DoubleOps,
         IntegerImmediateOps, FloatImmediateOps, SetGlobalOps, NarrowOps,
         Convert64Ops, Unary64Ops, Integer64Ops, Divide64Ops, Bit64Ops,
         Shift64Ops, Compare64Ops, ClearHighOps, DivideUnsignedOps,
         DivideUnsigned64Ops, TestOps, CompareOps, PowerOps, PushOps,
         LoadGlobalOps, CopyOps, PushMoreOps, SetVariableOps, AddAddressOps,
         CopyVariableOps, IndirectOps, AddressOps, FreeOps, ObjectRegisterOps,
         ArgumentOps, ReferenceCopyOps, CheckOps, PushObjectOps, CastOps,
         PropertyOps, ReferenceCopyVariableOps, ListOps}
=============================================================================
