------------------------- MODULE MCInstructionPairs -------------------------
(***************************************************************************)
(* Memory for TLC, in dwords: the stack in 1..4, locals 7 to 1 in 5..11,   *)
(* this at 12, a global of two words at 13, two script objects (count and  *)
(* two fields) at 15 and 18. Locals 3, 5 and 7 are the operands, words or  *)
(* 64-bit; 1 holds an object. With four cached locals at most, the double  *)
(* at 5 is split.                                                          *)
(***************************************************************************)
EXTENDS InstructionPairs

MCFp == 12
Global == 13
Object == 15
OtherObject == 18
Field == Object + 1

Words32 == {0, 1, 2, 3, 5, 8, 15, 16, 17, 127, 128, 129, 192, 254, 255}
ShortWords == {0, 1, 127, 128, 255}
Quads64 ==
  {<<0, 0>>, <<1, 0>>, <<255, 0>>, <<0, 1>>, <<5, 3>>, <<9, 0>>, <<12, 0>>,
   <<255, 127>>, <<0, 128>>, <<129, 128>>, <<255, 255>>, <<254, 255>>,
   <<0, 120>>, <<7, 122>>}

\* An instruction; what it does not use does not matter.
Ins(op, a, b, c) ==
  [op |-> op, a |-> a, b |-> b, c |-> c, q |-> <<0, 0>>, p |-> Global,
   kind |-> "script", square |-> FALSE]

-----------------------------------------------------------------------------
(* Groups of instructions by the operands they have.                       *)

WordTernary == (BitOps \ {"BNOT"}) \union IntegerOps \union DivideOps
                 \union FloatOps \union DivideUnsignedOps
                 \union {"POWi", "POWu", "POWf"}
QuadTernary == Integer64Ops \union Divide64Ops \union Bit64Ops
                 \union DivideUnsigned64Ops \union DoubleOps
                 \union {"POWd", "POWi64", "POWu64", "POWdi"}
QuadShift == Shift64Ops
Immediate == IntegerImmediateOps \union FloatImmediateOps
ImmediateCompare == {"CMPIi", "CMPIu", "CMPIf"}
WordUnary == {"NOT", "NEGi", "NEGf", "BNOT"} \union ConvertOps \union ExtendOps
               \union NarrowOps \union StepVariableOps
QuadUnary == {"NEGd", "NEGi64", "BNOT64", "dTOi64", "dTOu64", "i64TOd", "u64TOd"}
WordToWord == {"CpyVtoV4", "i64TOi", "dTOi", "dTOu", "dTOf", "iTOd", "uTOd",
               "fTOd", "uTOi64", "iTOi64", "fTOi64", "fTOu64", "i64TOf",
               "u64TOf", "CpyVtoV8"}
WordCompare == {"CMPi", "CMPu", "CMPf", "CmpPtr"}
QuadCompare == {"CMPd", "CMPi64", "CMPu64"}
RegisterOps == TestOps \union ClearHighOps \union {"CpyRtoV4", "CpyRtoV8",
               "CpyVtoR4", "CpyVtoR8", "PshRPtr", "PshV4", "PshV8", "PshVPtr"}
AddressRegisterOps == IndirectOps \union StepOps \union {"INCi64", "DECi64"}
ConstantOps == SetVariableOps \union SetGlobalOps \union LoadGlobalOps
                 \union {"CpyVtoG4", "CpyGtoV4", "PshGPtr", "PshG4", "PshC4",
                         "PshC8", "PGA", "VAR", "LDG", "LDV", "PSF", "ClrVPtr",
                         "PshNull", "OBJTYPE", "TYPEID", "FuncPtr",
                         "LoadVObjR", "LoadThisR", "LoadRObjR", "ChkNullV"}
StackWordOps == {"PopPtr", "SwapPtr", "RDSPtr", "PopRPtr", "ADDSi", "COPY",
                 "REFCPY", "RefCpyV", "CHKREF", "ChkRefS", "ChkNullS", "Cast"}
ObjectOps == FreeOps \union ObjectRegisterOps \union ListOps
ArgumentWordOps == ArgumentOps

Triples == {<<7, 3, 5>>, <<3, 3, 5>>, <<5, 3, 5>>, <<7, 3, 3>>, <<3, 3, 3>>}

MCInstructions ==
  {Ins(op, t[1], t[2], t[3]) :
     op \in WordTernary \union QuadTernary, t \in Triples}
  \union {Ins(op, t[1], t[2], t[3]) :
            op \in QuadShift, t \in {<<7, 3, 5>>, <<3, 3, 5>>, <<5, 3, 5>>}}
  \union {[Ins("POWi", t[1], t[2], t[3]) EXCEPT !.square = TRUE] :
            t \in {<<7, 3, 5>>, <<3, 3, 5>>}}
  \union {[Ins(op, a, 3, 0) EXCEPT !.q = <<x, 0>>] :
            op \in Immediate, a \in {3, 5}, x \in ShortWords}
  \union {[Ins(op, 3, 0, 0) EXCEPT !.q = <<x, 0>>] :
            op \in ImmediateCompare, x \in Words32}
  \union {Ins(op, 3, 0, 0) : op \in WordUnary}
  \union {Ins(op, a, 0, 0) : op \in QuadUnary, a \in {3, 5}}
  \union {Ins(op, t[1], t[2], 0) : op \in WordToWord,
            t \in {<<7, 3>>, <<3, 3>>, <<5, 3>>, <<3, 5>>}}
  \union {Ins(op, 3, 5, 0) : op \in WordCompare \union QuadCompare}
  \union {Ins(op, a, 0, 0) : op \in RegisterOps, a \in {3, 5}}
  \union {Ins(op, 3, 0, 0) : op \in AddressRegisterOps}
  \union {[Ins(op, a, 1, 0) EXCEPT !.q = q] : op \in ConstantOps, a \in {1, 3, 5},
            q \in {<<9, 200>>}}
  \union {[Ins(op, 1, 0, 0) EXCEPT !.kind = k] : op \in StackWordOps,
            k \in {"script", "function", "other", "derives"}}
  \union {[Ins(op, 1, 0, 0) EXCEPT !.kind = k, !.q = <<1, 77>>] :
            op \in ObjectOps, k \in {"script", "function", "other"}}
  \union {Ins(op, 1, 0, 0) : op \in ArgumentWordOps}

-----------------------------------------------------------------------------
\* The quads at 3, 5 and 7 (a word is the low half), a word at 1, two words on
\* the stack.
Memory(x, y, object, top, second) ==
  [at \in 1..20 |->
     CASE at = 3 -> top [] at = 4 -> second
       [] at = MCFp - 3 -> x[1] [] at = MCFp - 2 -> x[2]
       [] at = MCFp - 5 -> y[1] [] at = MCFp - 4 -> y[2]
       [] at = MCFp - 7 -> 33 [] at = MCFp - 6 -> 44
       [] at = MCFp - 1 -> object
       [] at = MCFp -> Object
       [] at = Global -> 129 [] at = Global + 1 -> OtherObject
       [] at = Object -> 4 [] at = OtherObject -> 6
       [] OTHER -> 90 + at]

\* The locals in registers, none or what the collector takes for a function
\* that uses these words and perhaps higher ones; the frame is then stale.
CachedSets(i) ==
  {{}} \union (IF IsCacheableLocalOp(i.op)
               THEN {CollectCachedLocalOffsets({i.a, i.b, i.c} \union more) :
                       more \in {{}, {7}}}
               ELSE {})

Machine(mem, cached, vr, object, sse, inline) ==
  [mem |-> [at \in DOMAIN mem |-> IF MCFp - at \in cached THEN 11 ELSE mem[at]],
   reg |-> [o \in cached |-> mem[MCFp - o]],
   vr |-> vr, sp |-> 3, object |-> object, exc |-> "none", local |-> FALSE,
   sse |-> sse, inlineFields |-> inline]

Wide(words) == {<<w, 77>> : w \in words}
Exponents == {0, 1, 2, 3, 6, 7, 8, 255}

Values(i) ==
  CASE i.op = "POWi" -> IF i.square THEN Wide(Words32) \X Wide({2})
                        ELSE Wide(ShortWords \union {2, 11, 254}) \X Wide(Exponents)
    [] i.op \in WordTernary \union WordCompare -> Wide(Words32) \X Wide(Words32)
    [] i.op \in QuadTernary \union QuadCompare -> Quads64 \X Quads64
    [] i.op \in QuadShift -> Quads64 \X Wide({0, 1, 5, 7, 8, 9, 12, 15})
    [] i.op \in Immediate \union ImmediateCompare \union WordUnary ->
         Wide(Words32) \X {<<77, 7>>}
    [] i.op \in QuadUnary \union WordToWord ->
         {<<x, x>> : x \in Quads64 \union Wide(Words32)}
    [] OTHER -> {<<<<5, 200>>, <<130, 9>>>>}

\* Operands that coincide hold one value.
Consistent(i, v) ==
  i.op \in WordTernary \union QuadTernary /\ i.b = i.c =>
    v[2] = (CHOOSE w \in Values(i) : TRUE)[2]

Stacks(i) ==
  CASE i.op \in StackWordOps ->
         LET addresses == {0, MCFp - 1, Global + 1, Object, OtherObject}
         IN  addresses \X addresses
    [] i.op \in ArgumentWordOps -> {1, 3} \X {1, 3, 7}
    [] OTHER -> {<<21, 22>>}

\* What COPY copies and casts look at has to be an object, what REFCPY
\* replaces a variable that holds one.
StackFits(i, s) ==
  CASE i.op = "COPY" -> s[1] \in {0, Field, MCFp - 1, Global + 1}
    [] i.op = "REFCPY" -> s[1] \in {MCFp - 1, Global + 1}
                          /\ s[2] \in {0, Object, OtherObject}
    [] i.op = "RefCpyV" -> s[1] \in {0, Object, OtherObject}
    [] i.op = "Cast" -> s[1] \in {0, MCFp - 1, Global + 1}
    [] i.op = "ChkRefS" -> s[1] # 0
    [] OTHER -> TRUE

\* A function with cached locals has no instruction that takes the address of
\* one (PSF, LDV, GETREF), and none that puts a word on the stack.
NoFrameAddress(cached, s) ==
  cached = {} \/ {s[1], s[2]} \intersect MCFp - 7..MCFp - 1 = {}

Registers(i) ==
  CASE i.op \in TestOps \union ClearHighOps ->
         {<<x, y>> : x \in Words32, y \in {0, 9}}
    [] i.op \in AddressRegisterOps -> {<<at, 0>> : at \in {Global, Field, MCFp - 5}}
    [] OTHER -> {<<130, 9>>}

HeldObjects(i) == IF i.op \in StackWordOps \union ObjectOps \union ArgumentWordOps
                       \union {"LoadRObjR", "ChkNullV"}
                  THEN {0, Object, OtherObject} ELSE {21}

MCMachines(i) ==
  {Machine(Memory(v[1], v[2], held, c[2][1], c[2][2]), c[1], vr, object, sse, inline) :
     v \in {w \in Values(i) : Consistent(i, w)},
     held \in HeldObjects(i),
     c \in {d \in CachedSets(i) \X Stacks(i) :
              StackFits(i, d[2]) /\ NoFrameAddress(d[1], d[2])},
     vr \in Registers(i),
     object \in IF i.op \in {"STOREOBJ", "Cast"} THEN {0, Object} ELSE {0},
     sse \in IF i.op \in DoubleOperandOps THEN BOOLEAN ELSE {TRUE},
     inline \in IF i.op \in FieldOps THEN BOOLEAN ELSE {TRUE}}
=============================================================================
