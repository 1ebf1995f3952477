---------------------------- MODULE InlinedCalls ----------------------------
(***************************************************************************)
(* Script functions that codegen/emit/calls.cpp puts into the code of      *)
(* their caller. A program P has its called functions in callees: code,    *)
(* space (the words of its variables), args (the words its RET pops, this  *)
(* included), handles (the offsets of its variables that hold objects);    *)
(* and derived, the objects whose class overrides the method called.       *)
(*                                                                         *)
(* An inlined body has its variables in processor registers, zeroed, and   *)
(* its frame where the stack pointer is when it starts. What it cannot do  *)
(* itself it leaves to its slow path, a call of the function.              *)
(***************************************************************************)
EXTENDS EmittedMemory, FunctionAnalysis, BranchInstructions

CONSTANT MaxInlineBody   \* most instructions, and words of variables, inlined

\* Instructions of a function whose frame is at fp.
Frame(fp) == INSTANCE EmittedMemory WITH Fp <- fp

-----------------------------------------------------------------------------
(* Which functions: IsSimpleConstructor, DecodeSimpleFactory,              *)
(* DecodeInlineScriptBody.                                                 *)

SimpleConstructorOps ==
  {"JitEntry", "SetV4", "LoadThisR", "WRTV4", "LoadRObjR", "RDR4", "ADDIi", "RET"}

IsSimpleConstructor(f) ==
  /\ \A k \in Positions(f) : Op(f, k) \in SimpleConstructorOps
  /\ \A k \in Positions(f) : Op(f, k) = "RET" <=> k = Len(f.code)
  /\ f.code[Len(f.code)].a = f.args

\* A variable's address, the arguments, ALLOC, LOADOBJ of the variable, RET.
DecodeSimpleFactory(P, f) ==
  LET IsOperation(i) == i.op # "JitEntry"
      s == SelectSeq(f.code, IsOperation)
      n == Len(s)
      Pushes(ops) == Cardinality({k \in 2..n - 3 : s[k].op \in ops})
  IN  /\ n >= 4
      /\ s[1].op = "PSF" /\ s[n - 2].op = "ALLOC"
      /\ s[n - 1].op = "LOADOBJ" /\ s[n - 1].a = s[1].a
      /\ s[n].op = "RET" /\ s[n].a = f.args
      /\ \A k \in 2..n - 3 : s[k].op \in {"PshV4", "PshVPtr", "PshV8"}
      /\ Pushes({"PshV4", "PshVPtr"}) + 2 * Pushes({"PshV8"}) = f.args
      /\ IsSimpleConstructor(P.callees[s[n - 2].callee])
      /\ P.callees[s[n - 2].callee].args = f.args + 1

InlineOps ==
  {"JitEntry", "SetV4", "SetV8", "CpyVtoV4", "CpyVtoV8", "CpyVtoR4", "CpyVtoR8",
   "CpyRtoV4", "CpyRtoV8", "CpyVtoG4", "CpyGtoV4", "PshC4", "PshC8", "PshV4",
   "PshV8", "PshVPtr", "PshNull", "PshRPtr", "TYPEID", "PGA", "PSF", "GETREF",
   "GETOBJ", "GETOBJREF", "LoadVObjR", "SUSPEND", "PopPtr", "PopRPtr",
   "LoadThisR", "LoadRObjR", "RDR4", "WRTV4", "INCi", "DECi", "ADDi", "SUBi",
   "MULi", "ADDf", "SUBf", "MULf", "ADDd", "SUBd", "MULd", "ADDIi", "SUBIi",
   "MULIi", "ADDIf", "SUBIf", "MULIf", "NEGi", "BNOT", "NOT", "BAND", "BOR",
   "BXOR", "BSLL", "BSRL", "BSRA", "IncVi", "DecVi", "CMPi", "CMPIi", "CMPu",
   "CMPIu", "TZ", "TNZ", "TS", "TNS", "TP", "TNP", "JMP", "JZ", "JNZ", "JS",
   "JNS", "JP", "JNP", "JLowZ", "JLowNZ", "CHKREF", "ChkRefS", "ChkNullS",
   "LDV", "SetV1", "SetV2", "PshG4", "iTOf", "fTOi", "fTOu", "iTOd", "dTOi",
   "fTOd", "dTOf", "CMPf", "CMPIf", "DIVf", "DIVd", "CALL", "STOREOBJ",
   "LOADOBJ", "ChkNullV", "RefCpyV", "CallPtr", "FREE", "RET"}

\* A handle is returned: copied into the last variable, and loaded from there.
HandleReturn(f, k) ==
  /\ k + 3 <= Len(f.code)
  /\ <<Op(f, k), Op(f, k + 1), Op(f, k + 2), Op(f, k + 3)>>
       = <<"PshVPtr", "RefCpyV", "PopPtr", "LOADOBJ">>
  /\ f.code[k + 1].kind = "script"
  /\ f.code[k + 1].a = f.space /\ f.code[k + 3].a = f.space

PointerRead(f, k) ==
  k < Len(f.code) /\ Op(f, k) = "PshVPtr" /\ Op(f, k + 1) = "PopRPtr"

\* The scan over the instructions, but for the calls of other bodies: an object
\* made by a factory is stored at once, and loaded again before the next.
ScanAccepts(P, f) ==
  LET IsFactory(k) == Op(f, k) = "CALL"
                        /\ DecodeSimpleFactory(P, P.callees[f.code[k].callee])
      Between(j, k, op) == \E x \in j + 1..k - 1 : Op(f, x) = op
      Pending(k) == \E j \in 1..k - 1 : IsFactory(j) /\ ~Between(j, k, "STOREOBJ")
      stores(k) == {j \in 1..k - 1 : Op(f, j) = "STOREOBJ" /\ ~Between(j, k, "LOADOBJ")}
      Held(k, o) == \E j \in stores(k) : f.code[j].a = o
      n == Len(f.code) + 1
  IN  /\ \A k \in Positions(f) :
           LET a == f.code[k].a
           IN  CASE Op(f, k) = "CALL" ->
                      IsFactory(k) => ~Pending(k) /\ stores(k) = {}
                 [] Op(f, k) = "STOREOBJ" -> Pending(k)
                 [] Op(f, k) = "ChkNullV" -> ~Pending(k) /\ Held(k, a)
                 [] Op(f, k) = "LOADOBJ" ->
                      ~Pending(k) /\ (stores(k) # {} => Held(k, a))
                 [] Op(f, k) = "PSF" -> a <= 0
                 [] Op(f, k) = "FREE" -> f.code[k].kind = "function"
                 [] OTHER -> Pending(k) => Op(f, k) = "JitEntry"
      /\ ~Pending(n) /\ stores(n) = {}

PatternsAccept(f) ==
  /\ \A k \in Positions(f) :
       Op(f, k) \in {"PshVPtr", "RefCpyV", "PopPtr", "PopRPtr"} =>
         \/ \E j \in 1..k : k <= j + 3 /\ HandleReturn(f, j)
         \/ \E j \in 1..k : k <= j + 1 /\ PointerRead(f, j)
  /\ \A k \in Positions(f) :
       Op(f, k) = "LOADOBJ" =>
         \/ k > 1 /\ Op(f, k - 1) = "ChkNullV" /\ f.code[k - 1].a = f.code[k].a
         \/ k > 3 /\ HandleReturn(f, k - 3)

\* Bodies may call bodies, two deep, and no body itself.
DecodeInlineScriptBody(P, f) ==
  LET Accepts(g) ==
        /\ Len(g.code) <= MaxInlineBody /\ g.space <= MaxInlineBody
        /\ \A k \in Positions(g) : Op(g, k) \in InlineOps
        /\ {g.code[k].a : k \in {j \in Positions(g) : Op(g, j) = "RET"}} = {g.args}
        /\ ScanAccepts(P, g) /\ PatternsAccept(g)
      callees == {P.callees[j] : j \in DOMAIN P.callees}
      Called(g) == {P.callees[g.code[k].callee] :
                      k \in {j \in Positions(g) : Op(g, j) = "CALL"}}
      accepted[depth \in 0..2] ==
        {g \in callees : Accepts(g) /\ \A h \in Called(g) :
           \/ DecodeSimpleFactory(P, h)
           \/ depth > 0 /\ h # g /\ h \in accepted[depth - 1]}
  IN  f \in accepted[2]

-----------------------------------------------------------------------------
(* A call in the interpreter, all of it: PrepareScriptCall, the function,  *)
(* RET. An exception unwinds the stack to the caller's.                    *)

\* The variables that hold objects are null at the start.
PrepareScriptCall(f, m) ==
  [m EXCEPT !.sp = @ - f.space,
            !.mem = [x \in DOMAIN @ |-> IF m.sp - x \in f.handles THEN 0 ELSE @[x]]]

\* The method of the class of the object on the stack.
ResolveScriptMethod(P, i, m) ==
  IF Top(m) \in P.derived THEN i.callee + 1 ELSE i.callee

\* ALLOC: the object, stored where the stack says, is this of its constructor.
ArgumentDwords(P, i) == P.callees[i.callee].args - 1

Allocated(P, i, m) ==
  LET destination == m.mem[m.sp + ArgumentDwords(P, i)]
  IN  [m EXCEPT !.mem = [x \in DOMAIN @ |->
         IF x = i.p THEN 1
         ELSE IF x = destination /\ destination # 0 THEN i.p ELSE @[x]]]

\* The function called, or 0; pointer is what the variable of a CallPtr holds.
FunctionCalled(P, i, m, pointer) ==
  CASE i.op \in {"CALL", "ALLOC"} -> i.callee
    [] i.op = "CALLINTF" -> IF Top(m) = 0 THEN 0 ELSE ResolveScriptMethod(P, i, m)
    [] i.op = "CallPtr" -> pointer

RECURSIVE InterpretFrom(_, _, _, _, _)

CallScriptFunction(P, f, m) ==
  InterpretFrom(P, f, 1, PrepareScriptCall(f, m), m.sp)

CallFunction(P, i, m, pointer) ==
  LET f == FunctionCalled(P, i, m, pointer)
      constructing == Pushed(Allocated(P, i, m), <<i.p>>)
  IN  IF f = 0
      THEN SetInternalException(m, IF i.op = "CallPtr" THEN "TXT_UNBOUND_FUNCTION"
                                   ELSE "TXT_NULL_POINTER_ACCESS")
      ELSE CallScriptFunction(P, P.callees[f], IF i.op = "ALLOC" THEN constructing ELSE m)

\* The instructions that neither branch nor return.
InterpretIn(P, i, m, fp) ==
  CASE i.op \in {"JitEntry", "SUSPEND"} \/ IsBranch(i.op) -> m
    [] i.op \in CallOps -> CallFunction(P, i, m, m.mem[fp - i.a])
    [] OTHER -> Frame(fp)!Interpret(i, m)

InterpretFrom(P, f, k, m, fp) ==
  LET i == f.code[k]
      next == IF IsBranch(i.op) /\ Branches(i.op, m) THEN i.to ELSE k + 1
  IN  IF m.exc # "none" THEN [m EXCEPT !.sp = fp]
      ELSE IF i.op = "RET" THEN [m EXCEPT !.sp = fp + f.args]
      ELSE InterpretFrom(P, f, next, InterpretIn(P, i, m, fp), fp)

-----------------------------------------------------------------------------
(* Inlined code.                                                           *)

ZeroLocals(f) == [o \in 1..f.space |-> 0]

\* No instruction of a simple constructor checks anything. Its value register
\* is a register of its own.
EmitSimpleConstructorBody(f, m, frame) ==
  LET Load(x, o) == Frame(frame)!LoadVar(x, o)
      Store(x, o, w) == Frame(frame)!StoreVar(x, o, w)
      Do(i, x) ==
        CASE i.op \in {"JitEntry", "RET"} -> x
          [] i.op = "SetV4" -> Store(x, i.a, i.q[1])
          [] i.op = "LoadThisR" -> SetResult(x, x.mem[frame] + i.a)
          [] i.op = "WRTV4" -> [x EXCEPT !.mem[x.vr[1]] = Load(x, i.a)]
          [] i.op = "LoadRObjR" -> SetResult(x, Load(x, i.a) + i.b)
          [] i.op = "RDR4" -> Store(x, i.a, x.mem[x.vr[1]])
          [] i.op = "ADDIi" -> Store(x, i.a, Half(Load(x, i.b) + i.q[1]))
      run[k \in 0..Len(f.code)] ==
        IF k = 0 THEN [m EXCEPT !.reg = ZeroLocals(f)]
        ELSE Do(f.code[k], run[k - 1])
  IN  [run[Len(f.code)] EXCEPT !.reg = m.reg, !.vr = m.vr]

\* The frame of the constructor is below the stack pointer, which does not move.
Construct(P, i, m) ==
  EmitSimpleConstructorBody(P.callees[i.callee],
    [Allocated(P, i, m) EXCEPT !.mem[m.sp - 1] = i.p], m.sp - 1)

EmitAlloc(P, i, m) ==
  [Construct(P, i, m) EXCEPT !.sp = @ + ArgumentDwords(P, i)]

\* The factory's frame is skipped, its arguments are the constructor's.
EmitSimpleFactory(P, f, m) ==
  LET i == CHOOSE x \in {f.code[k] : k \in Positions(f)} : x.op = "ALLOC"
      object == [m EXCEPT !.mem[i.p] = 1, !.mem[m.sp - 1] = i.p]
  IN  [EmitSimpleConstructorBody(P.callees[i.callee], object, m.sp - 1)
         EXCEPT !.sp = @ + f.args, !.object = i.p]

\* Where the interpreter would raise, the body goes to its slow path. A null
\* this, handle or reference; a zero divisor.
GoesSlow(i, m, fp) ==
  LET Load(o) == Frame(fp)!LoadVar(m, o)
  IN  CASE i.op = "LoadThisR" -> Load(0) = 0
        [] i.op = "LoadRObjR" -> Load(i.a) = 0
        [] i.op = "CHKREF" -> Top(m) = 0
        [] i.op = "ChkRefS" -> m.mem[Top(m)] = 0
        [] i.op = "ChkNullS" -> m.mem[m.sp + i.a] = 0
        [] i.op = "DIVf" -> Low(Load(i.c), WordBits - 1) = 0
        [] i.op = "DIVd" -> Load(i.c) = 0 /\ Low(Load(i.c - 1), WordBits - 1) = 0
        [] OTHER -> FALSE

\* The null check of ChkNullV is left out: the object is a factory's. A copied
\* handle goes to a variable that holds none.
InlineReferences(i, m, fp) ==
  LET Load(o) == Frame(fp)!LoadVar(m, o)
      Store(x, o, w) == Frame(fp)!StoreVar(x, o, w)
  IN  CASE i.op = "LoadThisR" -> SetResult(m, Load(0) + i.a)
        [] i.op = "LoadRObjR" -> SetResult(m, Load(i.a) + i.b)
        [] i.op = "RefCpyV" ->
             Store(IF Top(m) = 0 THEN m ELSE AddRef(m, Top(m)), i.a, Top(m))
        [] i.op = "FREE" ->
             Store(IF Load(i.a) = 0 THEN m ELSE Release(m, Load(i.a)), i.a, 0)
        [] i.op = "STOREOBJ" -> [Store(m, i.a, m.object) EXCEPT !.object = 0]
        [] i.op = "LOADOBJ" -> Store([m EXCEPT !.object = Load(i.a)], i.a, 0)
        [] i.op = "PshVPtr" -> Pushed(m, <<Load(i.a)>>)
        [] i.op \in {"CHKREF", "ChkRefS", "ChkNullS", "ChkNullV"} -> m

InlineReferenceOps ==
  {"LoadThisR", "LoadRObjR", "RefCpyV", "FREE", "STOREOBJ", "LOADOBJ", "PshVPtr",
   "CHKREF", "ChkRefS", "ChkNullS", "ChkNullV"}

\* The others are emitted as in a function whose variables are all cached.
InlineInstruction(i, m, fp) ==
  IF i.op \in InlineReferenceOps THEN InlineReferences(i, m, fp)
  ELSE IF i.op \in {"SetV1", "SetV2"} THEN Frame(fp)!StoreVar(m, i.a, i.q[1])
  ELSE Frame(fp)!EmitInstruction(i, m)

\* A function pointer is called through a helper that is told the place after the
\* inlined call. The function leaves native code there, or returns.
PointerCalled(m, leaves) == IF leaves \/ m.exc # "none" THEN Left(m) ELSE Done(m)

RECURSIVE InlineFrom(_, _, _, _, _, _)

\* r is how the code of the body ended; the caller's registers are its own.
Returned(f, m, r) ==
  [how |-> r.how,
   m |-> [r.m EXCEPT !.reg = m.reg, !.sp = IF r.how = "done" THEN @ + f.args ELSE @]]

InlineBody(P, f, m, leaves) ==
  Returned(f, m, InlineFrom(P, f, 1, [m EXCEPT !.reg = ZeroLocals(f)], m.sp, leaves))

\* The instructions that neither branch nor return.
InlineIn(P, i, m, fp, leaves) ==
  CASE i.op \in {"JitEntry", "SUSPEND"} \/ IsBranch(i.op) -> Done(m)
    [] i.op = "CALL" /\ DecodeSimpleFactory(P, P.callees[i.callee]) ->
         Done(EmitSimpleFactory(P, P.callees[i.callee], m))
    [] i.op = "CALL" /\ ~DecodeSimpleFactory(P, P.callees[i.callee]) ->
         InlineBody(P, P.callees[i.callee], m, leaves)
    [] i.op = "CallPtr" ->
         PointerCalled(CallFunction(P, i, m, Frame(fp)!LoadVar(m, i.a)), leaves)
    [] OTHER -> IF GoesSlow(i, m, fp) THEN Slow(m)
                ELSE Done(InlineInstruction(i, m, fp))

InlineFrom(P, f, k, m, fp, leaves) ==
  LET i == f.code[k]
      next == IF IsBranch(i.op) /\ JumpTaken(i.op, m) THEN i.to ELSE k + 1
      Continue(r) == IF r.how = "done" THEN InlineFrom(P, f, next, r.m, fp, leaves)
                     ELSE r
  IN  IF i.op = "RET" THEN Done(m) ELSE Continue(InlineIn(P, i, m, fp, leaves))

-----------------------------------------------------------------------------
(* EmitCalls: with a request to suspend every call takes its slow path.    *)

\* The function all FuncPtr of the caller name, or none.
PointerTarget(P) ==
  {P.code[k].callee : k \in {j \in Positions(P) : Op(P, j) = "FuncPtr"}}

\* The guards of an inlined call: the class of the object, the function held.
Expected(P, i, m) ==
  CASE i.op = "CALL" -> TRUE
    [] i.op = "CALLINTF" -> Top(m) # 0 /\ ResolveScriptMethod(P, i, m) = i.callee
    [] i.op = "CallPtr" -> PointerTarget(P) = {LoadVar(m, i.a)}
    [] OTHER -> FALSE

EmitCall(P, i, m, request, leaves) ==
  LET f == P.callees[IF i.op = "CallPtr" THEN LoadVar(m, i.a) ELSE i.callee]
  IN  IF request THEN Slow(m)
      ELSE IF i.op = "ALLOC" /\ IsSimpleConstructor(f) THEN Done(EmitAlloc(P, i, m))
      ELSE IF i.op = "CALL" /\ DecodeSimpleFactory(P, f)
      THEN Done(EmitSimpleFactory(P, f, m))
      ELSE IF Expected(P, i, m) /\ DecodeInlineScriptBody(P, f)
      THEN InlineBody(P, f, m, leaves)
      ELSE Slow(m)
=============================================================================
