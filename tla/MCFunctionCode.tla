--------------------------- MODULE MCFunctionCode ---------------------------
(***************************************************************************)
(* Functions for TLC, by the shortcut or the boundary they are about. In   *)
(* memory, in dwords: the stack in 1..20, locals 8 to 1 in 21..28, this at *)
(* 29, a global at 30, three script objects (count and two fields) at 32,  *)
(* 35 and 38, functions (their count) from 41 on. Functions of at least    *)
(* eight instructions cache locals 1 to 4.                                 *)
(***************************************************************************)
EXTENDS FunctionCode, InlinedCalls

MCFp == 29
Global == 30
Object == 32
OtherObject == 35
NewObject == 38
FunctionAt(n) == 40 + n

Instruction(op, a, b, c) ==
  [op |-> op, a |-> a, b |-> b, c |-> c, q |-> <<1, 0>>, p |-> Global,
   kind |-> "script", square |-> FALSE, to |-> 0, callee |-> 0]
Plain(op) == Instruction(op, 0, 0, 0)
On(op, a) == Instruction(op, a, 0, 0)
Jump(op, to) == [Plain(op) EXCEPT !.to = to]
Set(a, x) == [On("SetV4", a) EXCEPT !.q = <<x, 0>>]
Named(i, kind) == [i EXCEPT !.kind = kind]

Entry == Plain("JitEntry")
Return == Plain("RET")
\* The result of the function is local 7.
Result == <<On("CpyVtoR4", 7), Return>>

\* words is what the locals 3 and 5 may hold at the start.
Function(code, tries, objects, words) ==
  [code |-> code, tries |-> tries, objects |-> objects, words |-> words,
   callees |-> <<>>, derived |-> {}]
Simple(code, words) == Function(code, <<>>, {}, words)

-----------------------------------------------------------------------------
(* A comparison and a branch. What is behind the branch reads the value    *)
(* register, or does not and leaves it dead; where it jumps to, it is dead.*)

Compared == {0, 1, 127, 128, 129, 255}
Comparisons == {Instruction(op, 3, 5, 0) : op \in {"CMPi", "CMPIi", "CMPu",
                                                   "CMPIu", "CmpPtr"}}
ConditionalBranches == {"JZ", "JNZ", "JS", "JNS", "JP", "JNP", "JLowZ", "JLowNZ"}
Behind == {On("CpyRtoV4", 7), On("IncVi", 7)}

Direct ==
  {Simple(<<Entry, cmp, Jump(op, 6), x, Set(5, 3)>> \o Result, Compared \X Compared) :
     cmp \in Comparisons, op \in ConditionalBranches, x \in Behind}

\* As the compiler writes a comparison of which the value is used: the pairs
\* TZ JZ and the like it has already made one.
Tested ==
  {Simple(<<Entry, cmp, Plain(t[1]), Jump(t[2], 7), x, Set(5, 3)>> \o Result,
          {0, 1, 128} \X {0, 1, 128}) :
     cmp \in {Instruction(op, 3, 5, 0) : op \in {"CMPi", "CMPu"}},
     t \in {<<"TZ", "JNZ">>, <<"TZ", "JLowNZ">>, <<"TNZ", "JZ">>,
            <<"TNZ", "JNZ">>, <<"TNZ", "JLowNZ">>},
     x \in Behind}

\* Two ways to one branch, as && and || make them.
Joined ==
  {Simple(<<Entry, Instruction("CMPIi", 3, 0, 0), Jump("JNZ", 5),
            Instruction("CMPi", 3, 5, 0), Jump(op, 8), x, Set(5, 3)>> \o Result,
          Compared \X {0, 1, 128}) : op \in ConditionalBranches, x \in Behind}

-----------------------------------------------------------------------------
(* The value register on its way to the instruction that takes it.         *)

Starts == {<<On("CpyVtoR4", 3)>>, <<On("LDV", 3)>>, <<On("LDG", 0)>>,
           <<Instruction("LoadVObjR", 3, 0, 0)>>, <<On("LoadThisR", 1)>>,
           <<Instruction("LoadRObjR", 1, 2, 0)>>,
           <<On("PGA", 0), Plain("PopRPtr")>>}
Between == {<<>>, <<Set(5, 3)>>, <<Entry>>, <<Plain("PshC4")>>,
            <<Instruction("ADDi", 5, 3, 3)>>, <<Instruction("DIVi", 5, 5, 8)>>,
            <<Instruction("ADDf", 6, 6, 4), Instruction("ADDf", 5, 5, 3)>>}
Addressed == {"RDR1", "RDR4", "RDR8", "WRTV2", "WRTV4", "WRTV8", "INCi", "DECi8"}
Last == {<<>>, <<On("CpyRtoV4", 5)>>, <<On("RDR4", 5)>>, <<On("CpyVtoR4", 5)>>}

\* CpyRtoV4 takes any word, the others take an address.
Takes(start) == {<<On("CpyRtoV4", 7)>>, <<Plain("PshRPtr"), Plain("PopPtr")>>}
                  \union (IF start[1].op = "CpyVtoR4" THEN {}
                          ELSE {<<On(op, 7)>> : op \in Addressed})
Forwarded ==
  {Simple(<<Entry>> \o start \o between \o takes \o last \o <<Return>>,
          {<<1, 2>>, <<200, 130>>}) :
     start \in Starts, between \in Between,
     takes \in UNION {Takes(s) : s \in Starts}, last \in Last}

\* An address is never a plain word.
Sensible(P) ==
  (\E k \in DOMAIN P.code : P.code[k].op = "CpyVtoR4" /\ P.code[k].a = 3) =>
    \A k \in DOMAIN P.code : P.code[k].op \notin Addressed

-----------------------------------------------------------------------------
(* Handles copied from local 1 to local 2.                                 *)

Copied ==
  {Simple(<<Entry, On("PshVPtr", 1), Named(On("RefCpyV", 2), kind)>> \o rest \o <<Return>>,
          {<<1, 2>>}) :
     kind \in {"script", "function", "other"},
     rest \in {<<Plain("PopPtr")>>, <<Plain("PopPtr"), On("FREE", 1)>>,
               <<On("FREE", 1), Plain("PopPtr")>>,
               <<On("FREE", 2), Plain("PopPtr")>>}}

-----------------------------------------------------------------------------
(* Loops that can be suspended, with and without cached locals, a switch.  *)

Loops ==
  {Simple(<<Entry, Set(3, 2), Plain("SUSPEND"), Entry, On("DecVi", 3),
            Named(Plain("CALLSYS"), "word"), On("CpyRtoV4", 4)>> \o body
            \o <<Instruction("ADDi", 7, 7, 4), Instruction("CMPIu", 3, 0, 0),
                 Jump("JP", 3)>> \o Result, {<<1, 2>>}) :
     body \in {<<>>, <<On("PshV4", 4), Plain("PopPtr")>>}}

Switches ==
  {Simple(<<Entry, On("JMPP", 3), Jump("JMP", 6), Jump("JMP", 7), Jump("JMP", 8),
            Set(7, 1), Set(7, 2), Plain("SUSPEND"), Entry>> \o Result,
          {0, 1, 2} \X {0})}

-----------------------------------------------------------------------------
(* Exceptions: raised by emitted code (DIVi), by a helper (DIVf) or by a   *)
(* system function, in no, one or two try blocks, with an object that is   *)
(* declared before the block, in it, or is a temporary.                    *)

Raising == {Instruction("DIVi", 4, 3, 5), Instruction("DIVf", 4, 3, 5),
            Named(Plain("CALLSYS"), "word")}
TryBlocks == {<<>>, <<[from |-> 2, catch |-> 5]>>,
              <<[from |-> 2, catch |-> 8], [from |-> 2, catch |-> 5]>>}

Throws ==
  {Function(<<Entry, Set(4, 9), i, Jump("JMP", 8), Entry, Set(7, 2), Entry, Entry>>
              \o Result, tries, {}, {<<7, 0>>, <<7, 2>>, <<128, 255>>}) :
     i \in Raising, tries \in TryBlocks}

\* A handle to the object of local 1 in local 2; the function frees it.
ObjectsThrown ==
  {Function(<<Entry, On("PshVPtr", 1), Named(On("RefCpyV", 2), "script"),
              Plain("PopPtr"), Entry, Set(7, 9), i, Entry, On("FREE", 2),
              Jump("JMP", 14), Entry, Set(7, 2), On("FREE", 2), Entry>> \o Result,
            <<[from |-> start, catch |-> 11]>>,
            {[at |-> 2, declared |-> declared]}, {<<7, 0>>, <<7, 2>>}) :
     i \in Raising, start \in {2, 6}, declared \in {0, 3}}

\* A temporary object returned by a system function.
Temporaries ==
  {Function(<<Entry, [Named(Plain("CALLSYS"), "object") EXCEPT !.p = Object],
              On("STOREOBJ", 2), Instruction("DIVi", 4, 3, 5), On("FREE", 2),
              Jump("JMP", 9), Entry, Set(7, 2), Entry>> \o Result,
            <<[from |-> 2, catch |-> 7]>>,
            {[at |-> 2, declared |-> 0]}, {<<7, 0>>, <<7, 2>>})}

\* An object of the application in local 2, from a global of the same type.
Allocations ==
  {Function(<<Entry, Set(4, 9), On("PSF", 2),
              [Named(Plain("AllocApp"), kind) EXCEPT !.p = NewObject],
              Entry, Set(7, 3), Jump("JMP", 9), Entry, Set(5, 2), Entry>>
              \o more \o Result,
            tries, {[at |-> 2, declared |-> 0]}, {<<7, 0>>}) :
     kind \in {"plain", "constructed"}, tries \in {<<>>, <<[from |-> 2, catch |-> 8]>>},
     more \in {<<>>, <<Named(Plain("CALLSYS"), "word"), On("CpyRtoV4", 4)>>}}

-----------------------------------------------------------------------------
(* Floats that are computed together.                                      *)

Lanes(op, a, c, step, n, stride) ==
  [k \in 1..(n - 1) * stride + 1 |->
     LET lane == (k - 1) \div stride
     IN  IF stride = 2 /\ k % 2 = 0 THEN Entry
         ELSE [Instruction(op, a + step * lane, a + step * lane, c + step * lane)
                 EXCEPT !.q = <<88, 0>>]]

Floats ==
  {Simple(<<Entry>> \o Lanes(op, x[1], x[2], -1, x[3], stride)
            \o <<Plain("SUSPEND"), Entry, Return>>, {<<80, 96>>}) :
     op \in {"ADDf", "MULf"}, stride \in {1, 2},
     x \in {<<8, 4, 4>>, <<8, 8, 4>>, <<8, 6, 3>>, <<7, 6, 3>>, <<8, 5, 4>>,
            <<4, 8, 4>>, <<5, 7, 3>>}}
  \union
  {Simple(<<Entry>> \o Lanes(op, x[1], 0, x[2], x[3], stride)
            \o <<Plain("SUSPEND"), Entry, Return>>, {<<80, 96>>}) :
     op \in {"ADDIf", "SUBIf"}, stride \in {1, 2},
     x \in {<<8, -1, 4>>, <<4, 1, 4>>, <<5, 1, 3>>, <<6, -1, 2>>, <<8, -1, 6>>}}

-----------------------------------------------------------------------------
(* Functions called. Their arguments are at the offsets 0, -1 and so on.   *)

Callee(code, space, args, handles) ==
  [code |-> <<Entry>> \o code \o <<On("RET", args)>>, space |-> space, args |-> args,
   handles |-> handles]
To(op, n) == [Plain(op) EXCEPT !.callee = FunctionAt(n), !.p = NewObject]
Pointer(n) == [Plain("FuncPtr") EXCEPT !.callee = FunctionAt(n), !.p = FunctionAt(n)]

Calling(P, functions, derived) ==
  [P EXCEPT !.callees = [x \in FunctionAt(1)..FunctionAt(Len(functions)) |->
                           functions[x - FunctionAt(0)]],
            !.derived = derived]
Calls(code, functions, words) ==
  Calling(Simple(<<Entry>> \o code \o <<Plain("SUSPEND"), Entry>> \o Result, words),
          functions, {})

Keep == On("CpyRtoV4", 7)
Push2(a, b) == <<On("PshV4", a), On("PshV4", b)>>
CountGlobal == <<On("CpyGtoV4", 1), On("IncVi", 1), On("CpyVtoG4", 1)>>

Sum == Callee(<<Instruction("ADDi", 1, 0, -1), On("CpyVtoR4", 1)>>, 1, 2, {})
Divided == Callee(<<Instruction("DIVf", 1, 0, -1), On("CpyVtoR4", 1)>>, 1, 2, {})
Truncating == Callee(<<Instruction("DIVi", 1, 0, -1), On("CpyVtoR4", 1)>>, 1, 2, {})
Counted == Callee(CountGlobal \o <<On("CpyVtoR4", 1)>>, 1, 0, {})
Countdown ==
  Callee(<<Set(1, 3), Plain("SUSPEND"), Entry, On("DecVi", 1),
           On("CMPIi", 1), Jump("JP", 3), On("CpyVtoR4", 1)>>, 1, 0, {})
Stepped == Callee(<<Set(1, 4), On("LDV", 1), Plain("INCi"), On("CpyVtoG4", 1)>>, 1, 0, {})
\* Calls the next function with its arguments changed over.
Swapping == Callee(Push2(0, -1) \o <<To("CALL", 2)>>, 0, 2, {})

\* With and without cached locals, inlined or not.
PlainCalls ==
  {Calls(Push2(3, 5) \o <<To("CALL", 1), Keep>>, fs, {<<1, 2>>, <<7, 0>>, <<0, 7>>}) :
     fs \in {<<Sum>>, <<Divided>>, <<Truncating>>, <<Swapping, Sum>>, <<Swapping, Divided>>}}
  \union
  {Calls(<<Set(3, 2), On("IncVi", 5), To("CALL", 1), Keep,
           Instruction("ADDi", 7, 7, 3), Instruction("ADDi", 7, 7, 5)>>,
         <<f>>, {<<1, 2>>}) : f \in {Counted, Countdown, Stepped}}

-----------------------------------------------------------------------------
(* What inlined bodies compute, in registers.                              *)

Computing(code) ==
  Callee(<<Instruction("CpyVtoV4", 2, 0, 0), Instruction("CpyVtoV4", 1, -1, 0)>> \o code
           \o <<On("CpyVtoR4", 2)>>, 4, 2, {})
OfTwo == {<<Instruction(op, 2, 0, -1)>> : op \in
            {"ADDi", "SUBi", "MULi", "ADDf", "SUBf", "MULf", "BAND", "BOR", "BXOR",
             "BSLL", "BSRL", "BSRA", "ADDIi", "SUBIi", "MULIi", "ADDIf", "MULIf"}}
OfOne == {<<On(op, 2)>> : op \in {"NEGi", "BNOT", "NOT", "IncVi", "DecVi", "iTOf",
                                  "fTOi", "fTOu", "SetV1", "CpyGtoV4"}}
Wide == {<<Instruction("CpyVtoV8", 4, 2, 0), Instruction(op, 2, 2, 4)>> :
           op \in {"ADDd", "SUBd", "MULd", "DIVd", "dTOi", "fTOd", "dTOf", "iTOd"}}
Tests == {<<Instruction(cmp, 0, -1, 0), Plain(test), On("CpyRtoV4", 2)>> :
            cmp \in {"CMPi", "CMPu", "CMPf", "CMPIu"},
            test \in {"TZ", "TNZ", "TS", "TNS", "TP", "TNP"}}
Jumps == {<<Instruction("CMPi", 0, -1, 0), Jump(op, 7), On("IncVi", 2)>> :
            op \in ConditionalBranches}
Pushes == {<<On("PshV8", 2), Plain("PshC4"), Plain("PshNull"), Plain("PshG4"),
             Plain("PGA"), Plain("CHKREF"), On("PSF", 0), Plain("ChkRefS"),
             Plain("PshRPtr"), To("CALL", 2), On("CpyRtoV4", 2)>>}
Weighing ==
  Callee(<<Instruction("SUBi", 1, -1, -2), Instruction("ADDi", 1, 1, -3),
           Instruction("BXOR", 1, 1, -5), Instruction("SUBi", 1, 1, -7),
           On("CpyVtoR4", 1)>>, 1, 8, {})

InlinedCode ==
  {Calls(Push2(3, 5) \o <<To("CALL", 1), Keep>>, <<Computing(code), Weighing>>,
         {<<1, 2>>, <<200, 100>>, <<88, 128>>}) :
     code \in OfTwo \union OfOne \union Wide \union Tests \union Jumps \union Pushes}

-----------------------------------------------------------------------------
(* A handle is passed: what the function does before it finds it null.     *)

Field == <<Instruction("LoadRObjR", 0, 1, 0), On("RDR4", 2), On("CpyVtoR4", 2)>>
SafeField == Callee(Field \o CountGlobal, 2, 1, {})
LateField == Callee(CountGlobal \o Field, 2, 1, {})
GetField == Callee(<<On("LoadThisR", 1), On("RDR4", 1), On("CpyVtoR4", 1)>>, 1, 1, {})
Overriding == Callee(<<Set(1, 9), On("CpyVtoR4", 1)>>, 1, 1, {})
SameHandle ==
  Callee(<<On("PshVPtr", 0), Named(On("RefCpyV", 1), "script"), Plain("PopPtr"),
           On("LOADOBJ", 1)>>, 1, 1, {1})

HandleCalls ==
  {[Calls(<<On("PshVPtr", 1), To("CALL", 1), Keep, Jump("JMP", 7), Set(7, 2)>>,
          <<f>>, {<<1, 2>>}) EXCEPT !.tries = tries] :
     f \in {SafeField, LateField}, tries \in {<<>>, <<[from |-> 2, catch |-> 6]>>}}
  \union
  {[Calls(<<On("PshVPtr", 1), To("CALLINTF", 1), Keep>>, <<GetField, Overriding>>,
          {<<1, 2>>}) EXCEPT !.derived = derived] : derived \in {{}, {Object}}}
  \union
  {Calls(<<On("PshVPtr", 1), To("CALL", 1), On("STOREOBJ", 2), On("FREE", 2)>>,
         <<SameHandle>>, {<<1, 2>>})}

-----------------------------------------------------------------------------
(* Objects made by factories; functions called through pointers.           *)

Constructor ==
  Callee(<<On("LoadThisR", 1), On("WRTV4", -1), Set(1, 4), On("LoadThisR", 2),
           On("WRTV4", 1)>>, 1, 2, {})
Factory == Callee(<<On("PSF", 1), On("PshV4", 0), To("ALLOC", 2), On("LOADOBJ", 1)>>,
                  1, 1, {1})
\* Makes an object and returns it.
Maker ==
  Callee(<<On("PshV4", 0), To("CALL", 1), On("STOREOBJ", 1), On("ChkNullV", 1),
           On("LOADOBJ", 1)>>, 1, 1, {1})

ObjectCalls ==
  {Calls(<<On("PshV4", 3), To("CALL", n), On("STOREOBJ", 2),
           Instruction("LoadRObjR", 2, 2, 0), On("RDR4", 7), On("FREE", 2)>>,
         <<Factory, Constructor, Maker>>, {<<1, 2>>}) : n \in {1, 3}}
  \union
  {Calls(<<On("PSF", 2), On("PshV4", 3), To("ALLOC", 1), On("LOADOBJ", 2)>>, <<c>>,
         {<<1, 2>>}) : c \in {Constructor, Sum}}

\* Calls the function it is given, then counts.
Applied == Callee(<<On("CallPtr", 0), On("CpyRtoV4", 2)>> \o CountGlobal, 2, 1, {})
Handle(n) == <<Pointer(n), Named(On("RefCpyV", 1), "function"), Plain("PopPtr")>>

PointerCalls ==
  {Calls(<<pointer, To("CALL", 1), Keep>>, <<Applied, Counted>>, {<<1, 2>>}) :
     pointer \in {Pointer(2), Plain("PshNull")}}
  \union
  {Calls(Handle(1) \o more \o <<On("CallPtr", called), Keep, Named(On("FREE", 1), "function")>>,
         <<Counted, Countdown>>, {<<1, 2>>}) :
     more \in {<<>>, <<Pointer(2), Plain("PopPtr")>>}, called \in {1, 2}}

MCPrograms ==
  Direct \union Tested \union Joined
    \union {P \in Forwarded : Sensible(P)}
    \union Copied \union Loops \union Switches
    \union Throws \union ObjectsThrown \union Temporaries \union Allocations
    \union Floats
    \union PlainCalls \union InlinedCode \union HandleCalls \union ObjectCalls
    \union PointerCalls

\* this is an object or null, local 1 an object or null, local 2 null.
MCFrames(P) ==
  {[mem |-> [x \in 1..45 |->
      CASE x = MCFp - 3 -> w[1] [] x = MCFp - 5 -> w[2]
        [] x = MCFp - 1 -> held [] x = MCFp - 2 -> 0
        [] x = MCFp -> this
        [] x = Object -> 4 [] x = OtherObject -> 6
        [] OTHER -> 70 + x],
    reg |-> NoRegisters, vr |-> <<0, 0>>, sp |-> 20, object |-> 0,
    exc |-> "none", local |-> FALSE, sse |-> TRUE, inlineFields |-> TRUE] :
     w \in P.words,
     held \in IF \E k \in DOMAIN P.code : P.code[k].op \in {"PshVPtr", "LoadRObjR"}
              THEN {0, Object} ELSE {0},
     this \in IF \E k \in DOMAIN P.code : P.code[k].op = "LoadThisR"
              THEN {0, OtherObject} ELSE {OtherObject}}
=============================================================================
