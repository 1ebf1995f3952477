-------------------------- MODULE FunctionAnalysis --------------------------
(***************************************************************************)
(* What codegen/emit/analysis.cpp decides about a function before any code *)
(* is emitted. A program P is a record: code, the sequence of its          *)
(* instructions (a branch has its target in the field "to"); tries, its    *)
(* try blocks from the outermost in, as records of the first instruction   *)
(* and of the catch block; objects, its variables that own an object, with *)
(* the instruction that declares them, or 0 for a temporary.               *)
(***************************************************************************)
EXTENDS LocalCache, Sequences

Positions(P) == 1..Len(P.code)
Op(P, k) == P.code[k].op

IsConditionalBranch(op) ==
  op \in {"JZ", "JNZ", "JS", "JNS", "JP", "JNP", "JLowZ", "JLowNZ"}

IsCacheableLocalOp(op) ==
  \/ op \in {"JitEntry", "SUSPEND", "JMP", "RET", "JMPP"}
  \/ IsConditionalBranch(op)
  \/ op \in {"SetV1", "SetV2", "SetV4", "SetV8", "CpyVtoV4", "CpyVtoV8",
             "CpyVtoR4", "CpyVtoR8", "CpyRtoV4", "CpyRtoV8"}
  \/ op \in {"iTOf", "fTOi", "uTOf", "fTOu", "dTOi", "dTOu", "dTOf", "iTOd",
             "uTOd", "fTOd", "uTOi64"}
  \/ op \in {"ADDi", "SUBi", "MULi", "DIVi", "MODi", "ADDf", "SUBf", "MULf",
             "DIVf", "ADDd", "SUBd", "MULd", "DIVd", "ADDIi", "SUBIi", "MULIi",
             "ADDIf", "SUBIf", "MULIf", "DIVu", "MODu", "POWi"}
  \/ op \in {"NEGi", "NEGf", "NEGd", "NOT", "BNOT", "BAND", "BOR", "BXOR",
             "BSLL", "BSRL", "BSRA", "IncVi", "DecVi"}
  \/ op \in {"CMPi", "CMPIi", "CMPu", "CMPIu", "CMPf", "CMPd", "CMPIf",
             "TZ", "TNZ", "TS", "TNS", "TP", "TNP"}
  \/ op \in {"ADDi64", "SUBi64", "MULi64", "DIVi64", "MODi64", "NEGi64",
             "BNOT64", "BAND64", "BOR64", "BXOR64"}
  \/ op \in {"CALL", "CALLSYS", "CallPtr", "CALLINTF", "CALLBND", "ALLOC",
             "AllocApp", "FREE", "STOREOBJ", "LOADOBJ", "REFCPY", "COPY", "CHKREF",
             "ChkRefS", "ChkNullS", "Cast"}

\* Mutant: the tests, which read the register first, count as writing it.
WritesOrTests(op) ==
  op \in {"CMPi", "CMPIi", "PopRPtr", "CpyVtoR4", "CpyVtoR8", "LDG", "LDV",
          "TZ", "TNZ", "TS", "TNS", "TP", "TNP"}

WritesValueRegister(op) ==
  op \in {"LdGRdR4", "CMPd", "CMPu", "CMPf", "CMPi", "CMPIi", "CMPIf", "CMPIu",
          "PopRPtr", "CpyVtoR4", "CpyVtoR8", "LDG", "LDV", "CmpPtr", "CMPi64",
          "CMPu64", "LoadThisR", "LoadRObjR", "LoadVObjR"}

PreservesValueRegister(op) ==
  op \in {"PopPtr", "PshGPtr", "PshC4", "PshV4", "PSF", "SwapPtr", "NOT",
          "PshG4", "NEGi", "NEGf", "NEGd", "IncVi", "DecVi", "BNOT", "BAND",
          "BOR", "BXOR", "BSLL", "BSRL", "BSRA", "PshC8", "PshVPtr", "SetV4",
          "SetV8", "SetV1", "SetV2", "CpyVtoV4", "CpyVtoV8", "CpyRtoV4",
          "CpyRtoV8", "CpyVtoG4", "CpyGtoV4", "iTOf", "fTOi", "uTOf", "fTOu",
          "sbTOi", "swTOi", "ubTOi", "uwTOi", "dTOi", "dTOu", "dTOf", "iTOd",
          "uTOd", "fTOd", "ADDi", "SUBi", "MULi", "ADDf", "SUBf", "MULf",
          "ADDd", "SUBd", "MULd", "ADDIi", "SUBIi", "MULIi", "ADDIf", "SUBIf",
          "MULIf", "SetG4", "iTOb", "iTOw", "i64TOi", "uTOi64", "iTOi64",
          "NEGi64", "BNOT64", "ADDi64", "SUBi64", "MULi64", "BAND64", "BOR64",
          "BXOR64", "PshV8", "JitEntry", "PshNull", "ClrVPtr", "OBJTYPE",
          "TYPEID", "FuncPtr", "LOADOBJ", "INCi", "DECi"}

ReadsValueRegister32(op) ==
  op \in {"CpyRtoV4", "RDR1", "RDR2", "RDR4", "RDR8", "WRTV1", "WRTV2", "WRTV4",
          "WRTV8", "INCi", "DECi", "INCf", "DECf", "INCd", "DECd", "INCi16",
          "DECi16", "INCi8", "DECi8", "PshRPtr"}

StartsValueRegisterForward(op) ==
  op \in {"CpyVtoR4", "LDV", "LoadVObjR", "LoadThisR", "LoadRObjR", "PopRPtr"}

-----------------------------------------------------------------------------
(* Cached locals, in functions of MinCachedLength (16) to MaxInlineLength  *)
(* (256) instructions of which less than one in BranchShare (7) branches.  *)

CONSTANTS MinCachedLength, MaxInlineLength, BranchShare

FloatOps6 == {"ADDf", "SUBf", "MULf", "ADDIf", "SUBIf", "MULIf"}
CallBoundaryOps == {"CALL", "CALLSYS", "CallPtr", "CALLINTF", "CALLBND", "ALLOC",
                    "AllocApp"}

Count(P, Test(_)) == Cardinality({k \in Positions(P) : Test(Op(P, k))})

InlineFieldMemory(P) == Len(P.code) <= MaxInlineLength

CacheLocals(P) ==
  LET IsFloat(op) == op \in FloatOps6
      IsCall(op) == op \in CallBoundaryOps
      IsABranch(op) == IsConditionalBranch(op) \/ op \in {"JMP", "JMPP"}
  IN  /\ \A k \in Positions(P) : IsCacheableLocalOp(Op(P, k))
      /\ InlineFieldMemory(P)
      /\ Len(P.code) >= MinCachedLength
      /\ Count(P, IsFloat) < 2
      /\ Count(P, IsCall) <= 3
      /\ Count(P, IsABranch) * BranchShare < Len(P.code)

\* Every instruction gives the collector three words, operands or not.
RecordedWords(P) ==
  UNION {{P.code[k].a, P.code[k].b, P.code[k].c} : k \in Positions(P)}

CachedLocalOffsets(P) ==
  IF CacheLocals(P) THEN CollectCachedLocalOffsets(RecordedWords(P)) ELSE {}

-----------------------------------------------------------------------------
(* Labels and try blocks.                                                  *)

IsBranch(op) == op = "JMP" \/ IsConditionalBranch(op)

Covers(try, k) == try.from <= k /\ k < try.catch

\* The last block that covers the instruction is the innermost; 0 is none.
CatchTry(P, k) ==
  LET around == {t \in DOMAIN P.tries : Covers(P.tries[t], k)}
  IN  IF around = {} THEN 0 ELSE CHOOSE t \in around : \A u \in around : u <= t

LocalCatchTarget(P, k) ==
  IF CatchTry(P, k) = 0 THEN 0 ELSE P.tries[CatchTry(P, k)].catch

\* An object is declared inside the block; temporaries have no declaration.
LocalCatchNeedsCleanup(P, t) ==
  \E v \in P.objects : v.declared # 0 /\ Covers(P.tries[t], v.declared)

\* Mutant: branches get no labels.
NeedsLabelAtEntries(P) == {k \in Positions(P) : Op(P, k) = "JitEntry"}

NeedsLabel(P) ==
  {k \in Positions(P) : Op(P, k) = "JitEntry"}
    \union {P.code[k].to : k \in {j \in Positions(P) : IsBranch(Op(P, j))}}
    \union ({LocalCatchTarget(P, k) : k \in Positions(P)} \ {0})

-----------------------------------------------------------------------------
(* A handle copied to another variable: PshVPtr RefCpyV PopPtr, and with a *)
(* FREE of the source the reference moves.                                 *)

RefCopyFusionSpan(P, k) ==
  LET n == Len(P.code)
      At(j, op) == k + j <= n /\ Op(P, k + j) = op /\ k + j \notin NeedsLabel(P)
      \* where the source is freed
      free == IF At(2, "FREE") THEN k + 2 ELSE k + 3
      moves == /\ \/ At(2, "FREE") /\ At(3, "PopPtr")
                  \/ At(2, "PopPtr") /\ At(3, "FREE")
               /\ P.code[k].a = P.code[free].a
               /\ P.code[k].a # P.code[k + 1].a
               /\ P.code[k + 1].p = P.code[free].p
      copies == /\ k + 2 <= n
                /\ Op(P, k) = "PshVPtr"
                /\ At(1, "RefCpyV")
                /\ P.code[k + 1].kind \in {"script", "function"}
  IN  IF ~copies THEN 0
      ELSE IF At(2, "PopPtr") THEN 3
      ELSE IF moves THEN 4 ELSE 0

RefCopyFusionSkip(P) ==
  UNION {k + 1..k + RefCopyFusionSpan(P, k) - 1 : k \in Positions(P)}

-----------------------------------------------------------------------------
(* The value register is dead when every way on writes it before it reads  *)
(* it; the walk follows jumps and gives up at conditional branches.        *)

IsValueRegisterDeadFrom(P, start) ==
  LET Follow(k) == IF Op(P, k) = "JMP" THEN P.code[k].to ELSE k + 1
      Continues(k) == /\ k \in Positions(P)
                      /\ ~WritesValueRegister(Op(P, k))
                      /\ ~ReadsValueRegister32(Op(P, k))
                      /\ Op(P, k) = "JMP" \/ PreservesValueRegister(Op(P, k))
      walk[n \in 0..Len(P.code)] ==
        IF n = 0 THEN start
        ELSE IF Continues(walk[n - 1]) THEN Follow(walk[n - 1])
        ELSE walk[n - 1]
  IN  \E n \in 0..Len(P.code) :
        walk[n] \in Positions(P) /\ WritesValueRegister(Op(P, walk[n]))

Inverted(op) ==
  CASE op = "JZ" -> "JNZ" [] op = "JNZ" -> "JZ"
    [] op = "JLowZ" -> "JLowNZ" [] op = "JLowNZ" -> "JLowZ"
    [] OTHER -> op

\* Mutant: jns falls through when the result is negative.
FallValueUnsigned(op) ==
  CASE op \in {"JNZ", "JLowNZ"} -> 0 [] op \in {"JNS", "JNP"} -> 1
    [] OTHER -> 2

\* What falling through says of the value register; 2 says nothing.
FallValue(op) ==
  CASE op \in {"JNZ", "JLowNZ"} -> 0 [] op = "JNS" -> -1 [] op = "JNP" -> 1
    [] OTHER -> 2

NotFused == [span |-> 0, op |-> "none", fall |-> 2]

\* A comparison and the branch on its result, with TZ or TNZ between them or
\* not: span instructions after the comparison, one branch on op.
ComparisonBranchFusion(P, k) ==
  LET tested == /\ Op(P, k + 1) \in {"TZ", "TNZ"}
                /\ {k + 1, k + 2} \intersect NeedsLabel(P) = {}
                /\ Op(P, k + 2) \in {"JZ", "JNZ", "JLowZ", "JLowNZ"}
      direct == IsConditionalBranch(Op(P, k + 1)) /\ k + 1 \notin NeedsLabel(P)
      branch == IF tested THEN k + 2 ELSE k + 1
      op == IF tested /\ Op(P, k + 1) = "TZ" THEN Inverted(Op(P, branch))
            ELSE Op(P, branch)
      fallDead == IsValueRegisterDeadFrom(P, branch + 1)
      takenDead == IsValueRegisterDeadFrom(P, P.code[branch].to)
  IN  IF /\ k + 2 <= Len(P.code)
         /\ Op(P, k) \in {"CMPi", "CMPIi", "CMPu", "CMPIu", "CmpPtr"}
         /\ tested \/ direct
         /\ takenDead /\ (fallDead \/ FallValue(op) # 2)
      THEN [span |-> branch - k, op |-> op,
            fall |-> IF fallDead THEN 2 ELSE FallValue(op)]
      ELSE NotFused

\* Instructions that a fused comparison before them has taken in.
FusedAway(P) ==
  UNION {k + 1..k + ComparisonBranchFusion(P, k).span : k \in Positions(P)}

-----------------------------------------------------------------------------
\* Mutant: only fusions block, labels do not.
ForwardBlockedByFusion(P, j) == j \in RefCopyFusionSkip(P) \union FusedAway(P)

ForwardBlocked(P, j) ==
  j \in NeedsLabel(P) \union RefCopyFusionSkip(P) \union FusedAway(P)

\* The instruction that takes the value register of instruction k from a
\* processor register, or 0.
ValueRegisterForward(P, k) ==
  LET Reads(j) == ~ForwardBlocked(P, j) /\ ReadsValueRegister32(Op(P, j))
      Passes(j) == /\ ~ForwardBlocked(P, j)
                   /\ ~ReadsValueRegister32(Op(P, j))
                   /\ ~WritesValueRegister(Op(P, j))
                   /\ PreservesValueRegister(Op(P, j))
      ends == {j \in k + 1..Len(P.code) :
                 Reads(j) /\ \A x \in k + 1..j - 1 : Passes(x)}
  IN  IF InlineFieldMemory(P) /\ StartsValueRegisterForward(Op(P, k))
         /\ ends # {}
      THEN CHOOSE j \in ends : TRUE ELSE 0
=============================================================================
