------------------------- MODULE FunctionCodeProofs -------------------------
(***************************************************************************)
(* What the analyses of analysis.cpp guarantee of every function, and the  *)
(* way of native code through it: it never comes to an instruction that    *)
(* has no code, and a forwarded value register is taken on a straight way. *)
(* And beside the interpreter: as long as neither has parted from the      *)
(* other, both are at the same instruction in the same state, and what     *)
(* moves control in native code, its shortcuts, its calls of system        *)
(* functions and its allocations go where the interpreter goes and do to   *)
(* the program what it does, but for the differences that are known.       *)
(***************************************************************************)
EXTENDS FunctionCode, EmittedCodeLemmas, FiniteSetTheorems

(* Numbers.                                                                *)

\* A set of numbers up to n that is not empty has a greatest element.
LEMMA GreatestExists ==
  ASSUME NEW n \in Nat, NEW S \in SUBSET (1..n), S # {}
  PROVE  \E t \in S : \A u \in S : u <= t
<1> DEFINE T == {n - t : t \in S}
<1>1. T \in SUBSET Nat /\ T # {}
  <2>1. \A t \in S : n - t \in Nat
    OBVIOUS
  <2> QED  BY <2>1
<1>2. PICK d \in T : \A y \in T : d <= y
  <2> HIDE DEF T
  <2> QED  BY <1>1, LeastExists
<1>3. PICK t \in S : d = n - t
  OBVIOUS
<1>4. \A u \in S : n - u \in T
  OBVIOUS
<1>5. ASSUME NEW u \in S PROVE u <= t
  <2>1. d <= n - u
    BY <1>2, <1>4
  <2> QED  BY <1>3, <2>1
<1> QED  BY <1>5

-----------------------------------------------------------------------------
(* Packed floats: the equation of the recursive function PackedGroups.     *)

Taken(g, k) == \E j \in 1..k - 1 : k < j + g[j].span

\* Groups chosen from the front, each unless an earlier one covers its place,
\* exist for any candidates.
LEMMA GroupsExist ==
  ASSUME NEW N \in Nat, NEW A
  PROVE  \E g : /\ g = [k \in 1..N |-> g[k]]
                /\ \A k \in 1..N : g[k] = IF Taken(g, k) THEN NotPacked ELSE A[k]
<1> DEFINE Good(n, g) ==
             /\ g = [k \in 1..n |-> g[k]]
             /\ \A k \in 1..n : g[k] = IF Taken(g, k) THEN NotPacked ELSE A[k]
           Bad == {n \in Nat : ~\E g : Good(n, g)}
<1>1. SUFFICES Bad = {}
  BY Zenon
<1>2. SUFFICES ASSUME Bad # {} PROVE FALSE
  OBVIOUS
<1>3. PICK n \in Bad : \A y \in Bad : n <= y
  <2>1. Bad \in SUBSET Nat
    OBVIOUS
  <2> HIDE DEF Bad
  <2> QED  BY <1>2, <2>1, LeastExists
<1>4. n # 0
  <2> DEFINE e == [k \in 1..0 |-> 0]
  <2>1. Good(0, e)
    OBVIOUS
  <2> HIDE DEF Good, e
  <2> QED  BY <2>1
<1>5. n - 1 \in Nat /\ n - 1 \notin Bad
  BY <1>3, <1>4
<1>6. PICK g : Good(n - 1, g)
  BY <1>5
<1> DEFINE last == IF Taken(g, n) THEN NotPacked ELSE A[n]
           h == [k \in 1..n |-> IF k = n THEN last ELSE g[k]]
<1>7. \A k \in 1..n : \A j \in 1..k - 1 : h[j] = g[j]
  OBVIOUS
<1>8. \A k \in 1..n : Taken(h, k) = Taken(g, k)
  <2> SUFFICES ASSUME NEW k \in 1..n PROVE Taken(h, k) = Taken(g, k)
    OBVIOUS
  <2>1. \A j \in 1..k - 1 : h[j] = g[j]
    BY <1>7
  <2> HIDE DEF h
  <2> QED  BY <2>1 DEF Taken
<1>9. h = [k \in 1..n |-> h[k]]
  OBVIOUS
<1>10. \A k \in 1..n : h[k] = IF Taken(h, k) THEN NotPacked ELSE A[k]
  <2> SUFFICES ASSUME NEW k \in 1..n
               PROVE  h[k] = IF Taken(h, k) THEN NotPacked ELSE A[k]
    OBVIOUS
  <2>1. Taken(h, k) = Taken(g, k)
    BY <1>8
  <2>2. CASE k = n
    <3>1. h[k] = last
      BY <2>2
    <3> HIDE DEF h
    <3> QED  BY <2>1, <2>2, <3>1
  <2>3. CASE k # n
    <3>1. h[k] = g[k] /\ k \in 1..n - 1
      BY <2>3
    <3>2. g[k] = IF Taken(g, k) THEN NotPacked ELSE A[k]
      BY <1>6, <3>1
    <3> HIDE DEF h
    <3> QED  BY <2>1, <3>1, <3>2
  <2> QED  BY <2>2, <2>3
<1>11. Good(n, h)
  <2> HIDE DEF h
  <2> QED  BY <1>9, <1>10
<1>12. n \notin Bad
  <2> HIDE DEF Good, h
  <2> QED  BY <1>11
<1> QED  BY <1>3, <1>12

\* Every group is the one the emitter would make there, unless one that starts
\* before has taken the instruction.
LEMMA PackedGroupsEquation ==
  ASSUME NEW P, Len(P.code) \in Nat, NEW avx,
         NEW k \in Positions(P)
  PROVE  LET g == PackedGroups(P, avx)
         IN  g[k] = IF \E j \in 1..k - 1 : k < j + g[j].span THEN NotPacked
                    ELSE PackedGroup(P, k, avx)
<1> DEFINE A == [j \in Positions(P) |-> PackedGroup(P, j, avx)]
           Is(g) == g = [j \in Positions(P) |->
                           IF \E i \in 1..j - 1 : j < i + g[i].span THEN NotPacked
                           ELSE PackedGroup(P, j, avx)]
<1>1. PICK g : /\ g = [j \in 1..Len(P.code) |-> g[j]]
               /\ \A j \in 1..Len(P.code) :
                    g[j] = IF Taken(g, j) THEN NotPacked ELSE A[j]
  <2> HIDE DEF A
  <2> QED  BY GroupsExist
<1>2. Is(g)
  BY <1>1 DEF Positions, Taken
<1>3. PackedGroups(P, avx) = CHOOSE f : Is(f)
  BY DEF PackedGroups
<1>4. Is(PackedGroups(P, avx))
  <2> HIDE DEF Is
  <2> QED  BY <1>2, <1>3
<1> QED  BY <1>4

-----------------------------------------------------------------------------
(* What the analyses take together, and that labels stop them.             *)

CopiedOps == {"RefCpyV", "PopPtr", "FREE"}

\* The instructions of a copied handle are in the function, of known kinds and
\* not jumped to.
LEMMA CopySpanFits ==
  ASSUME NEW P, NEW k \in Int, Len(P.code) \in Nat
  PROVE  LET s == RefCopyFusionSpan(P, k)
         IN  /\ s \in {0, 3, 4}
             /\ s > 0 => /\ Op(P, k) = "PshVPtr" /\ k + s - 1 <= Len(P.code)
                         /\ \A x \in k + 1..k + s - 1 :
                              x \notin NeedsLabel(P) /\ Op(P, x) \in CopiedOps
<1> DEFINE n == Len(P.code)
           Has(j, op) == k + j <= n /\ Op(P, k + j) = op /\ k + j \notin NeedsLabel(P)
           s == RefCopyFusionSpan(P, k)
<1>1. s = 0 \/ (s = 3 /\ Has(1, "RefCpyV") /\ Has(2, "PopPtr"))
            \/ (s = 4 /\ Has(1, "RefCpyV") /\ Has(2, "FREE") /\ Has(3, "PopPtr"))
  BY DEF RefCopyFusionSpan
<1>2. s > 0 => Op(P, k) = "PshVPtr"
  BY DEF RefCopyFusionSpan
<1> HIDE DEF s
<1>3. CASE s = 0
  BY <1>3 DEF s
<1>4. CASE s = 3
  <2>1. k + 1..k + s - 1 = {k + 1, k + 2}
    BY <1>4
  <2> QED  BY <1>1, <1>2, <1>4, <2>1 DEF CopiedOps, s
<1>5. CASE s = 4
  <2>1. k + 1..k + s - 1 = {k + 1, k + 2, k + 3}
    BY <1>5
  <2> QED  BY <1>1, <1>2, <1>5, <2>1 DEF CopiedOps, s
<1> QED  BY <1>1, <1>3, <1>4, <1>5

ComparedOps == {"CMPi", "CMPIi", "CMPu", "CMPIu", "CmpPtr"}

\* The same of a comparison and its branch, which is the last instruction.
LEMMA FusionSpanFits ==
  ASSUME NEW P, NEW k \in Int, Len(P.code) \in Nat
  PROVE  LET s == ComparisonBranchFusion(P, k).span
         IN  /\ s \in {0, 1, 2}
             /\ s > 0 => /\ Op(P, k) \in ComparedOps /\ k + s <= Len(P.code)
                         /\ IsConditionalBranch(Op(P, k + s))
                         /\ \A x \in k + 1..k + s : x \notin NeedsLabel(P)
                         /\ s = 2 => Op(P, k + 1) \in {"TZ", "TNZ"}
<1> DEFINE f == ComparisonBranchFusion(P, k)
           s == f.span
           tested == /\ Op(P, k + 1) \in {"TZ", "TNZ"}
                     /\ {k + 1, k + 2} \intersect NeedsLabel(P) = {}
                     /\ Op(P, k + 2) \in {"JZ", "JNZ", "JLowZ", "JLowNZ"}
           direct == IsConditionalBranch(Op(P, k + 1)) /\ k + 1 \notin NeedsLabel(P)
           fits == k + 2 <= Len(P.code) /\ Op(P, k) \in ComparedOps
<1>1. \/ s = 0
      \/ fits /\ tested /\ s = 2
      \/ fits /\ direct /\ s = 1
  <2>1. NotFused.span = 0
    BY DEF NotFused
  <2>2. k + 2 - k = 2 /\ k + 1 - k = 1
    OBVIOUS
  <2> QED  BY <2>1, <2>2 DEF ComparisonBranchFusion, ComparedOps
<1> HIDE DEF s
<1>2. CASE s = 0
  BY <1>2 DEF s
<1>3. CASE fits /\ tested /\ s = 2
  <2>1. k + 1..k + s = {k + 1, k + 2}
    BY <1>3
  <2>2. IsConditionalBranch(Op(P, k + s))
    BY <1>3 DEF IsConditionalBranch
  <2> QED  BY <1>3, <2>1, <2>2 DEF s
<1>4. CASE fits /\ direct /\ s = 1
  <2>1. k + 1..k + s = {k + 1}
    BY <1>4
  <2> QED  BY <1>4, <2>1 DEF s
<1> QED  BY <1>1, <1>2, <1>3, <1>4

\* No instruction that something jumps to is taken into another one: branches,
\* entries and catch blocks find their code (AnalyzeLabels, AnalyzeCatchTargets
\* and the two fusions of analysis.cpp).
THEOREM LabelsStopFusions ==
  ASSUME NEW P, Len(P.code) \in Nat
  PROVE  NeedsLabel(P) \intersect (RefCopyFusionSkip(P) \union FusedAway(P)) = {}
<1>1. ASSUME NEW x \in RefCopyFusionSkip(P) PROVE x \notin NeedsLabel(P)
  <2>1. PICK k \in Positions(P) : x \in k + 1..k + RefCopyFusionSpan(P, k) - 1
    BY DEF RefCopyFusionSkip
  <2>2. k \in Int
    BY DEF Positions
  <2> QED  BY <2>1, <2>2, CopySpanFits
<1>2. ASSUME NEW x \in FusedAway(P) PROVE x \notin NeedsLabel(P)
  <2>1. PICK k \in Positions(P) : x \in k + 1..k + ComparisonBranchFusion(P, k).span
    BY DEF FusedAway
  <2>2. k \in Int
    BY DEF Positions
  <2> QED  BY <2>1, <2>2, FusionSpanFits
<1> QED  BY <1>1, <1>2

PackedOps == {"ADDf", "SUBf", "MULf", "ADDIf", "SUBIf", "MULIf"}

\* The instructions of the lanes, and what is between them.
LEMMA LanesCover ==
  ASSUME NEW P, Len(P.code) \in Nat, NEW k \in Positions(P),
         NEW w \in Nat \ {0, 1}, NEW stride \in {1, 2},
         LanesFit(P, k, w, stride), NEW span, span = (w - 1) * stride + 1
  PROVE  /\ span \in Nat /\ span >= 2 /\ k + span - 1 <= Len(P.code)
         /\ Op(P, k + span - 1) = Op(P, k)
         /\ \A x \in k + 1..k + span - 1 :
              \/ stride = 2 /\ Op(P, x) = "JitEntry"
              \/ Op(P, x) = Op(P, k) /\ x \notin NeedsLabel(P)
         /\ stride = 2 => Op(P, k + 1) = "JitEntry"
<1>0. k \in Nat
  BY DEF Positions
<1>1. ASSUME NEW l \in 0..w - 1, NEW j, j = k + l * stride
      PROVE  /\ Op(P, j) = Op(P, k)
             /\ j # k => j \notin NeedsLabel(P)
             /\ j # k /\ stride = 2 => Op(P, j - 1) = "JitEntry"
  <2>1. j \in LanePositions(k, w, stride)
    BY <1>1, Zenon DEF LanePositions
  <2> QED  BY <2>1, Zenon DEF LanesFit
<1>2. k + (w - 1) * stride <= Len(P.code)
  BY DEF LanesFit
<1>3. CASE stride = 1
  <2>1. span = w
    BY <1>3
  <2>2. ASSUME NEW x \in k + 1..k + span - 1
        PROVE  Op(P, x) = Op(P, k) /\ x \notin NeedsLabel(P)
    <3>1. x - k \in 0..w - 1 /\ k + (x - k) * stride = x /\ x # k
      BY <1>0, <1>3, <2>1
    <3> QED  BY ONLY <1>1, <3>1, Zenon
  <2>3. k + span - 1 \in k + 1..k + span - 1
    BY <1>0, <2>1
  <2> QED  BY <1>0, <1>2, <1>3, <2>1, <2>2, <2>3
<1>4. CASE stride = 2
  <2>1. span = 2 * w - 1
    BY <1>4
  <2>2. ASSUME NEW x \in k + 1..k + span - 1
        PROVE  \/ Op(P, x) = "JitEntry"
               \/ Op(P, x) = Op(P, k) /\ x \notin NeedsLabel(P)
    <3>1. PICK l \in 0..w - 1 : x = k + 2 * l \/ (x = k + 2 * l - 1 /\ l > 0)
      <4> DEFINE l == (x - k + 1) \div 2
      <4>1. l \in 0..w - 1 /\ (x = k + 2 * l \/ (x = k + 2 * l - 1 /\ l > 0))
        BY <1>0, <2>1
      <4> QED  BY <4>1
    <3>2. k + l * stride = k + 2 * l /\ (k + 2 * l = k <=> l = 0)
      BY <1>0, <1>4
    <3>3. l # 0
      BY <1>0, <3>1
    <3>4. PICK j : j = k + l * stride
      OBVIOUS
    <3>5. j = k + 2 * l /\ j # k /\ (x = j \/ x = j - 1)
      BY <1>0, <1>4, <3>1, <3>2, <3>3, <3>4
    <3>6. /\ Op(P, j) = Op(P, k) /\ j \notin NeedsLabel(P)
          /\ Op(P, j - 1) = "JitEntry"
      BY <1>1, <1>4, <3>4, <3>5, Zenon
    <3> QED  BY <3>5, <3>6, Zenon
  <2>3. w - 1 \in 0..w - 1 /\ k + (w - 1) * stride = k + span - 1
    BY <1>0, <1>4, <2>1
  <2>4. 1 \in 0..w - 1 /\ k + 1 * stride - 1 = k + 1 /\ k + 1 * stride # k
    BY <1>0, <1>4
  <2>5. Op(P, k + span - 1) = Op(P, k)
    BY <1>1, <2>3, Zenon
  <2>6. Op(P, k + 1) = "JitEntry"
    <3>1. PICK j : j = k + 1 * stride
      OBVIOUS
    <3>2. Op(P, j - 1) = "JitEntry"
      BY <1>1, <1>4, <2>4, <3>1, Zenon
    <3>3. j - 1 = k + 1
      BY <1>0, <1>4, <3>1
    <3> QED  BY <3>2, <3>3, Zenon
  <2> QED  BY <1>0, <1>2, <1>4, <2>1, <2>2, <2>3, <2>5, <2>6
<1> QED  BY <1>3, <1>4

\* A group is made where it fits, with lanes of one operation.
LEMMA PackedGroupFits ==
  ASSUME NEW P, Len(P.code) \in Nat, NEW k \in Positions(P), NEW avx \in BOOLEAN
  PROVE  LET g == PackedGroup(P, k, avx)
         IN  \/ g = NotPacked
             \/ /\ Op(P, k) \in PackedOps
                /\ g.width \in Nat \ {0, 1} /\ g.stride \in {1, 2}
                /\ g.span = (g.width - 1) * g.stride + 1
                /\ LanesFit(P, k, g.width, g.stride)
<1> DEFINE shapes == IF avx THEN <<<<WideLanes, 2>>, <<WideLanes, 1>>,
                                   <<NarrowLanes, 2>>, <<NarrowLanes, 1>>>>
                     ELSE <<<<NarrowLanes, 2>>, <<NarrowLanes, 1>>>>
           Fits(s) == \/ PackedBinary(P, k, s[1], s[2])
                      \/ PackedImmediate(P, k, s[1], s[2])
           fitting == {n \in DOMAIN shapes : Fits(shapes[n])}
           first == CHOOSE n \in fitting : \A j \in fitting : n <= j
           best == shapes[first]
           g == [width |-> best[1], stride |-> best[2],
                 span |-> (best[1] - 1) * best[2] + 1]
<1>1. PackedGroup(P, k, avx) = IF CacheLocals(P) \/ fitting = {} THEN NotPacked ELSE g
  BY DEF PackedGroup
<1>2. SUFFICES ASSUME fitting # {}, PackedGroup(P, k, avx) = g
               PROVE  /\ Op(P, k) \in PackedOps
                      /\ best[1] \in Nat \ {0, 1} /\ best[2] \in {1, 2}
                      /\ LanesFit(P, k, best[1], best[2])
  <2>1. g.width = best[1] /\ g.stride = best[2]
        /\ g.span = (best[1] - 1) * best[2] + 1
    BY Zenon
  <2> HIDE DEF fitting, best, g
  <2> QED  BY <1>1, <2>1
<1>3. fitting \subseteq Nat
  <2>1. DOMAIN shapes \subseteq Nat
    BY Zenon, SMT
  <2> HIDE DEF shapes
  <2> QED  BY <2>1
<1>4. first \in fitting
  <2>1. \E n \in fitting : \A j \in fitting : n <= j
    <3> HIDE DEF fitting
    <3> QED  BY <1>2, <1>3, LeastExists
  <2> HIDE DEF fitting
  <2> QED  BY <2>1
<1>5. \A n \in DOMAIN shapes :
        shapes[n][1] \in {WideLanes, NarrowLanes} /\ shapes[n][2] \in {1, 2}
  OBVIOUS
<1>6. first \in DOMAIN shapes /\ Fits(best)
  <2> HIDE DEF shapes, first
  <2> QED  BY <1>4
<1>7. best[1] \in Nat \ {0, 1} /\ best[2] \in {1, 2}
  <2> HIDE DEF shapes, first
  <2> QED  BY <1>5, <1>6, LanesAssumption
<1>8. Op(P, k) \in PackedOps /\ LanesFit(P, k, best[1], best[2])
  <2> HIDE DEF best
  <2> QED  BY <1>6 DEF PackedBinary, PackedImmediate, PackedOps
<1> QED  BY <1>7, <1>8

-----------------------------------------------------------------------------
(* The plan of a function, instruction by instruction.                     *)

\* What the plan says of a position is what each analysis says of it.
LEMMA PlanFields ==
  ASSUME NEW P, NEW avx \in BOOLEAN, NEW p, p = Plan(P, avx), NEW k \in Positions(P)
  PROVE  /\ p.copies[k] = RefCopyFusionSpan(P, k)
         /\ p.fusion[k] = ComparisonBranchFusion(P, k)
         /\ p.forward[k] = ValueRegisterForward(P, k)
         /\ p.packed = PackedGroups(P, avx)
         /\ p.without = RefCopyFusionSkip(P) \union FusedAway(P)
BY DEF Plan

\* What a group of the plan takes; nothing else starts inside it.
LEMMA PackedInPlan ==
  ASSUME NEW P, Len(P.code) \in Nat, NEW avx \in BOOLEAN, NEW p, p = Plan(P, avx),
         NEW k \in Positions(P), NEW g, g = p.packed[k]
  PROVE  \/ g.width = 0 /\ g.span = 0
         \/ /\ Op(P, k) \in PackedOps /\ g.width >= 2
            /\ g.span \in Nat /\ g.span >= 2 /\ k + g.span - 1 <= Len(P.code)
            /\ Op(P, k + g.span - 1) = Op(P, k)
            /\ \A x \in k + 1..k + g.span - 1 :
                 \/ g.stride = 2 /\ Op(P, x) = "JitEntry"
                 \/ Op(P, x) = Op(P, k) /\ x \notin NeedsLabel(P)
            /\ \A j \in Positions(P) : j < k => ~(k < j + p.packed[j].span)
<1>1. p.packed = PackedGroups(P, avx)
  BY PlanFields
<1>2. g = IF \E j \in 1..k - 1 : k < j + p.packed[j].span THEN NotPacked
          ELSE PackedGroup(P, k, avx)
  <2>1. PackedGroups(P, avx)[k] =
          IF \E j \in 1..k - 1 : k < j + PackedGroups(P, avx)[j].span THEN NotPacked
          ELSE PackedGroup(P, k, avx)
    BY PackedGroupsEquation, Zenon
  <2> QED  BY <1>1, <2>1, Zenon
<1>3. CASE g = NotPacked
  BY <1>3 DEF NotPacked
<1>4. CASE g # NotPacked
  <2>1. g = PackedGroup(P, k, avx) /\ ~\E j \in 1..k - 1 : k < j + p.packed[j].span
    BY <1>2, <1>4, Zenon
  <2>2. /\ Op(P, k) \in PackedOps
        /\ g.width \in Nat \ {0, 1} /\ g.stride \in {1, 2}
        /\ g.span = (g.width - 1) * g.stride + 1
        /\ LanesFit(P, k, g.width, g.stride)
    <3>1. LET f == PackedGroup(P, k, avx)
          IN  \/ f = NotPacked
              \/ /\ Op(P, k) \in PackedOps
                 /\ f.width \in Nat \ {0, 1} /\ f.stride \in {1, 2}
                 /\ f.span = (f.width - 1) * f.stride + 1
                 /\ LanesFit(P, k, f.width, f.stride)
      BY PackedGroupFits, Zenon
    <3> QED  BY <1>4, <2>1, <3>1, Zenon
  <2>3. /\ g.span \in Nat /\ g.span >= 2 /\ k + g.span - 1 <= Len(P.code)
        /\ Op(P, k + g.span - 1) = Op(P, k)
        /\ \A x \in k + 1..k + g.span - 1 :
             \/ g.stride = 2 /\ Op(P, x) = "JitEntry"
             \/ Op(P, x) = Op(P, k) /\ x \notin NeedsLabel(P)
    <3>1. PICK w \in Nat \ {0, 1}, stride \in {1, 2} : w = g.width /\ stride = g.stride
      BY <2>2, Zenon
    <3>2. PICK span : span = g.span
      BY Zenon
    <3>3. LanesFit(P, k, w, stride) /\ span = (w - 1) * stride + 1
      BY <2>2, <3>1, <3>2, Zenon
    <3>4. /\ span \in Nat /\ span >= 2 /\ k + span - 1 <= Len(P.code)
          /\ Op(P, k + span - 1) = Op(P, k)
          /\ \A x \in k + 1..k + span - 1 :
               \/ stride = 2 /\ Op(P, x) = "JitEntry"
               \/ Op(P, x) = Op(P, k) /\ x \notin NeedsLabel(P)
      BY <3>3, LanesCover
    <3> QED  BY <3>1, <3>2, <3>4
  <2>4. \A j \in Positions(P) : j < k => j \in 1..k - 1
    BY DEF Positions
  <2> QED  BY <2>1, <2>2, <2>3, <2>4
<1> QED  BY <1>3, <1>4

-----------------------------------------------------------------------------
(* Where native code may go on.                                            *)

\* Position k has code of its own.
HasCode(P, p, k) ==
  /\ k \in Positions(P) /\ k \notin p.without
  /\ \A j \in Positions(P) : j < k /\ k < j + p.packed[j].span => p.packed[j].stride = 2

Spanned(p, j, x) ==
  x \in j + 1..j + p.copies[j] - 1 \/ x \in j + 1..j + p.fusion[j].span

\* The positions without code are those that some copied handle or fused
\* comparison spans.
LEMMA WithoutCode ==
  ASSUME NEW P, NEW avx \in BOOLEAN, NEW p, p = Plan(P, avx), NEW x
  PROVE  x \in p.without <=> \E j \in Positions(P) : Spanned(p, j, x)
<1>1. p.without = RefCopyFusionSkip(P) \union FusedAway(P)
  BY DEF Plan
<1>2. \A j \in Positions(P) : p.copies[j] = RefCopyFusionSpan(P, j)
                             /\ p.fusion[j] = ComparisonBranchFusion(P, j)
  BY PlanFields
<1> QED  BY <1>1, <1>2, Zenon DEF RefCopyFusionSkip, FusedAway, Spanned

\* Lengths of shortcuts are natural numbers.
LEMMA SpansAreNumbers ==
  ASSUME NEW P, Len(P.code) \in Nat, NEW avx \in BOOLEAN, NEW p, p = Plan(P, avx),
         NEW j \in Positions(P)
  PROVE  j \in Nat /\ p.copies[j] \in Nat /\ p.fusion[j].span \in Nat
         /\ p.packed[j].span \in Nat
<1>1. j \in Nat
  BY DEF Positions
<1>2. p.copies[j] \in {0, 3, 4}
  BY <1>1, CopySpanFits, PlanFields
<1>3. p.fusion[j].span \in {0, 1, 2}
  BY <1>1, FusionSpanFits, PlanFields
<1>4. PICK g : g = p.packed[j]
  OBVIOUS
<1>5. g.span \in Nat
  BY <1>4, PackedInPlan
<1> QED  BY <1>1, <1>2, <1>3, <1>4, <1>5

\* Labels have code.
LEMMA LabelHasCode ==
  ASSUME NEW P, Len(P.code) \in Nat, NEW avx \in BOOLEAN, NEW p, p = Plan(P, avx),
         NEW k \in Positions(P), k \in NeedsLabel(P)
  PROVE  HasCode(P, p, k)
<1>1. k \notin p.without
  <2>1. p.without = RefCopyFusionSkip(P) \union FusedAway(P)
    BY PlanFields
  <2> QED  BY <2>1, LabelsStopFusions
<1>2. ASSUME NEW j \in Positions(P), j < k, k < j + p.packed[j].span
      PROVE  p.packed[j].stride = 2
  <2>1. PICK g : g = p.packed[j]
    OBVIOUS
  <2>2. j \in Nat /\ k \in Nat /\ g.span \in Nat
    BY <2>1, SpansAreNumbers
  <2>3. g.span # 0 /\ k \in j + 1..j + g.span - 1
    BY <1>2, <2>1, <2>2
  <2>4. \A x \in j + 1..j + g.span - 1 :
          \/ g.stride = 2 /\ Op(P, x) = "JitEntry"
          \/ Op(P, x) = Op(P, j) /\ x \notin NeedsLabel(P)
    BY <2>1, <2>3, PackedInPlan
  <2> QED  BY <2>1, <2>3, <2>4
<1> QED  BY <1>1, <1>2 DEF HasCode

\* After n instructions there is code, if nothing that starts among them takes
\* more: what starts before has ended, or k itself would have none.
LEMMA CodeGoesOn ==
  ASSUME NEW P, Len(P.code) \in Nat, NEW avx \in BOOLEAN, NEW p, p = Plan(P, avx),
         NEW k, HasCode(P, p, k), NEW n \in Nat \ {0}, k + n \in Positions(P),
         \A j \in k..k + n - 1 :
           ~Spanned(p, j, k + n) /\ ~(k + n < j + p.packed[j].span)
  PROVE  HasCode(P, p, k + n)
<1>1. k \in Positions(P) /\ k \in Nat
  BY DEF HasCode, Positions
<1>2. ASSUME NEW j \in Positions(P), Spanned(p, j, k + n) PROVE FALSE
  <2>1. j \in Nat /\ p.copies[j] \in Nat /\ p.fusion[j].span \in Nat
    BY SpansAreNumbers
  <2>2. j \notin k..k + n - 1
    BY <1>2
  <2>3. j < k
    BY <1>1, <1>2, <2>1, <2>2 DEF Spanned
  <2>4. Spanned(p, j, k)
    <3>1. PICK c \in Nat, f \in Nat : c = p.copies[j] /\ f = p.fusion[j].span
      BY <2>1
    <3>2. k + n \in j + 1..j + c - 1 \/ k + n \in j + 1..j + f
      BY <1>2, <3>1 DEF Spanned
    <3>3. k < k + n /\ j + 1 <= k
      BY <1>1, <2>1, <2>3
    <3>4. ASSUME NEW t \in Int, k + n \in j + 1..t PROVE k \in j + 1..t
      BY <1>1, <2>1, <3>3, <3>4
    <3>5. k \in j + 1..j + c - 1 \/ k \in j + 1..j + f
      <4>1. j + c - 1 \in Int /\ j + f \in Int
        BY <2>1, <3>1
      <4> QED  BY <3>2, <3>4, <4>1
    <3> QED  BY <3>1, <3>5 DEF Spanned
  <2>5. k \in p.without
    BY <2>4, WithoutCode
  <2> QED  BY <2>5 DEF HasCode
<1>3. ASSUME NEW j \in Positions(P), j < k + n, k + n < j + p.packed[j].span
      PROVE  p.packed[j].stride = 2
  <2>1. j \in Nat /\ p.packed[j].span \in Nat
    BY SpansAreNumbers
  <2>2. j \notin k..k + n - 1
    BY <1>3
  <2>3. j < k /\ k < j + p.packed[j].span
    BY <1>1, <1>3, <2>1, <2>2
  <2> QED  BY <2>3 DEF HasCode
<1>4. k + n \notin p.without
  BY <1>2, WithoutCode
<1> QED  BY <1>3, <1>4 DEF HasCode

\* There is an instruction behind every one but RET.
LEMMA NotTheLast ==
  ASSUME NEW P, WellFormed(P), NEW k \in Positions(P), Op(P, k) # "RET"
  PROVE  k + 1 \in Positions(P)
BY DEF WellFormed, Positions

ShortcutOps == PackedOps \union ComparedOps \union {"PshVPtr"}

\* Shortcuts start at instructions of their own kinds.
LEMMA ShortcutsStart ==
  ASSUME NEW P, Len(P.code) \in Nat, NEW avx \in BOOLEAN, NEW p, p = Plan(P, avx),
         NEW j \in Positions(P)
  PROVE  /\ Op(P, j) # "PshVPtr" => p.copies[j] = 0
         /\ Op(P, j) \notin ComparedOps => p.fusion[j].span = 0
         /\ Op(P, j) \notin PackedOps =>
              p.packed[j].width = 0 /\ p.packed[j].span = 0
<1>1. j \in Nat
  BY DEF Positions
<1>2. Op(P, j) # "PshVPtr" => p.copies[j] = 0
  BY <1>1, CopySpanFits, PlanFields
<1>3. Op(P, j) \notin ComparedOps => p.fusion[j].span = 0
  BY <1>1, FusionSpanFits, PlanFields
<1>4. PICK g : g = p.packed[j]
  OBVIOUS
<1>5. Op(P, j) \notin PackedOps => g.width = 0 /\ g.span = 0
  BY <1>4, PackedInPlan
<1> QED  BY <1>2, <1>3, <1>4, <1>5

\* Where nothing starts, nothing goes on.
LEMMA NothingSpanned ==
  ASSUME NEW p, NEW j \in Nat, NEW x \in Nat, j < x,
         p.copies[j] = 0, p.fusion[j].span = 0, p.packed[j].span = 0
  PROVE  ~Spanned(p, j, x) /\ ~(x < j + p.packed[j].span)
BY DEF Spanned

\* Behind an instruction that starts no shortcut.
LEMMA NextHasCode ==
  ASSUME NEW P, WellFormed(P), NEW avx \in BOOLEAN, NEW p, p = Plan(P, avx),
         NEW k, HasCode(P, p, k), Op(P, k) # "RET",
         p.copies[k] = 0, p.fusion[k].span = 0, p.packed[k].width = 0
  PROVE  HasCode(P, p, k + 1)
<1>1. Len(P.code) \in Nat /\ k \in Positions(P) /\ k \in Nat
  BY DEF WellFormed, HasCode, Positions
<1>2. k + 1 \in Positions(P)
  BY <1>1, NotTheLast
<1>3. PICK g : g = p.packed[k]
  OBVIOUS
<1>4. g.span = 0
  BY <1>1, <1>3, PackedInPlan
<1>5. \A j \in k..k + 1 - 1 : ~Spanned(p, j, k + 1) /\ ~(k + 1 < j + p.packed[j].span)
  <2>1. ~Spanned(p, k, k + 1) /\ ~(k + 1 < k + p.packed[k].span)
    BY <1>1, <1>3, <1>4, NothingSpanned
  <2>2. \A j \in k..k + 1 - 1 : j = k
    BY <1>1
  <2> QED  BY <2>1, <2>2
<1> QED  BY <1>1, <1>2, <1>5, CodeGoesOn

\* Behind an operation that is never in front of a shortcut.
LEMMA NextHasCodeToo ==
  ASSUME NEW P, WellFormed(P), NEW avx \in BOOLEAN, NEW p, p = Plan(P, avx),
         NEW k, HasCode(P, p, k), Op(P, k) \notin ShortcutOps \union {"RET"}
  PROVE  HasCode(P, p, k + 1)
<1>1. Len(P.code) \in Nat /\ k \in Positions(P)
  BY DEF WellFormed, HasCode
<1>2. p.copies[k] = 0 /\ p.fusion[k].span = 0 /\ p.packed[k].width = 0
  BY <1>1, ShortcutsStart DEF ShortcutOps
<1> QED  BY <1>2, NextHasCode

\* Behind a handle that was copied.
LEMMA CopiedHasCode ==
  ASSUME NEW P, WellFormed(P), NEW avx \in BOOLEAN, NEW p, p = Plan(P, avx),
         NEW k, HasCode(P, p, k), p.copies[k] > 0
  PROVE  HasCode(P, p, k + p.copies[k])
<1>1. Len(P.code) \in Nat /\ k \in Positions(P) /\ k \in Nat
  BY DEF WellFormed, HasCode, Positions
<1>2. PICK n : n = p.copies[k]
  OBVIOUS
<1>3. /\ n \in {3, 4} /\ Op(P, k) = "PshVPtr" /\ k + n - 1 <= Len(P.code)
      /\ \A x \in k + 1..k + n - 1 : Op(P, x) \in CopiedOps
  BY <1>1, <1>2, CopySpanFits, PlanFields
<1>4. k + n - 1 \in k + 1..k + n - 1 /\ k + n - 1 \in Positions(P)
  BY <1>1, <1>3 DEF Positions
<1>5. k + n \in Positions(P)
  <2>1. Op(P, k + n - 1) # "RET"
    BY <1>3, <1>4 DEF CopiedOps
  <2>2. k + n - 1 + 1 \in Positions(P)
    BY <1>4, <2>1, NotTheLast
  <2> QED  BY <1>1, <1>3, <2>2
<1>6. ASSUME NEW j \in k..k + n - 1
      PROVE  ~Spanned(p, j, k + n) /\ ~(k + n < j + p.packed[j].span)
  <2>1. j \in Positions(P) /\ j \in Nat
    BY <1>1, <1>3 DEF Positions
  <2>2. p.fusion[j].span = 0 /\ p.packed[j].span = 0
    <3>1. Op(P, j) \in CopiedOps \union {"PshVPtr"}
      BY <1>1, <1>3, <2>1
    <3>2. Op(P, j) \notin ComparedOps \union PackedOps
      BY <3>1 DEF CopiedOps, ComparedOps, PackedOps
    <3> QED  BY <1>1, <2>1, <3>2, ShortcutsStart
  <2>3. CASE j = k
    BY <1>1, <1>2, <1>3, <2>2, <2>3 DEF Spanned
  <2>4. CASE j # k
    <3>1. p.copies[j] = 0
      BY <1>1, <1>3, <2>1, <2>4, ShortcutsStart DEF CopiedOps
    <3> QED  BY <1>1, <1>3, <2>1, <2>2, <3>1, NothingSpanned
  <2> QED  BY <2>3, <2>4
<1>7. HasCode(P, p, k + n)
  <2>1. n \in Nat \ {0}
    BY <1>3
  <2> QED  BY <1>1, <1>5, <1>6, <2>1, CodeGoesOn
<1> QED  BY <1>2, <1>7

\* Behind a comparison and its branch.
LEMMA FusedHasCode ==
  ASSUME NEW P, WellFormed(P), NEW avx \in BOOLEAN, NEW p, p = Plan(P, avx),
         NEW k, HasCode(P, p, k), p.fusion[k].span > 0
  PROVE  /\ k + p.fusion[k].span \in Positions(P)
         /\ IsBranch(Op(P, k + p.fusion[k].span))
         /\ HasCode(P, p, k + p.fusion[k].span + 1)
<1>1. Len(P.code) \in Nat /\ k \in Positions(P) /\ k \in Nat
  BY DEF WellFormed, HasCode, Positions
<1>2. PICK n : n = p.fusion[k].span
  OBVIOUS
<1>3. /\ n \in {1, 2} /\ Op(P, k) \in ComparedOps /\ k + n <= Len(P.code)
      /\ IsConditionalBranch(Op(P, k + n))
      /\ n = 2 => Op(P, k + 1) \in {"TZ", "TNZ"}
  BY <1>1, <1>2, FusionSpanFits, PlanFields
<1>4. \A j \in k..k + n : j = k \/ Op(P, j) \in {"TZ", "TNZ"} \/ j = k + n
  BY <1>1, <1>3
<1>5. k + n \in Positions(P) /\ k + n + 1 \in Positions(P)
  <2>1. k + n \in Positions(P)
    BY <1>1, <1>3 DEF Positions
  <2>2. Op(P, k + n) # "RET"
    BY <1>3 DEF IsConditionalBranch
  <2> QED  BY <2>1, <2>2, NotTheLast
<1>6. ASSUME NEW j \in k..k + (n + 1) - 1
      PROVE  ~Spanned(p, j, k + (n + 1)) /\ ~(k + (n + 1) < j + p.packed[j].span)
  <2>1. j \in Positions(P) /\ j \in Nat /\ j \in k..k + n
    BY <1>1, <1>3 DEF Positions
  <2>2. Op(P, j) \notin PackedOps \union {"PshVPtr"}
    BY <1>3, <1>4, <2>1 DEF ComparedOps, PackedOps, IsConditionalBranch
  <2>3. p.copies[j] = 0 /\ p.packed[j].span = 0
    BY <1>1, <2>1, <2>2, ShortcutsStart
  <2>4. CASE j = k
    <3>1. ~Spanned(p, k, k + (n + 1))
      <4>1. p.copies[k] = 0 /\ p.fusion[k].span = n
        BY <1>2, <2>3, <2>4
      <4>2. k + (n + 1) \notin k + 1..k + 0 - 1 /\ k + (n + 1) \notin k + 1..k + n
        BY <1>1, <1>3
      <4> QED  BY <4>1, <4>2 DEF Spanned
    <3>2. ~(k + (n + 1) < k + p.packed[k].span)
      BY <1>1, <1>3, <2>3, <2>4
    <3> QED  BY <2>4, <3>1, <3>2
  <2>5. CASE j # k
    <3>1. Op(P, j) \notin ComparedOps
      BY <1>3, <1>4, <2>1, <2>5 DEF ComparedOps, IsConditionalBranch
    <3>2. p.fusion[j].span = 0
      BY <1>1, <2>1, <3>1, ShortcutsStart
    <3> QED  BY <1>1, <1>3, <2>1, <2>3, <3>2, NothingSpanned
  <2> QED  BY <2>4, <2>5
<1>7. HasCode(P, p, k + (n + 1))
  <2>1. n + 1 \in Nat \ {0} /\ k + (n + 1) = k + n + 1
    BY <1>1, <1>3
  <2>2. k + (n + 1) \in Positions(P)
    BY <1>5, <2>1
  <2> QED  BY <1>1, <1>6, <2>1, <2>2, CodeGoesOn
<1>8. k + (n + 1) = k + n + 1
  BY <1>1, <1>3
<1> QED  BY <1>2, <1>3, <1>5, <1>7, <1>8 DEF IsBranch

\* Behind floats computed together.
LEMMA PackedHasCode ==
  ASSUME NEW P, WellFormed(P), NEW avx \in BOOLEAN, NEW p, p = Plan(P, avx),
         NEW k, HasCode(P, p, k), p.packed[k].width > 0
  PROVE  HasCode(P, p, k + p.packed[k].span)
<1>1. Len(P.code) \in Nat /\ k \in Positions(P) /\ k \in Nat
  BY DEF WellFormed, HasCode, Positions
<1>2. PICK g : g = p.packed[k]
  OBVIOUS
<1>3. /\ Op(P, k) \in PackedOps
      /\ g.span \in Nat /\ g.span >= 2 /\ k + g.span - 1 <= Len(P.code)
      /\ Op(P, k + g.span - 1) = Op(P, k)
      /\ \A x \in k + 1..k + g.span - 1 : Op(P, x) = "JitEntry" \/ Op(P, x) = Op(P, k)
  <2>1. g.width # 0
    BY <1>2
  <2> QED  BY <1>1, <1>2, <2>1, PackedInPlan
<1>4. PICK n \in Nat : n = g.span
  BY <1>3
<1>5. k + n \in Positions(P)
  <2>1. k + n - 1 \in Positions(P) /\ Op(P, k + n - 1) # "RET"
    BY <1>1, <1>3, <1>4 DEF Positions, PackedOps
  <2>2. k + n - 1 + 1 \in Positions(P)
    BY <2>1, NotTheLast
  <2> QED  BY <1>1, <2>2
<1>6. ASSUME NEW j \in k..k + n - 1
      PROVE  ~Spanned(p, j, k + n) /\ ~(k + n < j + p.packed[j].span)
  <2>1. j \in Positions(P) /\ j \in Nat
    BY <1>1, <1>3, <1>4 DEF Positions
  <2>2. j = k \/ j \in k + 1..k + g.span - 1
    BY <1>1, <1>4
  <2>3. Op(P, j) \notin ComparedOps \union {"PshVPtr"}
    <3>1. Op(P, j) \in PackedOps \union {"JitEntry"}
      BY <1>3, <2>2
    <3> QED  BY <3>1 DEF PackedOps, ComparedOps
  <2>4. p.copies[j] = 0 /\ p.fusion[j].span = 0
    BY <1>1, <2>1, <2>3, ShortcutsStart
  <2>5. ~Spanned(p, j, k + n)
    BY <1>1, <2>1, <2>4 DEF Spanned
  <2>6. CASE j = k
    BY <1>1, <1>2, <1>4, <2>5, <2>6
  <2>7. CASE j # k
    <3>1. k < j /\ j < k + p.packed[k].span
      BY <1>1, <1>2, <1>4, <2>1, <2>7
    <3>2. PICK h : h = p.packed[j]
      OBVIOUS
    <3>3. h.span = 0
      BY <1>1, <2>1, <3>1, <3>2, PackedInPlan
    <3> QED  BY <1>1, <2>1, <2>5, <3>2, <3>3
  <2> QED  BY <2>6, <2>7
<1>7. n \in Nat \ {0}
  BY <1>3, <1>4
<1>8. HasCode(P, p, k + n)
  BY <1>1, <1>5, <1>6, <1>7, CodeGoesOn
<1> QED  BY <1>2, <1>4, <1>8

-----------------------------------------------------------------------------
(* Forwards.                                                               *)

\* The value register goes from k to j past instructions that are not jumped to,
\* not part of a shortcut, and leave it alone.
LEMMA ForwardFits ==
  ASSUME NEW P, NEW k, NEW j, j = ValueRegisterForward(P, k), j # 0
  PROVE  /\ StartsValueRegisterForward(Op(P, k)) /\ j \in k + 1..Len(P.code)
         /\ ~ForwardBlocked(P, j) /\ ReadsValueRegister32(Op(P, j))
         /\ \A x \in k + 1..j - 1 : /\ ~ForwardBlocked(P, x)
                                   /\ ~ReadsValueRegister32(Op(P, x))
                                   /\ ~WritesValueRegister(Op(P, x))
                                   /\ PreservesValueRegister(Op(P, x))
<1> DEFINE Reads(y) == ~ForwardBlocked(P, y) /\ ReadsValueRegister32(Op(P, y))
           Passes(y) == /\ ~ForwardBlocked(P, y)
                        /\ ~ReadsValueRegister32(Op(P, y))
                        /\ ~WritesValueRegister(Op(P, y))
                        /\ PreservesValueRegister(Op(P, y))
           ends == {y \in k + 1..Len(P.code) :
                      Reads(y) /\ \A x \in k + 1..y - 1 : Passes(x)}
<1>1. j = IF InlineFieldMemory(P) /\ StartsValueRegisterForward(Op(P, k)) /\ ends # {}
          THEN CHOOSE y \in ends : TRUE ELSE 0
  BY DEF ValueRegisterForward
<1>2. StartsValueRegisterForward(Op(P, k)) /\ j \in ends
  <2> HIDE DEF ends
  <2> QED  BY <1>1
<1> QED  BY <1>2

\* Where a forwarded value register may be.
Carried(P, p, k) == \E f \in Positions(P) : f < k /\ k <= p.forward[f]

\* Between the start of a forward and its reader nothing blocks it and
\* everything passes the value register on; the reader reads its low word.
LEMMA CarriedMeans ==
  ASSUME NEW P, NEW avx \in BOOLEAN, NEW p, p = Plan(P, avx), NEW f \in Positions(P),
         NEW k \in Nat, f < k, k <= p.forward[f]
  PROVE  /\ p.forward[f] \in Positions(P) /\ k \in Positions(P)
         /\ \A x \in f + 1..p.forward[f] :
              /\ ~ForwardBlocked(P, x)
              /\ x = p.forward[f] => ReadsValueRegister32(Op(P, x))
              /\ x # p.forward[f] => /\ PreservesValueRegister(Op(P, x))
                                     /\ ~ReadsValueRegister32(Op(P, x))
                                     /\ ~WritesValueRegister(Op(P, x))
<1>1. f \in Nat
  BY DEF Positions
<1>2. PICK j : j = p.forward[f] /\ j = ValueRegisterForward(P, f)
  BY PlanFields
<1>3. j # 0
  BY <1>1, <1>2
<1>4. /\ j \in f + 1..Len(P.code)
      /\ ~ForwardBlocked(P, j) /\ ReadsValueRegister32(Op(P, j))
      /\ \A x \in f + 1..j - 1 : /\ ~ForwardBlocked(P, x)
                                /\ ~ReadsValueRegister32(Op(P, x))
                                /\ ~WritesValueRegister(Op(P, x))
                                /\ PreservesValueRegister(Op(P, x))
  BY <1>2, <1>3, ForwardFits
<1>5. \A x \in f + 1..j : x = j \/ x \in f + 1..j - 1
  BY <1>1, <1>4
<1> QED  BY <1>1, <1>2, <1>4, <1>5 DEF Positions

\* Where a forwarded value register is, nothing else can come or go.
LEMMA CarriedIsStraight ==
  ASSUME NEW P, WellFormed(P), NEW avx \in BOOLEAN, NEW p, p = Plan(P, avx),
         NEW k \in Nat, Carried(P, p, k)
  PROVE  /\ k \in Positions(P) /\ k \notin NeedsLabel(P)
         /\ Op(P, k) \notin ControlOps /\ ~IsBranch(Op(P, k))
         /\ p.copies[k] = 0 /\ p.fusion[k].span = 0 /\ p.forward[k] = 0
<1>1. PICK f \in Positions(P) : f < k /\ k <= p.forward[f]
  BY DEF Carried
<1>2. f \in Nat /\ Len(P.code) \in Nat
  BY DEF Positions, WellFormed
<1>3. PICK j \in Positions(P) : j = p.forward[f]
  BY <1>1, CarriedMeans
<1>4. \A x \in f + 1..j :
        /\ ~ForwardBlocked(P, x)
        /\ x = j => ReadsValueRegister32(Op(P, x))
        /\ x # j => /\ PreservesValueRegister(Op(P, x))
                   /\ ~ReadsValueRegister32(Op(P, x))
                   /\ ~WritesValueRegister(Op(P, x))
  BY <1>1, <1>3, CarriedMeans
<1>5. k \in Positions(P) /\ k \in f + 1..j /\ j \in Nat
  BY <1>1, <1>2, <1>3 DEF Positions
<1>6. k \notin NeedsLabel(P)
  BY <1>4, <1>5 DEF ForwardBlocked
<1>7. Op(P, k) # "JitEntry"
  BY <1>5, <1>6 DEF NeedsLabel
<1>8. ReadsValueRegister32(Op(P, k)) \/ PreservesValueRegister(Op(P, k))
  BY <1>4, <1>5
<1>9. PICK op : op = Op(P, k)
  OBVIOUS
<1>10. op \notin ControlOps /\ ~IsBranch(op)
  BY <1>7, <1>8, <1>9 DEF ReadsValueRegister32, PreservesValueRegister, ControlOps,
                          CallOps, IsBranch, IsConditionalBranch
<1>11. op \notin ComparedOps /\ ~StartsValueRegisterForward(op)
  BY <1>8, <1>9 DEF ReadsValueRegister32, PreservesValueRegister, ComparedOps,
                    StartsValueRegisterForward
<1>12. p.fusion[k].span = 0
  BY <1>2, <1>5, <1>9, <1>11, ShortcutsStart
<1>13. p.forward[k] = 0
  <2>1. p.forward[k] = ValueRegisterForward(P, k)
    BY <1>5, PlanFields
  <2> QED  BY <1>9, <1>11, <2>1, ForwardFits
<1>14. p.copies[k] = 0
  <2>1. SUFFICES ASSUME p.copies[k] # 0 PROVE FALSE
    OBVIOUS
  <2>2. p.copies[k] \in {3, 4} /\ op = "PshVPtr"
    <3>1. p.copies[k] = RefCopyFusionSpan(P, k)
      BY <1>5, PlanFields
    <3> QED  BY <1>2, <1>5, <1>9, <2>1, <3>1, CopySpanFits
  <2>3. ~ReadsValueRegister32(op)
    BY <2>2 DEF ReadsValueRegister32
  <2>4. k # j
    BY <1>4, <1>5, <1>9, <2>3
  <2>5. k + 1 \in f + 1..j
    BY <1>2, <1>5, <2>4
  <2>6. k + 1 \in RefCopyFusionSkip(P)
    <3>1. k + 1 \in k + 1..k + p.copies[k] - 1
      BY <2>2
    <3>2. p.copies[k] = RefCopyFusionSpan(P, k)
      BY <1>5, PlanFields
    <3> QED  BY <1>5, <3>1, <3>2 DEF RefCopyFusionSkip
  <2> QED  BY <1>4, <2>5, <2>6 DEF ForwardBlocked
<1> QED  BY <1>5, <1>6, <1>9, <1>10, <1>12, <1>13, <1>14

\* Floats computed together on the way of a forwarded value register end before
\* the instruction that takes it.
LEMMA PackedCarries ==
  ASSUME NEW P, WellFormed(P), NEW avx \in BOOLEAN, NEW p, p = Plan(P, avx),
         NEW k \in Nat, Carried(P, p, k), p.packed[k].width > 0
  PROVE  Carried(P, p, k + p.packed[k].span)
<1>1. PICK f \in Positions(P) : f < k /\ k <= p.forward[f]
  BY DEF Carried
<1>2. f \in Nat /\ Len(P.code) \in Nat
  BY DEF Positions, WellFormed
<1>3. PICK j \in Positions(P) : j = p.forward[f]
  BY <1>1, CarriedMeans
<1>4. \A x \in f + 1..j : ~ForwardBlocked(P, x)
  BY <1>1, <1>3, CarriedMeans
<1>5. k \in Positions(P) /\ j \in Nat
  BY <1>2, <1>3, CarriedIsStraight DEF Positions
<1>6. ReadsValueRegister32(Op(P, j))
  <2>1. j \in f + 1..j
    BY <1>1, <1>2, <1>3, <1>5
  <2> QED  BY <1>1, <1>3, <2>1, CarriedMeans
<1>7. PICK g : g = p.packed[k]
  OBVIOUS
<1>8. /\ Op(P, k) \in PackedOps
      /\ g.span \in Nat /\ g.span >= 2
      /\ \A x \in k + 1..k + g.span - 1 : Op(P, x) = "JitEntry" \/ Op(P, x) = Op(P, k)
  <2>1. g.width # 0
    BY <1>7
  <2> QED  BY <1>2, <1>5, <1>7, <2>1, PackedInPlan
<1>9. ~ReadsValueRegister32(Op(P, k))
  BY <1>8 DEF PackedOps, ReadsValueRegister32
<1>10. Op(P, j) # "JitEntry"
  BY <1>6 DEF ReadsValueRegister32
<1>11. j \notin k + 1..k + g.span - 1 /\ j # k
  BY <1>6, <1>8, <1>9, <1>10
<1>12. f < k + g.span /\ k + g.span <= j
  BY <1>1, <1>2, <1>3, <1>5, <1>8, <1>11
<1> QED  BY <1>3, <1>7, <1>12 DEF Carried

-----------------------------------------------------------------------------
(* The invariant.                                                          *)

PlanIsMade ==
  program \in Programs /\ \E avx \in BOOLEAN : plan = Plan(program, avx)

\* Native code is at an instruction that has code; a forwarded value register is
\* on its way.
ControlInv ==
  /\ PlanIsMade
  /\ mode = "native" => HasCode(program, plan, pc)
  /\ shadow.active => /\ mode \in {"native", "apart"} /\ pc \in Nat
                      /\ Carried(program, plan, pc)

\* The control invariant is stronger than both properties the run checks.
LEMMA ControlInvImplies == ControlInv => CodeExists /\ ForwardIsTaken
<1> SUFFICES ASSUME ControlInv PROVE CodeExists /\ ForwardIsTaken
  OBVIOUS
<1>1. CodeExists
  BY DEF ControlInv, CodeExists, HasCode
<1>2. ForwardIsTaken
  <2>1. SUFFICES ASSUME shadow.active
                 PROVE  /\ mode \in {"native", "apart"} /\ pc \notin NeedsLabel(program)
                        /\ Here.op \notin ControlOps /\ ~IsBranch(Here.op)
                        /\ plan.copies[pc] = 0 /\ plan.fusion[pc].span = 0
                        /\ plan.forward[pc] = 0
    BY DEF ForwardIsTaken
  <2>2. PICK avx \in BOOLEAN : plan = Plan(program, avx)
    BY DEF ControlInv, PlanIsMade
  <2>3. WellFormed(program)
    BY ProgramsAssumption DEF ControlInv, PlanIsMade
  <2>4. mode \in {"native", "apart"} /\ pc \in Nat /\ Carried(program, plan, pc)
    BY <2>1 DEF ControlInv
  <2>5. Here.op = Op(program, pc)
    BY DEF Here, Op
  <2> QED  BY <2>2, <2>3, <2>4, <2>5, CarriedIsStraight
<1> QED  BY <1>1, <1>2

\* A function starts in the interpreter, where the control invariant asks for
\* nothing but the plan.
LEMMA ControlInvInit == Init => ControlInv
BY DEF Init, ControlInv, PlanIsMade, NoShadow

-----------------------------------------------------------------------------
(* Steps. Each goes on where there is code or leaves native code, and      *)
(* keeps a forwarded value register only on its way.                       *)

Goes ==
  /\ from'.to = "native" => HasCode(program, plan, pc')
  /\ shadow'.active => /\ from'.to = "native" /\ pc' \in Nat
                       /\ Carried(program, plan, pc')

\* What is known wherever native code is.
LEMMA Setting ==
  ASSUME ControlInv, mode = "native"
  PROVE  /\ WellFormed(program) /\ \E avx \in BOOLEAN : plan = Plan(program, avx)
         /\ HasCode(program, plan, pc) /\ pc \in Positions(program) /\ pc \in Nat
         /\ Here.op = Op(program, pc) /\ Len(program.code) \in Nat
<1>1. WellFormed(program)
  BY ProgramsAssumption DEF ControlInv, PlanIsMade
<1> QED  BY <1>1 DEF ControlInv, PlanIsMade, HasCode, Here, Op, WellFormed, Positions

\* Branches lead to labels.
LEMMA BranchTarget ==
  ASSUME NEW P, WellFormed(P), NEW k \in Positions(P), IsBranch(Op(P, k))
  PROVE  P.code[k].to \in Positions(P) /\ P.code[k].to \in NeedsLabel(P)
BY DEF WellFormed, NeedsLabel

\* Catch blocks begin at labels.
LEMMA CatchTarget ==
  ASSUME NEW P, WellFormed(P), NEW k \in Positions(P), CatchTry(P, k) # 0
  PROVE  LET catch == P.tries[CatchTry(P, k)].catch
         IN  catch \in Positions(P) /\ catch \in NeedsLabel(P)
<1> DEFINE around == {t \in DOMAIN P.tries : Covers(P.tries[t], k)}
           t == CatchTry(P, k)
<1>1. t = IF around = {} THEN 0 ELSE CHOOSE u \in around : \A v \in around : v <= u
  BY Zenon DEF CatchTry
<1>2. around # {} /\ around \in SUBSET (1..Len(P.tries)) /\ Len(P.tries) \in Nat
  BY <1>1 DEF WellFormed
<1>3. t \in around
  <2>1. \E u \in around : \A v \in around : v <= u
    <3> HIDE DEF around
    <3> QED  BY <1>2, GreatestExists
  <2> HIDE DEF around
  <2> QED  BY <1>1, <1>2, <2>1
<1>4. P.tries[t].catch \in Positions(P)
  BY <1>3 DEF WellFormed
<1>5. LocalCatchTarget(P, k) = P.tries[t].catch
  BY DEF LocalCatchTarget
<1>6. P.tries[t].catch # 0
  BY <1>4 DEF Positions
<1> QED  BY <1>4, <1>5, <1>6 DEF NeedsLabel

\* Native code may go to any label.
LEMMA LabelIsFine ==
  ASSUME ControlInv, mode = "native", NEW k \in Positions(program),
         k \in NeedsLabel(program)
  PROVE  HasCode(program, plan, k)
BY Setting, LabelHasCode

\* Behind an instruction that begins no shortcut and is no RET there is code.
LEMMA NextIsFine ==
  ASSUME ControlInv, mode = "native", Here.op \notin ShortcutOps \union {"RET"}
  PROVE  HasCode(program, plan, pc + 1) /\ pc + 1 \in Positions(program)
<1>1. HasCode(program, plan, pc + 1)
  BY Setting, NextHasCodeToo
<1> QED  BY <1>1 DEF HasCode

\* A step goes where the invariant allows if native code finds code there and
\* what it forwards is carried to there.
LEMMA AdvanceGoes ==
  ASSUME NEW to, NEW next, NEW m, NEW count, NEW kept, NEW event,
         Advance(to, next, m, count, kept, event),
         to = "native" => HasCode(program, plan, next),
         kept.active => to = "native" /\ next \in Nat /\ Carried(program, plan, next)
  PROVE  Goes
BY DEF Advance, Goes

\* The same of a step without a forward that stays in native code.
LEMMA GoOnGoes ==
  ASSUME NEW next, NEW m, NEW count, GoOn(next, m, count), HasCode(program, plan, next)
  PROVE  Goes
<1>1. Advance("native", next, m, count, NoShadow, NoEvent)
  BY Zenon DEF GoOn
<1>2. ~NoShadow.active
  BY DEF NoShadow
<1> QED  BY <1>1, <1>2, AdvanceGoes

\* A step out of native code is always allowed.
LEMMA LeaveGoes ==
  ASSUME NEW to, to # "native", NEW next, NEW m, NEW count, NEW event,
         Advance(to, next, m, count, NoShadow, event)
  PROVE  Goes
<1>1. ~NoShadow.active
  BY DEF NoShadow
<1> QED  BY <1>1, AdvanceGoes

\* An exception goes to a catch block, or leaves.
LEMMA RaiseGoes ==
  ASSUME ControlInv, mode = "native", NEW k \in Positions(program), NEW m, NEW event,
         Raise(k, m, event)
  PROVE  Goes
<1>1. PICK t : t = CatchTry(program, k)
  OBVIOUS
<1>2. PICK next : next = program.tries[t].catch
  OBVIOUS
<1>3. \/ \E x : Advance("done", 0, x, 1, NoShadow, event)
      \/ t # 0 /\ \E x : Advance("native", next, x, 1, NoShadow, event)
      \/ \E x : Advance("interpreter", next, x, 1, NoShadow, event)
  BY <1>1, <1>2, Zenon DEF Raise
<1>4. t # 0 => HasCode(program, plan, next)
  <2>1. SUFFICES ASSUME t # 0 PROVE HasCode(program, plan, next)
    OBVIOUS
  <2>2. next \in Positions(program) /\ next \in NeedsLabel(program)
    BY <1>1, <1>2, <2>1, CatchTarget, Setting
  <2> QED  BY <2>2, LabelIsFine
<1>5. ~NoShadow.active
  BY DEF NoShadow
<1>6. "done" # "native" /\ "interpreter" # "native"
  OBVIOUS
<1> QED  BY <1>3, <1>4, <1>5, <1>6, AdvanceGoes, LeaveGoes

\* The operations of each action are no shortcuts and not RET.
LEMMA PlainOps ==
  /\ {"JitEntry", "SUSPEND", "CALLSYS", "AllocApp", "JMPP"} \union CallOps
       \subseteq ControlOps \ (ShortcutOps \union {"RET"})
  /\ \A op : IsBranch(op) => op \notin ShortcutOps \union {"RET"}
<1>1. {"JitEntry", "SUSPEND", "CALLSYS", "AllocApp", "JMPP"} \union CallOps
        \subseteq ControlOps \ (ShortcutOps \union {"RET"})
  BY DEF CallOps, ControlOps, ShortcutOps, PackedOps, ComparedOps
<1>2. ASSUME NEW op, IsBranch(op) PROVE op \notin ShortcutOps \union {"RET"}
  BY <1>2 DEF IsBranch, IsConditionalBranch, ShortcutOps, PackedOps, ComparedOps
<1> QED  BY <1>1, <1>2

\* The variables that matter at each kind of instruction.
LEMMA VariablesAre ==
  ASSUME ControlInv, mode = "native"
  PROVE  /\ Here.op = "JMPP" => VariablesHere = {Here.a}
         /\ plan.fusion[pc].span > 0 =>
              VariablesHere = IF Here.op \in {"CMPIi", "CMPIu"} THEN {Here.a}
                              ELSE {Here.a, Here.b}
         /\ plan.copies[pc] > 0 => VariablesHere = {Here.a, At(pc + 1).a}
         /\ Here.op \in {"CALLSYS", "AllocApp"} =>
              VariablesHere = {v.at : v \in program.objects}
<1>1. /\ Here.op # "PshVPtr" => plan.copies[pc] = 0
      /\ Here.op \notin ComparedOps => plan.fusion[pc].span = 0
      /\ Here.op \notin PackedOps => plan.packed[pc].width = 0
  BY Setting, ShortcutsStart
<1>2. 0 > 0 <=> FALSE
  OBVIOUS
<1>3. /\ plan.fusion[pc].span > 0 => Here.op \in ComparedOps
      /\ plan.copies[pc] > 0 => Here.op = "PshVPtr"
  BY <1>1, <1>2
<1>4. Here.op \in ComparedOps \union {"PshVPtr", "JMPP", "CALLSYS", "AllocApp"} =>
        ~(plan.packed[pc].width > 0)
  BY <1>1, <1>2 DEF ComparedOps, PackedOps
<1>5. Here.op \notin {"PshVPtr"} => ~(plan.copies[pc] > 0)
  BY <1>3
<1>6. "JMPP" \notin ComparedOps /\ "CALLSYS" \notin ComparedOps /\ "AllocApp" \notin ComparedOps
      /\ "PshVPtr" \notin ComparedOps
  BY DEF ComparedOps
<1>7. Here.op = "JMPP" => VariablesHere = {Here.a}
  BY <1>3, <1>4, <1>5, <1>6 DEF VariablesHere
<1>8. plan.fusion[pc].span > 0 =>
        VariablesHere = IF Here.op \in {"CMPIi", "CMPIu"} THEN {Here.a} ELSE {Here.a, Here.b}
  BY <1>3, <1>4, <1>5, <1>6 DEF VariablesHere
<1>9. plan.copies[pc] > 0 => VariablesHere = {Here.a, At(pc + 1).a}
  BY <1>3, <1>4 DEF VariablesHere
<1>10. Here.op \in {"CALLSYS", "AllocApp"} =>
         VariablesHere = {v.at : v \in program.objects}
  BY <1>3, <1>4, <1>5, <1>6 DEF VariablesHere
<1> QED  BY <1>7, <1>8, <1>9, <1>10

\* Behind a packed group there is code, and a forward goes on over it.
LEMMA PackedFloatsGo == ASSUME ControlInv, RunPackedFloats PROVE Goes
<1>1. mode = "native" /\ plan.packed[pc].width > 0
  BY Zenon DEF RunPackedFloats
<1>2. PICK next : next = pc + plan.packed[pc].span
  OBVIOUS
<1>3. \E m, count : Advance("native", next, m, count, shadow, NoEvent)
  BY <1>2, Zenon DEF RunPackedFloats
<1>4. HasCode(program, plan, next)
  BY <1>1, <1>2, Setting, PackedHasCode
<1>5. shadow.active => next \in Nat /\ Carried(program, plan, next)
  <2>1. next \in Nat
    BY <1>4 DEF HasCode, Positions
  <2>2. shadow.active => Carried(program, plan, next)
    BY <1>1, <1>2, Setting, PackedCarries DEF ControlInv
  <2> QED  BY <2>1, <2>2
<1> QED  BY <1>3, <1>4, <1>5, AdvanceGoes

\* Behind a copied handle there is code.
LEMMA CopiedHandleGoes == ASSUME ControlInv, RunCopiedHandle PROVE Goes
<1>1. mode = "native" /\ plan.copies[pc] > 0
  BY Zenon DEF RunCopiedHandle, IsNative
<1>2. PICK next : next = pc + plan.copies[pc]
  OBVIOUS
<1>3. \E m, count : GoOn(next, m, count)
  BY <1>2, Zenon DEF RunCopiedHandle
<1>4. HasCode(program, plan, next)
  BY <1>1, <1>2, Setting, CopiedHasCode
<1> QED  BY <1>3, <1>4, GoOnGoes

\* Where a fused comparison branches to, and behind it, there is code.
LEMMA FusedComparisonGoes == ASSUME ControlInv, RunFusedComparison PROVE Goes
<1>1. mode = "native" /\ plan.fusion[pc].span > 0
  BY Zenon DEF RunFusedComparison
<1>2. PICK branch : branch = pc + plan.fusion[pc].span
  OBVIOUS
<1>3. PICK to : to = program.code[branch].to
  OBVIOUS
<1>4. \/ \E m, count : GoOn(to, m, count)
      \/ \E m, count : GoOn(branch + 1, m, count)
  BY <1>2, <1>3, Zenon DEF RunFusedComparison
<1>5. /\ branch \in Positions(program) /\ IsBranch(Op(program, branch))
      /\ HasCode(program, plan, branch + 1)
  BY <1>1, <1>2, Setting, FusedHasCode
<1>6. HasCode(program, plan, to)
  BY <1>1, <1>3, <1>5, BranchTarget, LabelIsFine, Setting
<1> QED  BY <1>4, <1>5, <1>6, GoOnGoes

\* Where a branch leads, and behind it, there is code.
LEMMA BranchGoes == ASSUME ControlInv, RunBranch PROVE Goes
<1>1. mode = "native" /\ IsBranch(Here.op)
  BY Zenon DEF RunBranch
<1>2. PICK to : to = Here.to
  OBVIOUS
<1>3. \/ GoOn(to, native, 1)
      \/ GoOn(pc + 1, native, 1)
  BY <1>2, Zenon DEF RunBranch
<1>4. HasCode(program, plan, to)
  <2>1. to = program.code[pc].to
    BY <1>2, Zenon DEF Here
  <2>2. to \in Positions(program) /\ to \in NeedsLabel(program)
    BY <1>1, <2>1, BranchTarget, Setting
  <2> QED  BY <1>1, <2>2, LabelIsFine
<1>5. HasCode(program, plan, pc + 1)
  BY <1>1, NextIsFine, PlainOps
<1> QED  BY <1>3, <1>4, <1>5, GoOnGoes

\* Where the compared jumps of a jump table lead there is code; the others
\* leave.
LEMMA JumpTableGoes == ASSUME ControlInv, RunJumpTable PROVE Goes
<1>1. mode = "native" /\ Here.op = "JMPP"
  BY Zenon DEF RunJumpTable, IsNative
<1>2. PICK selector : selector = LoadVar(native, Here.a)
  OBVIOUS
<1>3. PICK compared : compared = {n \in 0..Len(program.code) - pc - 1 :
                                    \A j \in 0..n : Op(program, pc + 1 + j) = "JMP"}
  OBVIOUS
<1>4. PICK to : to = program.code[pc + 1 + selector].to
  OBVIOUS
<1>5. \/ selector \in compared /\ GoOn(to, native, 2)
      \/ \E next, m : Advance("interpreter", next, m, 1, NoShadow, NoEvent)
  BY <1>2, <1>3, <1>4, Zenon DEF RunJumpTable
<1>6. CASE selector \in compared /\ GoOn(to, native, 2)
  <2>1. selector \in 0..Len(program.code) - pc - 1 /\ selector \in 0..selector
    BY <1>1, <1>3, <1>6, Setting
  <2>2. Op(program, pc + 1 + selector) = "JMP"
    BY <1>3, <1>6, <2>1
  <2>3. pc + 1 + selector \in Positions(program)
    BY <1>1, <2>1, Setting DEF Positions
  <2>4. IsBranch(Op(program, pc + 1 + selector))
    BY <2>2 DEF IsBranch
  <2>5. to \in Positions(program) /\ to \in NeedsLabel(program)
    BY <1>1, <1>4, <2>3, <2>4, BranchTarget, Setting
  <2> QED  BY <1>1, <1>6, <2>5, LabelIsFine, GoOnGoes
<1>7. "interpreter" # "native"
  OBVIOUS
<1> QED  BY <1>5, <1>6, <1>7, LeaveGoes

\* Behind an entry there is code.
LEMMA JitEntryGoes == ASSUME ControlInv, RunJitEntry PROVE Goes
<1>1. mode = "native" /\ Here.op = "JitEntry" /\ GoOn(pc + 1, native, 1)
  BY Zenon DEF RunJitEntry, IsNative
<1>2. HasCode(program, plan, pc + 1)
  BY <1>1, NextIsFine, PlainOps
<1> QED  BY <1>1, <1>2, GoOnGoes

\* Behind a suspension there is code.
LEMMA SuspendGoes == ASSUME ControlInv, RunSuspend PROVE Goes
<1>1. /\ mode = "native" /\ Here.op = "SUSPEND"
      /\ \/ GoOn(pc + 1, native, 1)
         \/ \E m : Advance("interpreter", pc + 1, m, 1, NoShadow, NoEvent)
  BY Zenon DEF RunSuspend, IsNative
<1>2. HasCode(program, plan, pc + 1) /\ "interpreter" # "native"
  BY <1>1, NextIsFine, PlainOps
<1> QED  BY <1>1, <1>2, GoOnGoes, LeaveGoes

\* A return ends the function.
LEMMA ReturnGoes == ASSUME RunReturn PROVE Goes
<1>1. \E m : Advance("done", 0, m, 1, NoShadow, NoEvent)
  BY Zenon DEF RunReturn
<1>2. "done" # "native"
  OBVIOUS
<1> QED  BY <1>1, <1>2, LeaveGoes

\* Behind a system call, and where its exception is caught, there is code.
LEMMA SystemCallGoes == ASSUME ControlInv, RunSystemCall PROVE Goes
<1>1. /\ mode = "native" /\ Here.op = "CALLSYS"
      /\ \/ \E m, event : Raise(pc, m, event)
         \/ \E m : GoOn(pc + 1, m, 1)
  BY Zenon DEF RunSystemCall, IsNative
<1>2. HasCode(program, plan, pc + 1) /\ pc \in Positions(program)
  BY <1>1, NextIsFine, PlainOps, Setting
<1> QED  BY <1>1, <1>2, RaiseGoes, GoOnGoes

\* Behind an allocation, and where its exception is caught, there is code.
LEMMA AllocGoes == ASSUME ControlInv, RunAllocForApplication PROVE Goes
<1>1. mode = "native" /\ Here.op = "AllocApp"
  BY Zenon DEF RunAllocForApplication, IsNative
<1>2. \/ \E m, event : Raise(pc + 1, m, event)
      \/ \E m, event : LeavesAfterAlloc(m, event)
      \/ \E m : GoOn(pc + 1, m, 1)
  <2>1. PICK kind \in Events(Here) :
          LET m == ReloadCachedLocals(
                     AllocateForApplication(Here, FlushCachedLocals(native), kind))
              event == [NoEvent EXCEPT !.kind = kind]
          IN  CASE kind = "raises" -> Raise(pc + 1, [m EXCEPT !.local = FALSE], event)
                [] kind = "request" -> LeavesAfterAlloc(m, event)
                [] kind = "none" -> GoOn(pc + 1, m, 1)
    BY Zenon DEF RunAllocForApplication
  <2>2. kind \in {"none", "request", "raises"}
    BY <1>1 DEF Events, CallOps
  <2> QED  BY <2>1, <2>2
<1>3. HasCode(program, plan, pc + 1) /\ pc + 1 \in Positions(program)
  BY <1>1, NextIsFine, PlainOps
<1>4. ASSUME NEW m, NEW event, LeavesAfterAlloc(m, event) PROVE Goes
  <2>1. \E next, x : Advance("interpreter", next, x, 1, NoShadow, event)
    BY <1>4, Zenon DEF LeavesAfterAlloc
  <2>2. "interpreter" # "native"
    OBVIOUS
  <2> QED  BY <2>1, <2>2, LeaveGoes
<1> QED  BY <1>1, <1>2, <1>3, <1>4, RaiseGoes, GoOnGoes

\* Behind a call, and where its exception is caught, there is code.
LEMMA CallGoes == ASSUME ControlInv, RunCall PROVE Goes
<1>1. mode = "native" /\ Here.op \in CallOps
  BY Zenon DEF RunCall, IsNative
<1>2. \E m, left, event : AfterCall(m, left, event)
  BY Zenon DEF RunCall, FinishCall
<1>3. \/ \E m, event : Raise(pc + 1, m, event)
      \/ \E m, event : Advance("interpreter", pc + 1, m, 1, NoShadow, event)
      \/ \E m, event : Advance("native", pc + 1, m, 1, NoShadow, event)
  BY <1>2, Zenon DEF AfterCall
<1>4. HasCode(program, plan, pc + 1) /\ pc + 1 \in Positions(program)
  BY <1>1, NextIsFine, PlainOps
<1>5. "interpreter" # "native" /\ ~NoShadow.active
  BY DEF NoShadow
<1> QED  BY <1>1, <1>3, <1>4, <1>5, RaiseGoes, LeaveGoes, AdvanceGoes

\* Behind any other instruction there is code, and a forward it starts, takes or
\* keeps is as planned.
LEMMA InstructionGoes == ASSUME ControlInv, RunInstruction PROVE Goes
<1>1. /\ mode = "native" /\ Here.op # "RET"
      /\ plan.packed[pc].width = 0 /\ plan.fusion[pc].span = 0 /\ plan.copies[pc] = 0
  BY DEF RunInstruction, ControlOps
<1>2. PICK takes : takes = (shadow.active /\ \E k \in Positions(program) : plan.forward[k] = pc)
  OBVIOUS
<1>3. \E m : AfterInstruction(m, takes)
  BY <1>2, Zenon DEF RunInstruction
<1>4. \/ \E m : Raise(pc, m, NoEvent)
      \/ plan.forward[pc] > 0 /\ \E m, x :
           Advance("native", pc + 1, m, 1, [active |-> TRUE, value |-> x], NoEvent)
      \/ \E m : Advance("native", pc + 1, m, 1, NoShadow, NoEvent)
      \/ ~takes /\ \E m : Advance("native", pc + 1, m, 1, shadow, NoEvent)
  BY <1>3, Zenon DEF AfterInstruction
<1>5. HasCode(program, plan, pc + 1) /\ pc \in Positions(program) /\ pc + 1 \in Nat
  BY <1>1, NextHasCode, Setting
<1>6. plan.forward[pc] > 0 => Carried(program, plan, pc + 1)
  <2>1. SUFFICES ASSUME plan.forward[pc] > 0 PROVE Carried(program, plan, pc + 1)
    OBVIOUS
  <2>2. PICK j : j = plan.forward[pc]
    OBVIOUS
  <2>3. j = ValueRegisterForward(program, pc)
    BY <1>1, <2>2, PlanFields, Setting
  <2>4. j \in pc + 1..Len(program.code)
    BY <2>1, <2>2, <2>3, ForwardFits
  <2>5. pc < pc + 1 /\ pc + 1 <= j
    BY <1>1, <2>4, Setting
  <2> QED  BY <1>5, <2>2, <2>5 DEF Carried
<1>7. shadow.active /\ ~takes => Carried(program, plan, pc + 1)
  <2>1. SUFFICES ASSUME shadow.active, ~takes PROVE Carried(program, plan, pc + 1)
    OBVIOUS
  <2>2. PICK f \in Positions(program) : f < pc /\ pc <= plan.forward[f]
    BY <2>1 DEF ControlInv, Carried
  <2>3. plan.forward[f] \in Positions(program) /\ plan.forward[f] # pc
    BY <1>1, <1>2, <2>1, <2>2, CarriedMeans, Setting
  <2>4. f < pc + 1 /\ pc + 1 <= plan.forward[f]
    BY <1>1, <2>2, <2>3, Setting DEF Positions
  <2> QED  BY <2>4 DEF Carried
<1>8. ~NoShadow.active
  BY DEF NoShadow
<1>9. ASSUME NEW m, NEW x, plan.forward[pc] > 0,
             Advance("native", pc + 1, m, 1, [active |-> TRUE, value |-> x], NoEvent)
      PROVE  Goes
  BY <1>5, <1>6, <1>9, AdvanceGoes
<1>10. ASSUME NEW m, Raise(pc, m, NoEvent) PROVE Goes
  BY <1>1, <1>5, <1>10, RaiseGoes
<1>11. ASSUME NEW m, Advance("native", pc + 1, m, 1, NoShadow, NoEvent) PROVE Goes
  BY <1>5, <1>8, <1>11, AdvanceGoes
<1>12. ASSUME NEW m, ~takes, Advance("native", pc + 1, m, 1, shadow, NoEvent) PROVE Goes
  BY <1>5, <1>7, <1>12, AdvanceGoes
<1> QED  BY <1>4, <1>9, <1>10, <1>11, <1>12

\* What the interpreter does asks nothing of native code.
LEMMA InterpretHereGoes == ASSUME InterpretHere PROVE Goes
<1>1. \E next, m, event : Advance("interpreter", next, m, 1, NoShadow, event)
  BY Zenon DEF InterpretHere
<1>2. "interpreter" # "native"
  OBVIOUS
<1> QED  BY <1>1, <1>2, LeaveGoes

-----------------------------------------------------------------------------
(* The specification.                                                      *)

\* The interpreter's part of a step changes neither function nor plan, and at
\* most ends the run.
LEMMA FollowKeeps ==
  ASSUME Follow
  PROVE  /\ program' = program /\ plan' = plan
         /\ mode' = "apart" \/ (mode' = "done" /\ pc' = 0) \/ mode' = from'.to
<1>1. \E r : FollowTo(r)
  BY Zenon DEF Follow
<1> QED  BY <1>1 DEF FollowTo

\* A step that goes where it may keeps the control invariant.
LEMMA GoesKeepsInv ==
  ASSUME ControlInv, Goes, Follow
  PROVE  ControlInv'
<1>1. /\ program' = program /\ plan' = plan
      /\ mode' = "apart" \/ (mode' = "done" /\ pc' = 0) \/ mode' = from'.to
  BY FollowKeeps
<1>2. PlanIsMade'
  BY <1>1 DEF ControlInv, PlanIsMade
<1>3. mode' = "native" => HasCode(program, plan, pc')
  BY <1>1 DEF Goes
<1>4. shadow'.active => /\ mode' \in {"native", "apart"} /\ pc' \in Nat
                        /\ Carried(program, plan, pc')
  <2>1. SUFFICES ASSUME shadow'.active PROVE mode' \in {"native", "apart"}
    BY DEF Goes
  <2>2. from'.to = "native" /\ pc' \in Positions(program)
    BY <2>1 DEF Goes, HasCode
  <2>3. pc' # 0
    BY <2>2 DEF Positions
  <2> QED  BY <1>1, <2>2, <2>3
<1> QED  BY <1>1, <1>2, <1>3, <1>4 DEF ControlInv, HasCode, Carried

\* Every step keeps the control invariant.
LEMMA ControlInvNext == ControlInv /\ [Next]_codeVars => ControlInv'
<1> SUFFICES ASSUME ControlInv, [Next]_codeVars PROVE ControlInv'
  OBVIOUS
<1>1. CASE EnterNative
  <2>1. /\ mode = "interpreter" /\ pc \in Positions(program) /\ Here.op = "JitEntry"
        /\ mode' = "native" /\ pc' = pc
        /\ program' = program /\ plan' = plan /\ shadow' = shadow
    BY <1>1 DEF EnterNative
  <2>2. pc \in NeedsLabel(program)
    BY <2>1 DEF NeedsLabel, Here, Op
  <2>3. WellFormed(program)
    BY ProgramsAssumption DEF ControlInv, PlanIsMade
  <2>4. HasCode(program, plan, pc)
    BY <2>1, <2>2, <2>3, LabelHasCode DEF ControlInv, PlanIsMade, WellFormed
  <2>5. ~shadow.active
    BY <2>1 DEF ControlInv
  <2>6. PlanIsMade'
    BY <2>1 DEF ControlInv, PlanIsMade
  <2> QED  BY <2>1, <2>4, <2>5, <2>6 DEF ControlInv, HasCode
<1>2. CASE RunOrInterpret /\ Follow
  <2>1. Goes
    BY <1>2, PackedFloatsGo, CopiedHandleGoes, FusedComparisonGoes, BranchGoes,
       JumpTableGoes, JitEntryGoes, SuspendGoes, ReturnGoes, SystemCallGoes,
       AllocGoes, CallGoes, InstructionGoes, InterpretHereGoes, Zenon
       DEF RunOrInterpret
  <2> QED  BY <1>2, <2>1, GoesKeepsInv
<1>3. CASE UNCHANGED codeVars
  BY <1>3 DEF codeVars, ControlInv, PlanIsMade, HasCode, Carried
<1> QED  BY <1>1, <1>2, <1>3 DEF Next

\* The inductive invariant: the plan is the one AnalyzeBytecode makes of the
\* function, native code is where there is code, and a forwarded value register
\* is on its way to the instruction that takes it.
THEOREM ControlInvariant == Spec => []ControlInv
BY ControlInvInit, ControlInvNext, PTL DEF Spec

\* Native code never comes to an instruction that was taken into another one:
\* whatever the function is, EmitInstructions gives code to each position that a
\* step of native code leads to.
THEOREM CodeAlwaysExists == Spec => []CodeExists
BY ControlInvariant, ControlInvImplies, PTL

\* A forwarded value register is taken before control can come from or go to
\* anywhere else, whatever the function is (ValueRegisterForward and the
\* vrShadow_ of the emitter).
THEOREM ForwardAlwaysTaken == Spec => []ForwardIsTaken
BY ControlInvariant, ControlInvImplies, PTL
-----------------------------------------------------------------------------
(* A fused comparison, beside the instructions it stands for.              *)

\* The low byte of zero, one and minus one.
LEMMA LowBytes ==
  Low(0, ByteBits) = 0 /\ Low(1, ByteBits) # 0 /\ Low(MinusOne(WordBits), ByteBits) # 0
<1>1. PICK n \in Nat, e \in Nat : n = Bits(ByteBits) /\ e > 0 /\ Base = e * n /\ n > 0
  BY Sizes, BaseOfBits
<1>2. n >= 4
  BY <1>1, Sizes, BitsGrow, SmallBits
<1>3. MinusOne(WordBits) = Base - 1
  BY BaseFacts
<1>4. MinusOne(WordBits) \in Int /\ e - 1 \in Int
  BY <1>1, BaseFacts
<1>5. PICK w \in Int : w = MinusOne(WordBits) /\ w = n * (e - 1) + (n - 1)
  <2>1. n * (e - 1) + (n - 1) = e * n - 1
    BY <1>1
  <2> QED  BY <1>1, <1>3, <1>4, <2>1
<1>6. Low(w, ByteBits) = n - 1
  <2>1. PICK k \in Int, r \in 0..Bits(ByteBits) - 1 : k = e - 1 /\ r = n - 1
    BY <1>1, <1>2, <1>4
  <2>2. w = Bits(ByteBits) * k + r
    BY <1>1, <1>5, <2>1
  <2>3. ByteBits \in Nat
    BY Sizes
  <2>4. Low(w, ByteBits) = r
    BY <2>2, <2>3, LowOnce
  <2> QED  BY <2>1, <2>4
<1>7. Low(0, ByteBits) = 0 /\ Low(1, ByteBits) = 1
  <2>1. 0 \in 0..Bits(ByteBits) - 1 /\ 1 \in 0..Bits(ByteBits) - 1
    BY <1>1, <1>2
  <2> QED  BY <2>1, Sizes, LowKeeps
<1> QED  BY <1>2, <1>5, <1>6, <1>7

\* The result of a comparison as a word: its sign, and its low byte.
LEMMA OrderingWord ==
  ASSUME NEW p \in Int, NEW q \in Int
  PROVE  \E v \in Word : /\ v = Low(Ordering(p, q), WordBits)
                         /\ Signed(v, WordBits) \in Int
                         /\ Signed(v, WordBits) = 0 <=> p = q
                         /\ Signed(v, WordBits) < 0 <=> p < q
                         /\ Signed(v, WordBits) > 0 <=> p > q
                         /\ Low(v, ByteBits) = 0 <=> p = q
<1>1. PICK b \in Nat, t \in Nat : /\ b = 2 * t /\ b >= 256 /\ Word = 0..b - 1
                                  /\ Bits(WordBits - 1) = t /\ Bits(WordBits) = b
                                  /\ MinusOne(WordBits) = b - 1
  BY BaseFacts
<1>2. PICK v \in Word : /\ v = Ordering(p, q)
                        /\ v = (IF p = q THEN 0 ELSE IF p < q THEN b - 1 ELSE 1)
  BY <1>1 DEF Ordering
<1>3. v = Low(Ordering(p, q), WordBits)
  BY <1>2, LowOfWord
<1>4. /\ Signed(v, WordBits) \in Int
      /\ Signed(v, WordBits) = 0 <=> p = q
      /\ Signed(v, WordBits) < 0 <=> p < q
      /\ Signed(v, WordBits) > 0 <=> p > q
  <2>1. Signed(v, WordBits) = IF v >= t THEN v - b ELSE v
    BY <1>1 DEF Signed
  <2> QED  BY <1>1, <1>2, <2>1
<1>5. Low(v, ByteBits) = 0 <=> p = q
  <2>1. v = 0 \/ v = 1 \/ v = MinusOne(WordBits)
    BY <1>1, <1>2
  <2>2. v = 0 <=> p = q
    BY <1>1, <1>2
  <2> QED  BY <2>1, <2>2, LowBytes
<1> QED  BY <1>3, <1>4, <1>5

\* The same of the result of a test.
LEMMA TruthWord ==
  ASSUME NEW c \in BOOLEAN
  PROVE  /\ Signed(Truth(c), WordBits) = 0 <=> ~c
         /\ Low(Truth(c), ByteBits) = 0 <=> ~c
<1>1. Truth(c) \in Word /\ (Truth(c) = 0 <=> ~c) /\ Truth(c) \in {0, 1}
  BY WordIsNat DEF Truth
<1> QED  BY <1>1, SignedWord, LowBytes

\* What a comparison compares, as its op reads it.
AsCompared(op, x) == IF IsUnsignedCompare(op) THEN x ELSE Signed(x, WordBits)

\* A jump on the sign of a signed difference goes wrong when that overflows.
LooksAtSign(op, jump) == jump \in {"JS", "JNS"} /\ ~IsUnsignedCompare(op)

\* The flags say what the interpreter finds in the value register: directly, or
\* after TZ or TNZ, of which TZ inverts the branch.
LEMMA FusedMeans ==
  ASSUME NEW x \in Word, NEW y \in Word, NEW op, NEW jump, IsConditionalBranch(jump),
         LooksAtSign(op, jump) => ~Compare(x, y).overflow
  PROVE  \E v \in Word :
           /\ v = Low(Ordering(AsCompared(op, x), AsCompared(op, y)), WordBits)
           /\ \A m : m.vr[1] = v =>
                FusedTaken(jump, IsUnsignedCompare(op), Compare(x, y)) = Branches(jump, m)
           /\ Compare(x, y).zero <=> Signed(v, WordBits) = 0
<1>1. PICK p \in Int, q \in Int : p = AsCompared(op, x) /\ q = AsCompared(op, y)
  <2>1. x \in Int /\ y \in Int
    BY WordIsNat
  <2> QED  BY <2>1, SignedWord DEF AsCompared
<1>2. PICK f : f = Compare(x, y)
  OBVIOUS
<1>3. /\ f.zero \in BOOLEAN /\ f.carry \in BOOLEAN /\ f.sign \in BOOLEAN
      /\ f.overflow \in BOOLEAN
  BY <1>2, SMT DEF Compare, IsNegative
<1>4. f.zero <=> p = q
  <2>1. f.zero <=> x = y
    BY <1>2, CompareMeans
  <2>2. Signed(x, WordBits) = Signed(y, WordBits) => x = y
    BY BaseFacts DEF Signed
  <2> QED  BY <1>1, <2>1, <2>2 DEF AsCompared
<1>5. IF IsUnsignedCompare(op)
      THEN (f.carry <=> p < q) /\ (UnsignedGreater(f) <=> p > q)
      ELSE (SignedLess(f) <=> p < q) /\ (SignedGreater(f) <=> p > q)
  BY <1>1, <1>2, CompareMeans DEF AsCompared
<1>6. LooksAtSign(op, jump) => (f.sign <=> p < q)
  <2>1. LooksAtSign(op, jump) => ~f.overflow /\ (SignedLess(f) <=> p < q)
    BY <1>2, <1>5 DEF LooksAtSign
  <2> QED  BY <1>3, <2>1 DEF SignedLess
<1>7. PICK v \in Word : /\ v = Low(Ordering(p, q), WordBits)
                        /\ Signed(v, WordBits) \in Int
                        /\ Signed(v, WordBits) = 0 <=> p = q
                        /\ Signed(v, WordBits) < 0 <=> p < q
                        /\ Signed(v, WordBits) > 0 <=> p > q
                        /\ Low(v, ByteBits) = 0 <=> p = q
  BY OrderingWord
<1>8. ASSUME NEW m, m.vr[1] = v
      PROVE  FusedTaken(jump, IsUnsignedCompare(op), f) = Branches(jump, m)
  <2>1. PICK s \in Int : s = Signed(v, WordBits)
    BY <1>7
  <2>2. /\ s = 0 <=> p = q
        /\ s < 0 <=> p < q
        /\ s > 0 <=> p > q
    BY <1>7, <2>1
  <2>3. Signed(m.vr[1], WordBits) = s
    BY <1>8, <2>1
  <2>4. CASE jump \in {"JZ", "JNZ"}
    <3>1. FusedTaken(jump, IsUnsignedCompare(op), f) = IF jump = "JZ" THEN f.zero ELSE ~f.zero
      BY <2>4 DEF FusedTaken
    <3>2. Branches(jump, m) = IF jump = "JZ" THEN s = 0 ELSE s # 0
      BY <2>3, <2>4 DEF Branches
    <3> QED  BY <1>3, <1>4, <2>2, <3>1, <3>2
  <2>5. CASE jump \in {"JLowZ", "JLowNZ"}
    <3>1. FusedTaken(jump, IsUnsignedCompare(op), f) =
            IF jump = "JLowZ" THEN f.zero ELSE ~f.zero
      BY <2>5 DEF FusedTaken
    <3>2. Branches(jump, m) = IF jump = "JLowZ" THEN Low(v, ByteBits) = 0
                              ELSE Low(v, ByteBits) # 0
      BY <1>8, <2>5 DEF Branches
    <3> QED  BY <1>3, <1>4, <1>7, <3>1, <3>2
  <2>6. CASE jump \in {"JS", "JNS"}
    <3>1. PICK c \in BOOLEAN : c = (IF IsUnsignedCompare(op) THEN f.carry ELSE f.sign)
      BY <1>3
    <3>2. FusedTaken(jump, IsUnsignedCompare(op), f) = IF jump = "JS" THEN c ELSE ~c
      BY <2>6, <3>1 DEF FusedTaken
    <3>3. Branches(jump, m) = IF jump = "JS" THEN s < 0 ELSE s >= 0
      BY <2>3, <2>6 DEF Branches
    <3>4. c <=> p < q
      BY <1>5, <1>6, <2>6, <3>1 DEF LooksAtSign
    <3>5. s >= 0 <=> ~(s < 0)
      OBVIOUS
    <3> QED  BY <2>2, <3>1, <3>2, <3>3, <3>4, <3>5
  <2>7. CASE jump \in {"JP", "JNP"}
    <3>1. PICK c : c = (IF IsUnsignedCompare(op) THEN UnsignedGreater(f)
                        ELSE SignedGreater(f))
      OBVIOUS
    <3>2. c \in BOOLEAN
      BY <1>3, <3>1, Zenon DEF UnsignedGreater, SignedGreater
    <3>3. FusedTaken(jump, IsUnsignedCompare(op), f) = IF jump = "JP" THEN c ELSE ~c
      BY <2>7, <3>1 DEF FusedTaken
    <3>4. Branches(jump, m) = IF jump = "JP" THEN s > 0 ELSE s <= 0
      BY <2>3, <2>7 DEF Branches
    <3>5. c <=> p > q
      BY <1>5, <3>1
    <3>6. s <= 0 <=> ~(s > 0)
      OBVIOUS
    <3> QED  BY <2>2, <3>2, <3>3, <3>4, <3>5, <3>6
  <2> QED  BY <2>4, <2>5, <2>6, <2>7 DEF IsConditionalBranch
<1>9. f.zero <=> Signed(v, WordBits) = 0
  BY <1>4, <1>7
<1> QED  BY <1>1, <1>2, <1>7, <1>8, <1>9

\* The branch on the result of a test between them.
LEMMA TestedMeans ==
  ASSUME NEW zero \in BOOLEAN, NEW test \in {"TZ", "TNZ"},
         NEW jump \in {"JZ", "JNZ", "JLowZ", "JLowNZ"},
         NEW unsigned, NEW f, f.zero = zero, NEW m,
         m.vr[1] = Truth(zero = (test = "TZ"))
  PROVE  FusedTaken(IF test = "TZ" THEN Inverted(jump) ELSE jump, unsigned, f)
           = Branches(jump, m)
<1>1. PICK c \in BOOLEAN : c = (zero = (test = "TZ"))
  BY Zenon
<1>2. /\ Signed(m.vr[1], WordBits) = 0 <=> ~c
      /\ Low(m.vr[1], ByteBits) = 0 <=> ~c
  BY <1>1, TruthWord
<1>3. Branches(jump, m) = IF jump \in {"JZ", "JLowZ"} THEN ~c ELSE c
  BY <1>2 DEF Branches
<1>4. FusedTaken(IF test = "TZ" THEN Inverted(jump) ELSE jump, unsigned, f) =
        IF (jump \in {"JZ", "JLowZ"}) = (test = "TNZ") THEN zero ELSE ~zero
  BY DEF Inverted, FusedTaken
<1>5. ASSUME NEW b \in BOOLEAN, zero = b PROVE c = (b = (test = "TZ"))
  BY <1>1, <1>5
<1>6. CASE zero = TRUE /\ test = "TZ"
  <2>1. c = TRUE
    BY <1>5, <1>6
  <2>2. CASE jump \in {"JZ", "JLowZ"}
    BY <1>3, <1>4, <1>6, <2>1, <2>2
  <2>3. CASE jump \in {"JNZ", "JLowNZ"}
    <3>1. Branches(jump, m) = c
      BY <1>3, <2>3
    <3>2. FusedTaken(IF test = "TZ" THEN Inverted(jump) ELSE jump, unsigned, f) = zero
      BY <1>6, <2>3 DEF Inverted, FusedTaken
    <3> QED  BY <1>6, <2>1, <3>1, <3>2
  <2> QED  BY <2>2, <2>3
<1>7. CASE zero = TRUE /\ test = "TNZ"
  <2>1. c = FALSE
    BY <1>5, <1>7
  <2> QED  BY <1>3, <1>4, <1>7, <2>1
<1>8. CASE zero = FALSE /\ test = "TZ"
  <2>1. c = FALSE
    BY <1>5, <1>8
  <2> QED  BY <1>3, <1>4, <1>8, <2>1
<1>9. CASE zero = FALSE /\ test = "TNZ"
  <2>1. c = TRUE
    BY <1>5, <1>9
  <2> QED  BY <1>3, <1>4, <1>9, <2>1
<1> QED  BY <1>6, <1>7, <1>8, <1>9

\* Several instructions one after the other, as the recursive function of
\* InterpretMany has them: two, or three.
LEMMA TwoInterpreted ==
  ASSUME NEW P, NEW k, NEW m, NEW event,
         NEW r, r = InterpretOne(P, k, m, event),
         NEW s, s = InterpretOne(P, r.pc, r.m, event)
  PROVE  InterpretMany(P, k, m, 2, event) = s
<1> DEFINE start == [pc |-> k, m |-> m]
           Is(g) == g = [n \in 0..2 |->
                           IF n = 0 THEN [pc |-> k, m |-> m]
                           ELSE InterpretOne(P, g[n - 1].pc, g[n - 1].m, event)]
           run == [n \in 0..2 |-> IF n = 0 THEN start ELSE IF n = 1 THEN r ELSE s]
           many == CHOOSE g : Is(g)
<1>1. Is(run)
  <2>1. run[0] = start /\ run[1] = r /\ run[2] = s /\ start.pc = k /\ start.m = m
    OBVIOUS
  <2>2. PICK g : g = run
    OBVIOUS
  <2>3. /\ g = [n \in 0..2 |-> g[n]] /\ g[0] = [pc |-> k, m |-> m]
        /\ g[1] = InterpretOne(P, g[1 - 1].pc, g[1 - 1].m, event)
        /\ g[2] = InterpretOne(P, g[2 - 1].pc, g[2 - 1].m, event)
    <3>1. 1 - 1 = 0 /\ 2 - 1 = 1
      OBVIOUS
    <3>2. g = [n \in 0..2 |-> g[n]]
      BY <2>2
    <3> HIDE DEF run, start
    <3>3. g[0].pc = k /\ g[0].m = m /\ g[1] = r /\ g[2] = s
      BY <2>1, <2>2
    <3>4. g[0] = [pc |-> k, m |-> m]
      BY <2>1, <2>2 DEF start
    <3> QED  BY <3>1, <3>2, <3>3, <3>4, Zenon
  <2>4. 0..2 = {0, 1, 2}
    OBVIOUS
  <2> HIDE DEF run, start
  <2>5. Is(g)
    BY <2>3, <2>4
  <2> HIDE DEF Is
  <2> QED  BY <2>2, <2>5
<1>2. Is(many)
  <2> HIDE DEF Is, run
  <2> QED  BY <1>1
<1>3. InterpretMany(P, k, m, 2, event) = many[2]
  BY DEF InterpretMany
<1> HIDE DEF many, run, start
<1>4. many[0] = [pc |-> k, m |-> m]
  BY <1>2
<1>5. many[1] = r
  <2>1. many[1] = InterpretOne(P, many[0].pc, many[0].m, event)
    BY <1>2
  <2>2. many[0].pc = k /\ many[0].m = m
    BY <1>4
  <2> QED  BY <2>1, <2>2
<1>6. many[2] = s
  <2>1. many[2] = InterpretOne(P, many[1].pc, many[1].m, event)
    BY <1>2
  <2> QED  BY <1>5, <2>1
<1> QED  BY <1>3, <1>6

\* Three instructions of the interpreter one after the other.
LEMMA ThreeInterpreted ==
  ASSUME NEW P, NEW k, NEW m, NEW event,
         NEW r, r = InterpretOne(P, k, m, event),
         NEW s, s = InterpretOne(P, r.pc, r.m, event),
         NEW t, t = InterpretOne(P, s.pc, s.m, event)
  PROVE  InterpretMany(P, k, m, 3, event) = t
<1> DEFINE start == [pc |-> k, m |-> m]
           Is(g) == g = [n \in 0..3 |->
                           IF n = 0 THEN [pc |-> k, m |-> m]
                           ELSE InterpretOne(P, g[n - 1].pc, g[n - 1].m, event)]
           run == [n \in 0..3 |-> IF n = 0 THEN start ELSE IF n = 1 THEN r
                                  ELSE IF n = 2 THEN s ELSE t]
           many == CHOOSE g : Is(g)
<1>1. Is(run)
  <2>1. /\ run[0] = start /\ run[1] = r /\ run[2] = s /\ run[3] = t
        /\ start.pc = k /\ start.m = m
    OBVIOUS
  <2>2. PICK g : g = run
    OBVIOUS
  <2>3. /\ g = [n \in 0..3 |-> g[n]] /\ g[0] = [pc |-> k, m |-> m]
        /\ g[1] = InterpretOne(P, g[1 - 1].pc, g[1 - 1].m, event)
        /\ g[2] = InterpretOne(P, g[2 - 1].pc, g[2 - 1].m, event)
        /\ g[3] = InterpretOne(P, g[3 - 1].pc, g[3 - 1].m, event)
    <3>1. 1 - 1 = 0 /\ 2 - 1 = 1 /\ 3 - 1 = 2
      OBVIOUS
    <3>2. g = [n \in 0..3 |-> g[n]]
      BY <2>2
    <3> HIDE DEF run, start
    <3>3. g[0].pc = k /\ g[0].m = m /\ g[1] = r /\ g[2] = s /\ g[3] = t
      BY <2>1, <2>2
    <3>4. g[0] = [pc |-> k, m |-> m]
      BY <2>1, <2>2 DEF start
    <3> QED  BY <3>1, <3>2, <3>3, <3>4, Zenon
  <2>4. 0..3 = {0, 1, 2, 3}
    OBVIOUS
  <2> HIDE DEF run, start
  <2>5. Is(g)
    BY <2>3, <2>4
  <2> HIDE DEF Is
  <2> QED  BY <2>2, <2>5
<1>2. Is(many)
  <2> HIDE DEF Is, run
  <2> QED  BY <1>1
<1>3. InterpretMany(P, k, m, 3, event) = many[3]
  BY DEF InterpretMany
<1> HIDE DEF many, run, start
<1>4. many[0] = [pc |-> k, m |-> m]
  BY <1>2
<1>5. many[1] = r
  <2>1. many[1] = InterpretOne(P, many[0].pc, many[0].m, event)
    BY <1>2
  <2>2. many[0].pc = k /\ many[0].m = m
    BY <1>4
  <2> QED  BY <2>1, <2>2
<1>6. many[2] = s
  <2>1. many[2] = InterpretOne(P, many[1].pc, many[1].m, event)
    BY <1>2
  <2> QED  BY <1>5, <2>1
<1>7. many[3] = t
  <2>1. many[3] = InterpretOne(P, many[2].pc, many[2].m, event)
    BY <1>2
  <2> QED  BY <1>6, <2>1
<1> QED  BY <1>3, <1>7

\* The interpreter at a comparison, at a test and at a branch.
LEMMA HelpersOfFused ==
  ASSUME NEW i, NEW m
  PROVE  /\ i.op \in ComparedOps => Interpret(i, m) = CompareVariables(i, m)
         /\ i.op \in {"TZ", "TNZ"} => Interpret(i, m) = Test(i, m)
<1> USE DEF NegateOps, StepOps, StepVariableOps, BitOps, ConvertOps, ExtendOps,
            ConvertDoubleOps, IntegerOps, DivideOps, FloatOps, DoubleOps,
            IntegerImmediateOps, FloatImmediateOps, SetGlobalOps, NarrowOps,
            Convert64Ops, Unary64Ops, Integer64Ops, Divide64Ops, Bit64Ops,
            Shift64Ops, Compare64Ops, ClearHighOps, DivideUnsignedOps,
            DivideUnsigned64Ops, TestOps, CompareOps, PowerOps, PushOps,
            LoadGlobalOps, CopyOps, PushMoreOps, SetVariableOps, AddAddressOps,
            CopyVariableOps, IndirectOps, AddressOps, FreeOps, ObjectRegisterOps,
            ArgumentOps, ReferenceCopyOps, CheckOps, PushObjectOps, CastOps,
            PropertyOps, ReferenceCopyVariableOps, ListOps
<1>1. i.op \in ComparedOps => Interpret(i, m) = CompareVariables(i, m)
  BY DEF Interpret, ComparedOps
<1>2. i.op \in {"TZ", "TNZ"} => Interpret(i, m) = Test(i, m)
  BY DEF Interpret
<1> QED  BY <1>1, <1>2

\* The interpreter at a comparison or a test that raises nothing.
LEMMA InterpretedAt ==
  ASSUME NEW P, NEW k, NEW m, NEW event, Op(P, k) \in ComparedOps \union {"TZ", "TNZ"},
         Interpret(P.code[k], m).exc = "none"
  PROVE  InterpretOne(P, k, m, event) = [pc |-> k + 1, m |-> Interpret(P.code[k], m)]
<1>1. PICK i : i = P.code[k]
  OBVIOUS
<1>2. i.op \in ComparedOps \union {"TZ", "TNZ"}
  BY <1>1 DEF Op
<1>3. /\ ~IsBranch(i.op) /\ i.op # "JMPP" /\ i.op \notin {"JitEntry", "SUSPEND"}
      /\ i.op # "RET" /\ i.op # "CALLSYS" /\ i.op # "AllocApp" /\ i.op \notin CallOps
  BY <1>2 DEF ComparedOps, IsBranch, IsConditionalBranch, CallOps
<1>4. InterpretOne(P, k, m, event) = InterpretedCatch(P, k, Interpret(i, m))
  BY <1>1, <1>3 DEF InterpretOne
<1> QED  BY <1>1, <1>4 DEF InterpretedCatch

\* A machine that differs in the value register at most.
ButValueRegister(m, n) ==
  m.mem = n.mem /\ m.sp = n.sp /\ m.object = n.object /\ m.exc = n.exc /\ m.reg = n.reg

\* Setting the result changes the value register only.
LEMMA ResultIsSet ==
  ASSUME NEW m, IsMachineState(m), NEW x
  PROVE  /\ ButValueRegister(SetResult(m, x), m)
         /\ SetResult(m, x).vr[1] = Low(x, WordBits)
<1>1. {"mem", "reg", "vr", "sp", "object", "exc"} \subseteq DOMAIN m
      /\ m.vr \in Word \X Word
  BY DEF IsMachineState, Fields
<1>2. 1 \in DOMAIN m.vr
  BY <1>1
<1> QED  BY <1>1, <1>2 DEF SetResult, ButValueRegister

\* The second operand of a comparison.
ComparedWith(i, m) == IF i.op \in {"CMPIi", "CMPIu"} THEN i.q[1] ELSE Var(m, i.b)

\* A comparison of the interpreter leaves the order of its operands in the value
\* register.
LEMMA ComparesAt ==
  ASSUME NEW P, NEW k, NEW m, NEW event, IsMachineState(m), Op(P, k) \in ComparedOps,
         NEW i, i = P.code[k], NEW x, x = Var(m, i.a), NEW y, y = ComparedWith(i, m)
  PROVE  \E n : /\ InterpretOne(P, k, m, event) = [pc |-> k + 1, m |-> n]
                /\ ButValueRegister(n, m)
                /\ n.vr[1] = Low(Ordering(AsCompared(i.op, x), AsCompared(i.op, y)), WordBits)
                /\ {"mem", "reg", "vr", "sp", "object", "exc"} \subseteq DOMAIN n
<1>1. i.op \in ComparedOps
  BY DEF Op
<1>2. PICK c : c = Ordering(AsCompared(i.op, x), AsCompared(i.op, y))
  OBVIOUS
<1>3. Interpret(i, m) = CompareVariables(i, m)
  BY <1>1, HelpersOfFused
<1>4. CompareVariables(i, m) = SetResult(m, c)
  <2>1. CASE IsUnsignedCompare(i.op)
    <3>1. c = Ordering(x, y)
      BY <1>2, <2>1 DEF AsCompared
    <3> QED  BY <1>1, <2>1, <3>1
             DEF CompareVariables, ComparedWith, IsUnsignedCompare, ComparedOps
  <2>2. CASE ~IsUnsignedCompare(i.op)
    <3>1. c = Ordering(Signed(x, WordBits), Signed(y, WordBits))
      BY <1>2, <2>2 DEF AsCompared
    <3> QED  BY <1>1, <2>2, <3>1
             DEF CompareVariables, ComparedWith, IsUnsignedCompare, ComparedOps
  <2> QED  BY <2>1, <2>2
<1>5. PICK n : n = SetResult(m, c)
  OBVIOUS
<1>6. ButValueRegister(n, m) /\ n.vr[1] = Low(c, WordBits)
  BY <1>5, ResultIsSet
<1>7. n.exc = "none" /\ {"mem", "reg", "vr", "sp", "object", "exc"} \subseteq DOMAIN n
  <2>1. m.exc = "none" /\ DOMAIN n = DOMAIN m /\ DOMAIN m = Fields
    BY <1>5 DEF IsMachineState, SetResult
  <2> QED  BY <1>6, <2>1 DEF ButValueRegister, Fields
<1>8. InterpretOne(P, k, m, event) = [pc |-> k + 1, m |-> n]
  <2>1. Interpret(P.code[k], m) = n
    BY <1>3, <1>4, <1>5
  <2> QED  BY <1>7, <2>1, InterpretedAt
<1> QED  BY <1>2, <1>6, <1>7, <1>8

\* A test of the interpreter leaves in the value register whether it was zero,
\* or was not.
LEMMA TestsAt ==
  ASSUME NEW P, NEW k, NEW m, NEW event, Op(P, k) \in {"TZ", "TNZ"}, m.exc = "none",
         {"mem", "reg", "vr", "sp", "object", "exc"} \subseteq DOMAIN m,
         NEW zero, zero = (Signed(m.vr[1], WordBits) = 0)
  PROVE  \E n : /\ InterpretOne(P, k, m, event) = [pc |-> k + 1, m |-> n]
                /\ ButValueRegister(n, m)
                /\ n.vr[1] = Truth(zero = (Op(P, k) = "TZ"))
<1>1. PICK i : i = P.code[k] /\ i.op = Op(P, k)
  BY DEF Op
<1>2. PICK w : w = <<Truth(zero = (i.op = "TZ")), 0>>
  OBVIOUS
<1>3. Interpret(i, m) = [m EXCEPT !.vr = w]
  <2>1. Interpret(i, m) = Test(i, m)
    BY <1>1, HelpersOfFused
  <2> QED  BY <1>1, <1>2, <2>1 DEF Test
<1>4. PICK n : n = [m EXCEPT !.vr = w]
  OBVIOUS
<1>5. ButValueRegister(n, m) /\ n.vr = w
  BY <1>4 DEF ButValueRegister
<1>6. n.exc = "none"
  BY <1>5 DEF ButValueRegister
<1>7. InterpretOne(P, k, m, event) = [pc |-> k + 1, m |-> n]
  <2>1. Interpret(P.code[k], m) = n
    BY <1>1, <1>3, <1>4
  <2> QED  BY <1>1, <1>6, <2>1, InterpretedAt
<1>8. n.vr[1] = Truth(zero = (Op(P, k) = "TZ"))
  BY <1>1, <1>2, <1>5
<1> QED  BY <1>5, <1>7, <1>8

\* A branch of the interpreter leads to its target or on, and changes nothing.
LEMMA BranchesAt ==
  ASSUME NEW P, NEW k, NEW m, NEW event, IsBranch(Op(P, k))
  PROVE  InterpretOne(P, k, m, event) =
           [pc |-> IF Branches(Op(P, k), m) THEN P.code[k].to ELSE k + 1, m |-> m]
<1>1. PICK i : i = P.code[k] /\ i.op = Op(P, k)
  BY DEF Op
<1>2. /\ IsBranch(i.op) /\ i.op # "JMPP" /\ i.op \notin {"JitEntry", "SUSPEND"}
      /\ i.op # "RET" /\ i.op # "CALLSYS" /\ i.op # "AllocApp" /\ i.op \notin CallOps
  BY <1>1 DEF IsBranch, IsConditionalBranch, CallOps
<1> QED  BY <1>1, <1>2 DEF InterpretOne

\* The jump of a fused comparison.
LEMMA FusionJumps ==
  ASSUME NEW P, NEW k \in Int, NEW f, f = ComparisonBranchFusion(P, k), f.span > 0
  PROVE  \/ f.span = 1 /\ f.op = Op(P, k + 1)
         \/ /\ f.span = 2 /\ Op(P, k + 1) \in {"TZ", "TNZ"}
            /\ Op(P, k + 2) \in {"JZ", "JNZ", "JLowZ", "JLowNZ"}
            /\ f.op = IF Op(P, k + 1) = "TZ" THEN Inverted(Op(P, k + 2)) ELSE Op(P, k + 2)
<1>1. NotFused.span = 0
  BY DEF NotFused
<1>2. k + 2 - k = 2 /\ k + 1 - k = 1
  OBVIOUS
<1> QED  BY <1>1, <1>2 DEF ComparisonBranchFusion

\* Where a fused comparison goes on.
FusedTarget(P, k, f, op, x, y) ==
  IF FusedTaken(f.op, IsUnsignedCompare(op), Compare(x, y))
  THEN P.code[k + f.span].to ELSE k + f.span + 1

OverflowMatters(op, jump, x, y) == LooksAtSign(op, jump) /\ Compare(x, y).overflow

\* Instruction i at k of P starts the fusion f and compares x and y in m.
StartsFused(P, k, f, m, i, x, y) ==
  /\ Len(P.code) \in Nat /\ k \in Int /\ f = ComparisonBranchFusion(P, k) /\ f.span > 0
  /\ IsMachineState(m) /\ i = P.code[k]
  /\ x \in Word /\ x = Var(m, i.a) /\ y \in Word /\ y = ComparedWith(i, m)
  /\ ~OverflowMatters(i.op, f.op, x, y)

\* What the interpreter makes of a comparison, the test behind it and the branch:
\* it goes the way the flags tell, and changes nothing but the value register.
LEMMA FusedIsInterpreted ==
  ASSUME NEW P, NEW k, NEW f, NEW m, NEW event, NEW i, NEW x, NEW y,
         StartsFused(P, k, f, m, i, x, y)
  PROVE  /\ InterpretMany(P, k, m, f.span + 1, event).pc = FusedTarget(P, k, f, i.op, x, y)
         /\ ButValueRegister(InterpretMany(P, k, m, f.span + 1, event).m, m)
<1>1. /\ Len(P.code) \in Nat /\ k \in Int /\ ComparisonBranchFusion(P, k) = f /\ f.span > 0
      /\ IsMachineState(m) /\ P.code[k] = i
      /\ x \in Word /\ Var(m, i.a) = x /\ y \in Word /\ ComparedWith(i, m) = y
      /\ ~OverflowMatters(i.op, f.op, x, y)
  BY DEF StartsFused
<1>2. PICK count : count = f.span + 1
  OBVIOUS
<1>3. PICK branch, next :
        /\ branch = k + f.span /\ next = FusedTarget(P, k, f, i.op, x, y)
        /\ next = IF FusedTaken(f.op, IsUnsignedCompare(i.op), Compare(x, y))
                  THEN P.code[branch].to ELSE branch + 1
  BY DEF FusedTarget
<1>4. LooksAtSign(i.op, f.op) => ~Compare(x, y).overflow
  BY <1>1 DEF OverflowMatters
<1>5. /\ Op(P, k) \in ComparedOps /\ i.op = Op(P, k)
      /\ IsConditionalBranch(Op(P, k + f.span))
  BY <1>1, FusionSpanFits DEF Op
<1>6. PICK g : g = Compare(x, y)
  OBVIOUS
<1>7. PICK n1 :
        /\ InterpretOne(P, k, m, event) = [pc |-> k + 1, m |-> n1]
        /\ ButValueRegister(n1, m)
        /\ n1.vr[1] = Low(Ordering(AsCompared(i.op, x), AsCompared(i.op, y)), WordBits)
        /\ {"mem", "reg", "vr", "sp", "object", "exc"} \subseteq DOMAIN n1
  BY <1>5, <1>1, ComparesAt
<1>8. CASE f.span = 1 /\ f.op = Op(P, k + 1)
  <2>1. PICK v \in Word :
          /\ v = Low(Ordering(AsCompared(i.op, x), AsCompared(i.op, y)), WordBits)
          /\ \A n : n.vr[1] = v =>
               FusedTaken(f.op, IsUnsignedCompare(i.op), Compare(x, y)) = Branches(f.op, n)
    <3>1. IsConditionalBranch(f.op)
      BY <1>5, <1>8
    <3> QED  BY <1>4, <1>1, <3>1, FusedMeans
  <2>2. FusedTaken(f.op, IsUnsignedCompare(i.op), Compare(x, y)) = Branches(f.op, n1)
    BY <1>7, <2>1
  <2>3. PICK r : r = [pc |-> k + 1, m |-> n1]
    OBVIOUS
  <2>4. r.pc = k + 1 /\ r.m = n1 /\ r = InterpretOne(P, k, m, event)
    BY <1>7, <2>3
  <2>5. PICK s : s = [pc |-> IF Branches(f.op, n1) THEN P.code[k + 1].to ELSE k + 1 + 1,
                      m |-> n1]
    OBVIOUS
  <2>6. s = InterpretOne(P, r.pc, r.m, event)
    BY <1>5, <1>8, <2>4, <2>5, BranchesAt DEF IsBranch
  <2>7. InterpretMany(P, k, m, 2, event) = s
    BY <2>4, <2>6, TwoInterpreted
  <2>8. count = 2 /\ branch = k + 1
    BY <1>3, <1>8, <1>2
  <2> QED  BY <1>3, <1>7, <1>2, <2>2, <2>5, <2>7, <2>8
<1>9. CASE /\ f.span = 2 /\ Op(P, k + 1) \in {"TZ", "TNZ"}
           /\ Op(P, k + 2) \in {"JZ", "JNZ", "JLowZ", "JLowNZ"}
           /\ f.op = IF Op(P, k + 1) = "TZ" THEN Inverted(Op(P, k + 2))
                     ELSE Op(P, k + 2)
  <2>1. PICK v \in Word :
          /\ v = Low(Ordering(AsCompared(i.op, x), AsCompared(i.op, y)), WordBits)
          /\ g.zero <=> Signed(v, WordBits) = 0
    <3>1. IsConditionalBranch("JZ") /\ ~LooksAtSign(i.op, "JZ")
      BY DEF IsConditionalBranch, LooksAtSign
    <3>2. LooksAtSign(i.op, "JZ") => ~Compare(x, y).overflow
      BY <3>1
    <3>3. PICK v \in Word :
            /\ v = Low(Ordering(AsCompared(i.op, x), AsCompared(i.op, y)), WordBits)
            /\ Compare(x, y).zero <=> Signed(v, WordBits) = 0
      BY <1>1, <3>1, <3>2, FusedMeans
    <3> QED  BY <1>6, <3>3
  <2>2. PICK zero \in BOOLEAN : zero = g.zero /\ zero = (Signed(n1.vr[1], WordBits) = 0)
    <3>1. g.zero \in BOOLEAN
      BY <1>6 DEF Compare
    <3>2. g.zero <=> Signed(n1.vr[1], WordBits) = 0
      BY <1>7, <2>1
    <3> QED  BY <3>1, <3>2
  <2>3. n1.exc = "none"
    BY <1>7, <1>1 DEF ButValueRegister, IsMachineState
  <2>4. PICK n2 : /\ InterpretOne(P, k + 1, n1, event) = [pc |-> k + 1 + 1, m |-> n2]
                  /\ ButValueRegister(n2, n1)
                  /\ n2.vr[1] = Truth(zero = (Op(P, k + 1) = "TZ"))
    <3>1. Op(P, k + 1) \in {"TZ", "TNZ"} /\ zero = (Signed(n1.vr[1], WordBits) = 0)
      BY <1>9, <2>2
    <3>2. {"mem", "reg", "vr", "sp", "object", "exc"} \subseteq DOMAIN n1
      BY <1>7
    <3>3. PICK j : j = k + 1
      OBVIOUS
    <3>4. Op(P, j) \in {"TZ", "TNZ"}
      BY <3>1, <3>3
    <3>5. \E n2 : /\ InterpretOne(P, j, n1, event) = [pc |-> j + 1, m |-> n2]
                  /\ ButValueRegister(n2, n1)
                  /\ n2.vr[1] = Truth(zero = (Op(P, j) = "TZ"))
      BY <2>3, <3>1, <3>2, <3>4, TestsAt
    <3> QED  BY <3>3, <3>5
  <2>5. PICK jump : jump = Op(P, k + 2)
    OBVIOUS
  <2>6. FusedTaken(f.op, IsUnsignedCompare(i.op), g) = Branches(jump, n2)
    <3>1. PICK test \in {"TZ", "TNZ"} : test = Op(P, k + 1)
      BY <1>9
    <3>2. jump \in {"JZ", "JNZ", "JLowZ", "JLowNZ"}
      BY <1>9, <2>5
    <3>3. g.zero = zero /\ n2.vr[1] = Truth(zero = (test = "TZ"))
      BY <2>2, <2>4, <3>1
    <3>4. FusedTaken(IF test = "TZ" THEN Inverted(jump) ELSE jump,
                     IsUnsignedCompare(i.op), g) = Branches(jump, n2)
      BY <3>2, <3>3, TestedMeans
    <3>5. f.op = IF test = "TZ" THEN Inverted(jump) ELSE jump
      BY <1>9, <2>5, <3>1
    <3> QED  BY <3>4, <3>5
  <2>7. PICK r : r = [pc |-> k + 1, m |-> n1]
    OBVIOUS
  <2>8. r.pc = k + 1 /\ r.m = n1 /\ r = InterpretOne(P, k, m, event)
    BY <1>7, <2>7
  <2>9. PICK s : s = [pc |-> k + 1 + 1, m |-> n2]
    OBVIOUS
  <2>10. s.pc = k + 1 + 1 /\ s.m = n2 /\ s = InterpretOne(P, r.pc, r.m, event)
    BY <2>4, <2>8, <2>9
  <2>11. k + 1 + 1 = k + 2 /\ k + 2 + 1 = k + 1 + 1 + 1
    BY <1>1
  <2>12. PICK t : t = [pc |-> IF Branches(jump, n2) THEN P.code[k + 2].to ELSE k + 2 + 1,
                       m |-> n2]
    OBVIOUS
  <2>13. t = InterpretOne(P, s.pc, s.m, event)
    <3>1. IsConditionalBranch(Op(P, k + 2)) /\ s.pc = k + 2
      BY <1>5, <1>9, <2>10, <2>11
    <3>2. InterpretOne(P, k + 2, n2, event) = t
      BY <2>5, <2>12, <3>1, BranchesAt DEF IsBranch
    <3> QED  BY <2>10, <3>1, <3>2
  <2>14. InterpretMany(P, k, m, 3, event) = t
    BY <2>8, <2>10, <2>13, ThreeInterpreted
  <2>15. count = 3 /\ branch = k + 2
    BY <1>3, <1>9, <1>2
  <2>16. ButValueRegister(n2, m)
    BY <1>7, <2>4 DEF ButValueRegister
  <2> QED  BY <1>3, <1>6, <1>2, <2>6, <2>12, <2>14, <2>15, <2>16
<1> QED  BY <1>8, <1>9, <1>1, FusionJumps

\* A variable that decides on the way, in native code and in the interpreter.
LEMMA SameVariable ==
  ASSUME FunctionTypeOK, Together, mode = "native", NEW o \in Int, Fp - o >= native.sp,
         Fp - o \in DOMAIN native.mem \intersect DOMAIN interpreter.mem
  PROVE  LoadVar(native, o) = Var(interpreter, o) /\ Var(interpreter, o) \in Word
<1>1. /\ IsMachineState(native) /\ IsMachineState(interpreter)
      /\ SameState(native, interpreter)
  BY DEF FunctionTypeOK, Together
<1>2. IsMachine(native)
  BY <1>1 DEF IsMachineState, IsMachine, Fields
<1>3. LoadVar(native, o) = View(native)[Fp - o]
  BY <1>2, LoadReadsView
<1>4. View(native)[Fp - o] = interpreter.mem[Fp - o]
  BY <1>1 DEF SameState
<1>5. interpreter.mem[Fp - o] \in Word
  BY <1>1 DEF IsMachineState
<1> QED  BY <1>3, <1>4, <1>5 DEF Var

\* The words a comparison compares, in native code and in the interpreter.
LEMMA ComparedWords ==
  ASSUME ControlInv, FunctionTypeOK, GoTogether, mode = "native",
         Here.op \in ComparedOps, plan.fusion[pc].span > 0
  PROVE  \E x \in Word, y \in Word :
           /\ x = Var(interpreter, Here.a) /\ y = ComparedWith(Here, interpreter)
           /\ CompareFlags(Here, native) = Compare(x, y)
<1>1. /\ Here.q[1] \in Word
      /\ \A o \in VariablesHere :
           /\ o \in Int /\ Fp - o >= native.sp
           /\ Fp - o \in DOMAIN native.mem /\ Fp - o \in DOMAIN interpreter.mem
  BY DEF GoTogether, WayIsKnown
<1>0. VariablesHere = IF Here.op \in {"CMPIi", "CMPIu"} THEN {Here.a}
                      ELSE {Here.a, Here.b}
  BY VariablesAre
<1>2. ASSUME NEW o \in VariablesHere
      PROVE  LoadVar(native, o) = Var(interpreter, o) /\ Var(interpreter, o) \in Word
  BY <1>1, SameVariable DEF GoTogether
<1>3. PICK x \in Word : x = Var(interpreter, Here.a) /\ x = LoadVar(native, Here.a)
  BY <1>0, <1>1, <1>2
<1>4. CASE Here.op \in {"CMPIi", "CMPIu"}
  <2>1. Here.q[1] \in Word
    BY <1>1
  <2>2. ComparedWith(Here, interpreter) = Here.q[1]
    BY <1>4 DEF ComparedWith
  <2>3. CompareFlags(Here, native) = Compare(x, Here.q[1])
    BY <1>3, <1>4 DEF CompareFlags
  <2> QED  BY <1>3, <2>1, <2>2, <2>3
<1>5. CASE Here.op \notin {"CMPIi", "CMPIu"}
  <2>1. PICK y \in Word : y = Var(interpreter, Here.b) /\ y = LoadVar(native, Here.b)
    <3>1. Here.op \in {"CMPi", "CmpPtr", "CMPu"}
      BY <1>5 DEF ComparedOps
    <3>2. Here.b \in VariablesHere
      BY <1>0, <1>5, <3>1
    <3> QED  BY <1>1, <1>2, <3>2
  <2>2. ComparedWith(Here, interpreter) = y
    BY <1>5, <2>1 DEF ComparedWith
  <2>3. Here.op \in {"CMPi", "CmpPtr", "CMPu"}
    BY <1>5 DEF ComparedOps
  <2>4. CompareFlags(Here, native) = Compare(x, y)
    BY <1>3, <2>1, <2>3 DEF CompareFlags
  <2> QED  BY <1>3, <2>1, <2>2, <2>4
<1> QED  BY <1>4, <1>5

\* Machines that differ in the value register at most are in the same state.
LEMMA SameButValueRegister ==
  ASSUME NEW m, IsMachineState(m), NEW n, IsMachineState(n), SameState(m, n),
         NEW u, ButValueRegister(u, m), {"mem", "reg"} \subseteq DOMAIN u,
         NEW v, ButValueRegister(v, n)
  PROVE  SameState(u, v)
<1>1. IsMachine(m) /\ IsMachine(u)
  BY DEF IsMachineState, IsMachine, Fields, ButValueRegister
<1>2. View(u) = View(m)
  <2>1. u.mem = m.mem /\ u.reg = m.reg
    BY DEF ButValueRegister
  <2> QED  BY <1>1, <2>1, ViewOfMachine
<1> QED  BY <1>2 DEF SameState, ButValueRegister

\* The step and what the interpreter does in its place.
LEMMA FusedStep ==
  ASSUME ControlInv, FunctionTypeOK, GoTogether, RunFusedComparison, Follow, ~SignOfOverflow'
  PROVE  mode' = "native"
<1>1. mode = "native" /\ plan.fusion[pc].span > 0
  BY Zenon DEF RunFusedComparison
<1>2. /\ WellFormed(program) /\ HasCode(program, plan, pc) /\ pc \in Positions(program)
      /\ pc \in Nat /\ Here.op = Op(program, pc) /\ Len(program.code) \in Nat
  BY <1>1, Setting
<1>3. PICK f : f = plan.fusion[pc]
  OBVIOUS
<1>4. ComparisonBranchFusion(program, pc) = f
  BY <1>1, <1>2, <1>3, Setting, PlanFields
<1>5. f.span > 0 /\ Here.op \in ComparedOps
  BY <1>1, <1>2, <1>3, <1>4, FusionSpanFits
<1>6. PICK branch : branch = pc + f.span
  OBVIOUS
<1>7. /\ branch \in Positions(program) /\ IsBranch(Op(program, branch))
      /\ branch + 1 \in Positions(program) /\ program.code[branch].to \in Positions(program)
  <2>1. /\ branch \in Positions(program) /\ IsBranch(Op(program, branch))
        /\ HasCode(program, plan, branch + 1)
    BY <1>1, <1>2, <1>3, <1>6, Setting, FusedHasCode
  <2> QED  BY <1>2, <2>1, BranchTarget DEF HasCode
<1>8. PICK x \in Word, y \in Word :
        /\ x = Var(interpreter, Here.a) /\ y = ComparedWith(Here, interpreter)
        /\ CompareFlags(Here, native) = Compare(x, y)
  BY <1>1, <1>5, ComparedWords
<1>9. PICK taken : taken = FusedTaken(f.op, IsUnsignedCompare(Here.op), Compare(x, y))
  OBVIOUS
<1>10. PICK next : next = IF taken THEN program.code[branch].to ELSE branch + 1
  OBVIOUS
<1>11. PICK m : /\ GoOn(next, m, f.span + 1)
                /\ m = native \/ \E w : m = SetResult(native, w)
  <2>1. LET fusion == plan.fusion[pc]
            jump == pc + fusion.span
            goes == FusedTaken(fusion.op, IsUnsignedCompare(Here.op),
                               CompareFlags(Here, native))
        IN  IF goes THEN GoOn(program.code[jump].to, native, fusion.span + 1)
            ELSE GoOn(jump + 1,
                      IF fusion.fall = 2 THEN native
                      ELSE SetResult(native, Half(fusion.fall)), fusion.span + 1)
    BY Zenon DEF RunFusedComparison
  <2>2. IF taken THEN GoOn(program.code[branch].to, native, f.span + 1)
        ELSE GoOn(branch + 1, IF f.fall = 2 THEN native
                              ELSE SetResult(native, Half(f.fall)), f.span + 1)
    BY <1>3, <1>6, <1>8, <1>9, <2>1, Zenon
  <2>3. CASE taken
    <3>1. GoOn(next, native, f.span + 1)
      BY <1>10, <2>2, <2>3
    <3> QED  BY <3>1
  <2>4. CASE ~taken
    <3>1. PICK u : u = IF f.fall = 2 THEN native ELSE SetResult(native, Half(f.fall))
      OBVIOUS
    <3>2. GoOn(next, u, f.span + 1)
      BY <1>10, <2>2, <2>4, <3>1
    <3>3. u = native \/ \E w : u = SetResult(native, w)
      BY <3>1
    <3> QED  BY <3>2, <3>3
  <2> QED  BY <2>3, <2>4
<1>12. /\ pc' = next /\ native' = m
       /\ from'.mode = "native" /\ from'.to = "native" /\ from'.pc = pc
       /\ from'.m = native /\ from'.count = f.span + 1 /\ from'.event.kind = "none"
  BY <1>1, <1>11 DEF GoOn, Advance, NoEvent
<1>13. program' = program /\ plan' = plan
  BY FollowKeeps
<1>14. LooksAtSign(Here.op, f.op) => ~Compare(x, y).overflow
  <2>1. SUFFICES ASSUME LooksAtSign(Here.op, f.op), Compare(x, y).overflow PROVE FALSE
    OBVIOUS
  <2>2. WasNative'
    BY <1>12 DEF WasNative
  <2>3. At(from.pc)' = Here
    BY <1>12, <1>13 DEF At, Here
  <2>4. f.span > 0 /\ f.op \in {"JS", "JNS"} /\ ~IsUnsignedCompare(Here.op)
    BY <1>5, <2>1 DEF LooksAtSign
  <2>5. CompareFlags(Here, native).overflow
    BY <1>8, <2>1
  <2>6. SignOfOverflow'
    BY <1>3, <1>12, <1>13, <2>2, <2>3, <2>4, <2>5 DEF SignOfOverflow
  <2> QED  BY <2>6
<1>15. /\ IsMachineState(native) /\ IsMachineState(interpreter) /\ ipc = pc
       /\ SameState(native, interpreter)
  BY <1>1 DEF FunctionTypeOK, GoTogether, Together, WayIsKnown
<1>16. PICK r : r = InterpretMany(program, pc, interpreter, f.span + 1, "none")
  OBVIOUS
<1>17. r.pc = next /\ ButValueRegister(r.m, interpreter)
  <2>1. pc \in Int /\ program.code[pc] = Here
    BY <1>2 DEF Here
  <2>2. ~OverflowMatters(Here.op, f.op, x, y)
    BY <1>14 DEF OverflowMatters
  <2>3. StartsFused(program, pc, f, interpreter, Here, x, y)
    BY <1>2, <1>4, <1>5, <1>8, <1>15, <2>1, <2>2 DEF StartsFused
  <2>4. /\ InterpretMany(program, pc, interpreter, f.span + 1, "none").pc =
             FusedTarget(program, pc, f, Here.op, x, y)
        /\ ButValueRegister(InterpretMany(program, pc, interpreter, f.span + 1, "none").m,
                            interpreter)
    BY <2>3, FusedIsInterpreted, Zenon
  <2>5. FusedTarget(program, pc, f, Here.op, x, y) = next
    BY <1>6, <1>9, <1>10 DEF FusedTarget
  <2> QED  BY <1>16, <2>4, <2>5
<1>18. FollowTo(r)
  <2>1. FollowTo(InterpretMany(program, ipc, interpreter, from'.count, from'.event.kind))
    BY Zenon DEF Follow
  <2>2. InterpretMany(program, ipc, interpreter, from'.count, from'.event.kind) = r
    BY <1>12, <1>15, <1>16
  <2> QED  BY <2>1, <2>2, Zenon
<1>19. SameState(m, r.m)
  <2>1. ButValueRegister(m, native) /\ {"mem", "reg"} \subseteq DOMAIN m
    <3>1. CASE m = native
      BY <1>15, <3>1 DEF ButValueRegister, IsMachineState, Fields
    <3>2. ASSUME NEW w, m = SetResult(native, w)
          PROVE  ButValueRegister(m, native) /\ {"mem", "reg"} \subseteq DOMAIN m
      <4>1. ButValueRegister(m, native)
        BY <1>15, <3>2, ResultIsSet
      <4>2. DOMAIN m = DOMAIN native /\ DOMAIN native = Fields
        BY <1>15, <3>2 DEF SetResult, IsMachineState
      <4> QED  BY <4>1, <4>2 DEF Fields
    <3> QED  BY <1>11, <3>1, <3>2
  <2> QED  BY <1>15, <1>17, <2>1, SameButValueRegister
<1>20. next # 0
  BY <1>7, <1>10 DEF Positions
<1>21. pc' = r.pc /\ SameState(native', r.m) /\ SameEnd(pc', native', r.m) /\ pc' # 0
  BY <1>12, <1>17, <1>19, <1>20 DEF SameEnd
<1>22. mode' = from'.to
  BY <1>18, <1>21 DEF FollowTo
<1> QED  BY <1>12, <1>22

-----------------------------------------------------------------------------
(* The other steps that move control.                                     *)

\* A branch that looks at the value register goes the same way in native code,
\* which compares it with zero.
LEMMA JumpMeans ==
  ASSUME NEW op, IsBranch(op), NEW m, m.vr[1] \in Word
  PROVE  JumpTaken(op, m) = Branches(op, m)
<1>1. PICK v \in Word : v = m.vr[1]
  OBVIOUS
<1>2. PICK s \in Int : s = Signed(v, WordBits) /\ (s = 0 <=> v = 0)
  BY SignedWord
<1>3. PICK f : f = Compare(v, 0)
  OBVIOUS
<1>4. /\ f.zero \in BOOLEAN /\ f.sign \in BOOLEAN /\ f.overflow \in BOOLEAN
  BY <1>3, SMT DEF Compare, IsNegative
<1>5. /\ f.zero <=> v = 0
      /\ SignedLess(f) <=> s < 0
      /\ SignedGreater(f) <=> s > 0
  <2>1. 0 \in Word /\ Signed(0, WordBits) = 0
    BY WordIsNat, SignedWord
  <2> QED  BY <1>2, <1>3, <2>1, CompareMeans
<1>6. ~f.overflow
  <2>1. Low(v - 0, WordBits) = v
    <3>1. v - 0 = v
      BY WordIsNat
    <3> QED  BY <3>1, LowOfWord
  <2>2. Signed(0, WordBits) = 0
    BY WordIsNat, SignedWord
  <2>3. f.overflow <=> s - 0 # s
    BY <1>2, <1>3, <2>1, <2>2 DEF Compare
  <2>4. s - 0 = s
    OBVIOUS
  <2> QED  BY <2>3, <2>4
<1>7. f.sign <=> s < 0
  BY <1>4, <1>5, <1>6 DEF SignedLess
<1>8. CASE op \in {"JMP", "JLowZ", "JLowNZ"}
  BY <1>8 DEF JumpTaken, Branches
<1>9. CASE op \in {"JZ", "JNZ"}
  <2>1. Branches(op, m) = IF op = "JZ" THEN s = 0 ELSE s # 0
    BY <1>1, <1>2, <1>9 DEF Branches
  <2>2. JumpTaken(op, m) = IF op = "JZ" THEN f.zero ELSE ~f.zero
    BY <1>1, <1>3, <1>9 DEF JumpTaken
  <2> QED  BY <1>2, <1>4, <1>5, <2>1, <2>2
<1>10. CASE op \in {"JS", "JNS"}
  <2>1. Branches(op, m) = IF op = "JS" THEN s < 0 ELSE s >= 0
    BY <1>1, <1>2, <1>10 DEF Branches
  <2>2. JumpTaken(op, m) = IF op = "JS" THEN f.sign ELSE ~f.sign
    BY <1>1, <1>3, <1>10 DEF JumpTaken
  <2>3. s >= 0 <=> ~(s < 0)
    OBVIOUS
  <2> QED  BY <1>4, <1>7, <2>1, <2>2, <2>3
<1>11. CASE op \in {"JP", "JNP"}
  <2>1. PICK c \in BOOLEAN : c = SignedGreater(f)
    BY <1>4, Zenon DEF SignedGreater
  <2>2. Branches(op, m) = IF op = "JP" THEN s > 0 ELSE s <= 0
    BY <1>1, <1>2, <1>11 DEF Branches
  <2>3. JumpTaken(op, m) = IF op = "JP" THEN c ELSE ~c
    BY <1>1, <1>3, <1>11, <2>1 DEF JumpTaken
  <2>4. s <= 0 <=> ~(s > 0)
    OBVIOUS
  <2> QED  BY <1>5, <2>1, <2>2, <2>3, <2>4
<1> QED  BY <1>8, <1>9, <1>10, <1>11 DEF IsBranch, IsConditionalBranch

\* One instruction.
LEMMA OneInterpreted ==
  ASSUME NEW P, NEW k, NEW m, NEW event
  PROVE  InterpretMany(P, k, m, 1, event) = InterpretOne(P, k, m, event)
<1> DEFINE start == [pc |-> k, m |-> m]
           one == InterpretOne(P, k, m, event)
           Is(g) == g = [n \in 0..1 |->
                           IF n = 0 THEN [pc |-> k, m |-> m]
                           ELSE InterpretOne(P, g[n - 1].pc, g[n - 1].m, event)]
           run == [n \in 0..1 |-> IF n = 0 THEN start ELSE one]
           many == CHOOSE g : Is(g)
<1>1. Is(run)
  <2>1. run[0] = start /\ run[1] = one /\ start.pc = k /\ start.m = m
    <3> HIDE DEF one
    <3> QED  OBVIOUS
  <2>2. PICK g : g = run
    OBVIOUS
  <2>3. /\ g = [n \in 0..1 |-> g[n]] /\ g[0] = [pc |-> k, m |-> m]
        /\ g[1] = InterpretOne(P, g[1 - 1].pc, g[1 - 1].m, event)
    <3>1. 1 - 1 = 0
      OBVIOUS
    <3>2. g = [n \in 0..1 |-> g[n]]
      BY <2>2
    <3> HIDE DEF run, start
    <3>3. g[0].pc = k /\ g[0].m = m /\ g[1] = one
      BY <2>1, <2>2
    <3>4. g[0] = [pc |-> k, m |-> m]
      BY <2>1, <2>2 DEF start
    <3> QED  BY <3>1, <3>2, <3>3, <3>4, Zenon
  <2>4. 0..1 = {0, 1}
    OBVIOUS
  <2> HIDE DEF run, start, one
  <2>5. Is(g)
    BY <2>3, <2>4
  <2> HIDE DEF Is
  <2> QED  BY <2>2, <2>5
<1>2. Is(many)
  <2> HIDE DEF Is, run
  <2> QED  BY <1>1
<1>3. InterpretMany(P, k, m, 1, event) = many[1]
  BY DEF InterpretMany
<1> HIDE DEF many, run, start
<1>4. many[0] = [pc |-> k, m |-> m]
  BY <1>2
<1>5. many[1] = InterpretOne(P, many[0].pc, many[0].m, event)
  BY <1>2
<1> QED  BY <1>3, <1>4, <1>5

\* What leaves native code or enters it keeps what the program sees.
LEMMA ViewLeaves ==
  ASSUME NEW m, IsMachine(m)
  PROVE  /\ View(Interpreted(m)) = View(m)
         /\ \A f \in {"sp", "object", "exc", "vr"} \intersect DOMAIN m :
              Interpreted(m)[f] = m[f]
<1>1. PICK n : n = FlushCachedLocals(m)
  OBVIOUS
<1>2. /\ n.mem = View(m) /\ IsMachine(n) /\ DOMAIN n = DOMAIN m
      /\ \A f \in {"sp", "object", "exc", "vr"} \intersect DOMAIN m : n[f] = m[f]
  <2>1. n = [m EXCEPT !.mem = View(m)]
    BY <1>1, FlushWritesFrame DEF FlushCachedLocals
  <2>2. n.mem = View(m) /\ IsMachine(n)
    BY <1>1, FlushWritesFrame
  <2> QED  BY <2>1, <2>2
<1>3. PICK l : l = [n EXCEPT !.reg = NoRegisters]
  OBVIOUS
<1>4. l = Interpreted(m)
  BY <1>1, <1>3 DEF Interpreted
<1>5. /\ l.mem = n.mem /\ l.reg = NoRegisters /\ IsMachine(l)
      /\ \A f \in {"sp", "object", "exc", "vr"} \intersect DOMAIN m : l[f] = n[f]
  <2>1. l.mem = n.mem /\ l.reg = NoRegisters /\ DOMAIN l = DOMAIN n
    BY <1>2, <1>3 DEF IsMachine
  <2>2. IsMachine(l)
    BY <1>2, <2>1 DEF IsMachine, NoRegisters
  <2> QED  BY <1>2, <1>3, <2>1, <2>2
<1>6. View(l) = l.mem
  <2>1. View(l) = [a \in DOMAIN l.mem |->
                     IF Fp - a \in DOMAIN l.reg THEN l.reg[Fp - a] ELSE l.mem[a]]
    BY <1>5, ViewOfMachine
  <2>2. DOMAIN l.reg = {}
    BY <1>5 DEF NoRegisters
  <2>3. l.mem = [a \in DOMAIN l.mem |-> l.mem[a]]
    BY <1>5 DEF IsMachine
  <2> QED  BY <2>1, <2>2, <2>3
<1> QED  BY <1>2, <1>4, <1>5, <1>6

\* Leaving native code, with the cached locals written back, leaves the
\* program's state as it was.
LEMMA StateLeaves ==
  ASSUME NEW m, IsMachineState(m), NEW n, SameState(m, n)
  PROVE  SameState(Interpreted(m), n) /\ Interpreted(m).vr = m.vr
                                      /\ Interpreted(m).exc = m.exc
<1>1. IsMachine(m) /\ {"sp", "object", "exc", "vr"} \subseteq DOMAIN m
  BY DEF IsMachineState, IsMachine, Fields
<1> QED  BY <1>1, ViewLeaves DEF SameState

\* A step after which the interpreter is where native code is, in the same state.
LEMMA StaysTogether ==
  ASSUME NEW to, to # "apart", NEW next, NEW m, NEW count,
         Advance(to, next, m, count, NoShadow, NoEvent), Follow, Together,
         mode = "native",
         NEW r, r = InterpretMany(program, pc, interpreter, count, "none"),
         r.pc = next, SameState(m, r.m), SameEnd(next, m, r.m)
  PROVE  mode' # "apart"
<1>1. /\ pc' = next /\ native' = m /\ from'.to = to /\ from'.count = count
      /\ from'.event.kind = "none"
  BY DEF Advance, NoEvent
<1>2. FollowTo(r)
  <2>1. FollowTo(InterpretMany(program, ipc, interpreter, from'.count, from'.event.kind))
    BY Zenon DEF Follow
  <2>2. InterpretMany(program, ipc, interpreter, from'.count, from'.event.kind) = r
    BY <1>1 DEF Together
  <2> QED  BY <2>1, <2>2, Zenon
<1>3. pc' = r.pc /\ SameState(native', r.m) /\ SameEnd(pc', native', r.m)
  BY <1>1
<1> QED  BY <1>1, <1>2, <1>3 DEF FollowTo

\* The interpreter at the other control instructions.
LEMMA ControlAt ==
  ASSUME NEW P, NEW k, NEW m, NEW event
  PROVE  /\ Op(P, k) \in {"JitEntry", "SUSPEND"} =>
              InterpretOne(P, k, m, event) = [pc |-> k + 1, m |-> m]
         /\ Op(P, k) = "RET" => InterpretOne(P, k, m, event) = [pc |-> 0, m |-> m]
         /\ Op(P, k) = "JMPP" =>
              InterpretOne(P, k, m, event) = [pc |-> k + 1 + Var(m, P.code[k].a), m |-> m]
<1>1. PICK i : i = P.code[k] /\ i.op = Op(P, k)
  BY DEF Op
<1>2. ASSUME i.op \in {"JitEntry", "SUSPEND"}
      PROVE  InterpretOne(P, k, m, event) = [pc |-> k + 1, m |-> m]
  <2>1. /\ ~IsBranch(i.op) /\ i.op # "JMPP" /\ i.op # "RET" /\ i.op # "CALLSYS"
        /\ i.op # "AllocApp" /\ i.op \notin CallOps
    BY <1>2 DEF IsBranch, IsConditionalBranch, CallOps
  <2> QED  BY <1>1, <1>2, <2>1 DEF InterpretOne
<1>3. ASSUME i.op = "RET"
      PROVE  InterpretOne(P, k, m, event) = [pc |-> 0, m |-> m]
  <2>1. /\ ~IsBranch(i.op) /\ i.op # "JMPP" /\ i.op \notin {"JitEntry", "SUSPEND"}
        /\ i.op # "CALLSYS" /\ i.op # "AllocApp" /\ i.op \notin CallOps
    BY <1>3 DEF IsBranch, IsConditionalBranch, CallOps
  <2> QED  BY <1>1, <1>3, <2>1 DEF InterpretOne
<1>4. ASSUME i.op = "JMPP"
      PROVE  InterpretOne(P, k, m, event) = [pc |-> k + 1 + Var(m, i.a), m |-> m]
  <2>1. /\ ~IsBranch(i.op) /\ i.op # "RET" /\ i.op \notin {"JitEntry", "SUSPEND"}
        /\ i.op # "CALLSYS" /\ i.op # "AllocApp" /\ i.op \notin CallOps
    BY <1>4 DEF IsBranch, IsConditionalBranch, CallOps
  <2> QED  BY <1>1, <1>4, <2>1 DEF InterpretOne
<1> QED  BY <1>1, <1>2, <1>3, <1>4

\* A branch in native code goes the way the interpreter's goes.
LEMMA BranchStep ==
  ASSUME ControlInv, FunctionTypeOK, GoTogether, RunBranch, Follow
  PROVE  mode' # "apart"
<1>1. /\ mode = "native" /\ IsBranch(Here.op)
      /\ GoOn(IF JumpTaken(Here.op, native) THEN Here.to ELSE pc + 1, native, 1)
  BY Zenon DEF RunBranch
<1>2. /\ WellFormed(program) /\ pc \in Positions(program) /\ pc \in Nat
      /\ Here.op = Op(program, pc) /\ Here = program.code[pc]
  BY <1>1, Setting DEF Here
<1>3. JumpTaken(Here.op, native) = Branches(Here.op, interpreter)
  <2>1. CASE Here.op = "JMP"
    BY <2>1 DEF JumpTaken, Branches
  <2>2. CASE IsConditionalBranch(Here.op)
    <3>1. native.vr[1] = interpreter.vr[1] /\ native.vr[1] \in Word
      BY <1>1, <2>2 DEF GoTogether, WayIsKnown, FunctionTypeOK, IsMachineState
    <3>2. Branches(Here.op, native) = Branches(Here.op, interpreter)
      BY <3>1 DEF Branches
    <3> QED  BY <1>1, <3>1, <3>2, JumpMeans
  <2> QED  BY <1>1, <2>1, <2>2 DEF IsBranch
<1>4. PICK next : next = IF Branches(Here.op, interpreter) THEN Here.to ELSE pc + 1
  OBVIOUS
<1>5. next # 0
  BY <1>1, <1>2, <1>4, BranchTarget DEF Positions
<1>6. Advance("native", next, native, 1, NoShadow, NoEvent)
  <2>1. GoOn(next, native, 1)
    BY <1>1, <1>3, <1>4
  <2> QED  BY <2>1, Zenon DEF GoOn
<1>7. PICK r : r = [pc |-> next, m |-> interpreter]
  OBVIOUS
<1>8. r = InterpretMany(program, pc, interpreter, 1, "none")
  <2>1. InterpretOne(program, pc, interpreter, "none") = r
    BY <1>1, <1>2, <1>4, <1>7, BranchesAt
  <2> QED  BY <2>1, OneInterpreted
<1>9. r.pc = next /\ r.m = interpreter
  BY <1>7
<1>10. SameState(native, r.m) /\ SameEnd(next, native, r.m)
  BY <1>1, <1>5, <1>9 DEF GoTogether, Together, SameEnd
<1> QED  BY <1>1, <1>6, <1>8, <1>9, <1>10, StaysTogether DEF GoTogether

\* An entry, and a suspension that leaves or goes on.
LEMMA EntryStep ==
  ASSUME ControlInv, FunctionTypeOK, GoTogether, RunJitEntry \/ RunSuspend, Follow
  PROVE  mode' # "apart"
<1>1. /\ mode = "native" /\ Here.op \in {"JitEntry", "SUSPEND"}
      /\ \/ Advance("native", pc + 1, native, 1, NoShadow, NoEvent)
         \/ Advance("interpreter", pc + 1, Interpreted(native), 1, NoShadow, NoEvent)
  BY Zenon DEF RunJitEntry, RunSuspend, IsNative, GoOn
<1>2. /\ pc \in Nat /\ Here.op = Op(program, pc) /\ pc + 1 # 0
  BY <1>1, Setting
<1>3. PICK r : r = [pc |-> pc + 1, m |-> interpreter]
  OBVIOUS
<1>4. r = InterpretMany(program, pc, interpreter, 1, "none")
  <2>1. InterpretOne(program, pc, interpreter, "none") = r
    BY <1>1, <1>2, <1>3, ControlAt
  <2> QED  BY <2>1, OneInterpreted
<1>5. r.pc = pc + 1 /\ r.m = interpreter
  BY <1>3
<1>6. SameState(native, r.m) /\ SameState(Interpreted(native), r.m)
  BY <1>1, <1>5, StateLeaves DEF GoTogether, Together, FunctionTypeOK
<1>7. SameEnd(pc + 1, native, r.m) /\ SameEnd(pc + 1, Interpreted(native), r.m)
  BY <1>2 DEF SameEnd
<1>8. "native" # "apart" /\ "interpreter" # "apart"
  OBVIOUS
<1> QED  BY <1>1, <1>4, <1>5, <1>6, <1>7, <1>8, StaysTogether DEF GoTogether

\* A return in native code ends with the interpreter's result.
LEMMA ReturnStep ==
  ASSUME ControlInv, FunctionTypeOK, GoTogether, RunReturn, Follow
  PROVE  mode' # "apart"
<1>1. /\ mode = "native" /\ Here.op = "RET"
      /\ Advance("done", 0, Interpreted(native), 1, NoShadow, NoEvent)
  BY Zenon DEF RunReturn, IsNative
<1>2. Here.op = Op(program, pc)
  BY <1>1, Setting
<1>3. PICK r : r = [pc |-> 0, m |-> interpreter]
  OBVIOUS
<1>4. r = InterpretMany(program, pc, interpreter, 1, "none")
  <2>1. InterpretOne(program, pc, interpreter, "none") = r
    BY <1>1, <1>2, <1>3, ControlAt
  <2> QED  BY <2>1, OneInterpreted
<1>5. r.pc = 0 /\ r.m = interpreter
  BY <1>3
<1>6. SameState(Interpreted(native), r.m) /\ Interpreted(native).vr = native.vr
  BY <1>1, <1>5, StateLeaves DEF GoTogether, Together, FunctionTypeOK
<1>7. SameEnd(0, Interpreted(native), r.m)
  BY <1>1, <1>5, <1>6 DEF GoTogether, WayIsKnown, SameEnd
<1>8. "done" # "apart"
  OBVIOUS
<1> QED  BY <1>1, <1>4, <1>5, <1>6, <1>7, <1>8, StaysTogether DEF GoTogether

\* Through the comparisons of a jump table, which stand for the JMPP and the JMP
\* it leads to, or to BcJmpP.
LEMMA JumpTableStep ==
  ASSUME ControlInv, FunctionTypeOK, GoTogether, RunJumpTable, Follow
  PROVE  mode' # "apart"
<1> DEFINE compared == {n \in 0..Len(program.code) - pc - 1 :
                          \A j \in 0..n : Op(program, pc + 1 + j) = "JMP"}
<1>1. mode = "native" /\ Here.op = "JMPP"
  BY Zenon DEF RunJumpTable, IsNative
<1>2. /\ WellFormed(program) /\ pc \in Positions(program) /\ pc \in Nat
      /\ Here.op = Op(program, pc) /\ Len(program.code) \in Nat
      /\ Here = program.code[pc]
  BY <1>1, Setting DEF Here
<1>3. PICK s \in Word : s = LoadVar(native, Here.a) /\ s = Var(interpreter, Here.a)
  <2>1. /\ Here.a \in Int /\ Fp - Here.a >= native.sp
        /\ Fp - Here.a \in DOMAIN native.mem \intersect DOMAIN interpreter.mem
    <3>1. Here.a \in VariablesHere
      BY <1>1, VariablesAre
    <3> QED  BY <1>1, <3>1 DEF GoTogether, WayIsKnown
  <2> QED  BY <1>1, <2>1, SameVariable DEF GoTogether
<1>4. s \in Nat
  BY WordIsNat
<1>5. \/ s \in compared /\ GoOn(program.code[pc + 1 + s].to, native, 2)
      \/ Advance("interpreter", pc + 1 + s, Interpreted(native), 1, NoShadow, NoEvent)
  BY <1>3, Zenon DEF RunJumpTable
<1>6. PICK r : r = [pc |-> pc + 1 + s, m |-> interpreter]
  OBVIOUS
<1>7. r.pc = pc + 1 + s /\ r.m = interpreter
  BY <1>6
<1>8. r = InterpretOne(program, pc, interpreter, "none")
  BY <1>1, <1>2, <1>3, <1>6, ControlAt
<1>9. CASE s \in compared /\ GoOn(program.code[pc + 1 + s].to, native, 2)
  <2>1. PICK branch : branch = pc + 1 + s
    OBVIOUS
  <2>2. branch \in Positions(program) /\ Op(program, branch) = "JMP"
    <3>1. /\ s \in 0..Len(program.code) - pc - 1
          /\ \A j \in 0..s : Op(program, pc + 1 + j) = "JMP"
      BY <1>9
    <3>2. s \in 0..s
      BY <1>4
    <3>3. Op(program, branch) = "JMP"
      BY <2>1, <3>1, <3>2
    <3> QED  BY <1>2, <1>4, <2>1, <3>1, <3>3 DEF Positions
  <2>3. IsBranch(Op(program, branch))
    BY <2>2 DEF IsBranch
  <2>4. PICK next : next = program.code[branch].to /\ next # 0
    BY <1>2, <2>2, <2>3, BranchTarget DEF Positions
  <2>5. Advance("native", next, native, 2, NoShadow, NoEvent)
    <3>1. GoOn(next, native, 2)
      BY <1>9, <2>1, <2>4
    <3> QED  BY <3>1, Zenon DEF GoOn
  <2>6. PICK t : t = [pc |-> next, m |-> interpreter]
    OBVIOUS
  <2>7. t = InterpretOne(program, r.pc, r.m, "none")
    <3>1. Branches("JMP", interpreter)
      BY DEF Branches
    <3>2. InterpretOne(program, branch, interpreter, "none") = t
      BY <2>2, <2>3, <2>4, <2>6, <3>1, BranchesAt
    <3> QED  BY <1>7, <2>1, <3>2
  <2>8. t = InterpretMany(program, pc, interpreter, 2, "none")
    BY <1>8, <2>7, TwoInterpreted
  <2>9. t.pc = next /\ t.m = interpreter
    BY <2>6
  <2>10. SameState(native, t.m) /\ SameEnd(next, native, t.m)
    BY <1>1, <2>4, <2>9 DEF GoTogether, Together, SameEnd
  <2>11. "native" # "apart"
    OBVIOUS
  <2> HIDE DEF compared
  <2> QED  BY <1>1, <2>5, <2>8, <2>9, <2>10, <2>11, StaysTogether DEF GoTogether
<1>10. CASE Advance("interpreter", pc + 1 + s, Interpreted(native), 1, NoShadow, NoEvent)
  <2>1. r = InterpretMany(program, pc, interpreter, 1, "none")
    BY <1>8, OneInterpreted
  <2>2. SameState(Interpreted(native), r.m)
    BY <1>1, <1>7, StateLeaves DEF GoTogether, Together, FunctionTypeOK
  <2>3. SameEnd(pc + 1 + s, Interpreted(native), r.m)
    BY <1>2, <1>4 DEF SameEnd
  <2>4. "interpreter" # "apart"
    OBVIOUS
  <2> HIDE DEF compared
  <2> QED  BY <1>1, <1>7, <1>10, <2>1, <2>2, <2>3, <2>4, StaysTogether DEF GoTogether
<1> QED  BY <1>5, <1>9, <1>10

-----------------------------------------------------------------------------
(* Together.                                                               *)

\* A machine without registers has everything in memory.
LEMMA ViewWithoutRegisters ==
  ASSUME NEW m, IsMachineState(m), m.reg = NoRegisters
  PROVE  View(m) = m.mem
<1>1. IsMachine(m)
  BY DEF IsMachineState, IsMachine, Fields
<1>2. View(m) = [a \in DOMAIN m.mem |->
                   IF Fp - a \in DOMAIN m.reg THEN m.reg[Fp - a] ELSE m.mem[a]]
  BY <1>1, ViewOfMachine
<1>3. DOMAIN m.reg = {} /\ m.mem = [a \in DOMAIN m.mem |-> m.mem[a]]
  BY <1>1 DEF NoRegisters, IsMachine
<1> QED  BY <1>2, <1>3

\* The prologue loads what the program sees.
LEMMA EntersTogether ==
  ASSUME Together, FunctionTypeOK, FunctionTypeOK', EnterNative
  PROVE  Together'
<1>1. /\ mode = "interpreter" /\ mode' = "native" /\ native' = Entered(native)
      /\ pc' = pc /\ ipc' = ipc /\ interpreter' = interpreter /\ plan' = plan
  BY DEF EnterNative
<1>2. /\ IsMachineState(native) /\ native.reg = NoRegisters
      /\ ipc = pc /\ SameState(native, interpreter)
  BY <1>1 DEF FunctionTypeOK, Together
<1>3. IsMachineState(native') /\ DOMAIN native'.reg = plan.cached
  BY <1>1 DEF FunctionTypeOK
<1>4. PICK l : l = [native EXCEPT !.reg = [o \in plan.cached |-> 0]]
  OBVIOUS
<1>5. PICK e : e = native' /\ e = ReloadCachedLocals(l)
  BY <1>1, <1>4 DEF Entered
<1>6. /\ l.mem = native.mem /\ l.reg = [o \in plan.cached |-> 0]
      /\ DOMAIN l = Fields
  BY <1>2, <1>4 DEF IsMachineState, Fields
<1>7. /\ e.mem = native.mem
      /\ e.sp = native.sp /\ e.object = native.object /\ e.exc = native.exc
  BY <1>2, <1>4, <1>5, <1>6 DEF ReloadCachedLocals, IsMachineState, Fields
<1>8. IsMachine(l)
  <2>1. /\ DOMAIN native.mem \subseteq Int
        /\ native.mem = [a \in DOMAIN native.mem |-> native.mem[a]]
    BY <1>2 DEF IsMachineState
  <2>2. /\ plan.cached \subseteq Int
        /\ \A o \in plan.cached : Fp - o \in DOMAIN native.mem
    BY <1>3, <1>5, <1>7 DEF IsMachineState
  <2>3. {"mem", "reg"} \subseteq DOMAIN l /\ DOMAIN l.reg = plan.cached
    BY <1>6 DEF Fields
  <2> QED  BY <1>6, <2>1, <2>2, <2>3 DEF IsMachine
<1>9. View(e) = native.mem
  BY <1>5, <1>6, <1>8, ReloadReadsFrame
<1>10. View(native) = native.mem
  BY <1>2, ViewWithoutRegisters
<1>11. SameState(e, interpreter)
  BY <1>2, <1>7, <1>9, <1>10 DEF SameState
<1> QED  BY <1>1, <1>2, <1>5, <1>11 DEF Together

\* Both start at the same instruction in the same state.
LEMMA TogetherInit == Init /\ FunctionTypeOK => Together
<1> SUFFICES ASSUME Init, FunctionTypeOK PROVE Together
  OBVIOUS
<1>1. mode = "interpreter" /\ ipc = pc /\ interpreter = native
  BY DEF Init
<1>2. View(native) = native.mem
  BY <1>1, ViewWithoutRegisters DEF FunctionTypeOK
<1> QED  BY <1>1, <1>2 DEF Together, SameState

\* Every step after which they are not apart keeps them together, the entry
\* through its prologue.
LEMMA TogetherNext ==
  Together /\ FunctionTypeOK /\ FunctionTypeOK' /\ [Next]_codeVars => Together'
<1> SUFFICES ASSUME Together, FunctionTypeOK, FunctionTypeOK', [Next]_codeVars
             PROVE  Together'
  OBVIOUS
<1>1. CASE EnterNative
  BY <1>1, EntersTogether
<1>2. CASE RunOrInterpret /\ Follow
  <2>1. PICK r : FollowTo(r)
    BY <1>2, Zenon DEF Follow
  <2>2. SUFFICES ASSUME mode' \in {"native", "interpreter"}
                 PROVE  ipc' = pc' /\ SameState(native', interpreter')
    BY DEF Together, SameState
  <2>3. mode' # "apart"
    BY <2>2
  <2> QED  BY <2>1, <2>3 DEF FollowTo
<1>3. CASE UNCHANGED codeVars
  BY <1>3 DEF codeVars, Together
<1> QED  BY <1>1, <1>2, <1>3 DEF Next

\* As long as neither is done nor has parted from the other, native code and the
\* interpreter are at the same instruction in the same state: in particular after
\* each entry from the interpreter, where the prologue loads the cached locals,
\* and after each exit to it, which writes them back.
THEOREM StaysTogetherUntilApart == Spec /\ []FunctionTypeOK => []Together
BY TogetherInit, TogetherNext, PTL DEF Spec

\* The steps by which control moves without an instruction's own work.
ControlStep ==
  RunFusedComparison \/ RunBranch \/ RunJumpTable \/ RunJitEntry \/ RunSuspend
    \/ RunReturn

\* A comparison fused with its branch, a branch, a jump table, an entry, a
\* suspension and a return bring native code where the interpreter comes, and
\* leave the program in the same state, whatever the function and its values are.
\* The one exception is a fused comparison whose branch looks at the sign of a
\* signed difference that overflows (js and jns in EmitComparisonBranch).
THEOREM ControlStepsAgree ==
  Spec /\ []FunctionTypeOK /\ []WayIsKnown =>
    [][ControlStep /\ Follow => mode' # "apart" \/ SignOfOverflow']_codeVars
<1>1. ASSUME ControlInv, FunctionTypeOK, Together, WayIsKnown, [Next]_codeVars
      PROVE  [ControlStep /\ Follow => mode' # "apart" \/ SignOfOverflow']_codeVars
  <2>1. GoTogether
    BY <1>1 DEF GoTogether
  <2>2. ASSUME RunFusedComparison, Follow PROVE mode' # "apart" \/ SignOfOverflow'
    <3>1. "native" # "apart"
      OBVIOUS
    <3> QED  BY <1>1, <2>1, <2>2, <3>1, FusedStep
  <2> QED  BY <1>1, <2>1, <2>2, BranchStep, JumpTableStep, EntryStep, ReturnStep
           DEF ControlStep
<1> QED  BY <1>1, ControlInvariant, StaysTogetherUntilApart, PTL DEF Spec

-----------------------------------------------------------------------------
(* Any number of instructions one after the other.                         *)

\* What is reached after n instructions, as the recursive function has it.
Runs(f, n, P, start, event) ==
  /\ f = [j \in 0..n |-> f[j]]
  /\ \A j \in 0..n : f[j] = IF j = 0 THEN start
                            ELSE InterpretOne(P, f[j - 1].pc, f[j - 1].m, event)

\* A sequence of runs at each of its places.
LEMMA RunsAt ==
  ASSUME NEW P, NEW start, NEW event, NEW n, NEW f, Runs(f, n, P, start, event),
         NEW j \in 0..n
  PROVE  f[j] = IF j = 0 THEN start
                ELSE InterpretOne(P, f[j - 1].pc, f[j - 1].m, event)
BY Zenon DEF Runs

\* The interpreter can be run for any number of instructions.
LEMMA RunsExist ==
  ASSUME NEW P, NEW start, NEW event, NEW n \in Nat
  PROVE  \E f : Runs(f, n, P, start, event)
<1> DEFINE S == {k \in Nat : \E f : Runs(f, k, P, start, event)}
<1>1. 0 \in S
  <2> DEFINE f == [k \in 0..0 |-> start]
  <2>1. Runs(f, 0, P, start, event)
    BY DEF Runs
  <2> HIDE DEF f
  <2> QED  BY <2>1
<1>2. ASSUME NEW k \in Nat, k \in S PROVE k + 1 \in S
  <2>1. PICK g : Runs(g, k, P, start, event)
    BY <1>2
  <2>2. PICK next : next = InterpretOne(P, g[k].pc, g[k].m, event)
    OBVIOUS
  <2> DEFINE f == [j \in 0..k + 1 |-> IF j = k + 1 THEN next ELSE g[j]]
  <2>3. \A j \in 0..k + 1 : f[j] = IF j = 0 THEN start
                                   ELSE InterpretOne(P, f[j - 1].pc, f[j - 1].m, event)
    <3> SUFFICES ASSUME NEW j \in 0..k + 1
                 PROVE  f[j] = IF j = 0 THEN start
                               ELSE InterpretOne(P, f[j - 1].pc, f[j - 1].m, event)
      OBVIOUS
    <3>1. CASE j = k + 1
      <4>1. f[j] = next /\ f[j - 1] = g[k] /\ j # 0
        BY <3>1
      <4> HIDE DEF f
      <4> QED  BY <2>2, <4>1
    <3>2. CASE j # k + 1
      <4>1. j \in 0..k /\ f[j] = g[j] /\ (j # 0 => f[j - 1] = g[j - 1])
        BY <3>2
      <4>2. g[j] = IF j = 0 THEN start ELSE InterpretOne(P, g[j - 1].pc, g[j - 1].m, event)
        BY <2>1, <4>1 DEF Runs
      <4> HIDE DEF f
      <4> QED  BY <4>1, <4>2
    <3> QED  BY <3>1, <3>2
  <2>4. f = [j \in 0..k + 1 |-> f[j]]
    OBVIOUS
  <2>5. Runs(f, k + 1, P, start, event)
    <3> HIDE DEF f
    <3> QED  BY <2>3, <2>4 DEF Runs
  <2> HIDE DEF f
  <2> QED  BY <2>5
<1>3. \A k \in Nat : k \in S
  <2> HIDE DEF S
  <2> QED  BY <1>1, <1>2, SetInduction
<1> QED  BY <1>3

\* Two sequences from the same start agree as far as both go.
LEMMA RunsAgree ==
  ASSUME NEW P, NEW start, NEW event, NEW m \in Nat, NEW n \in Nat, NEW f, NEW g,
         Runs(f, m, P, start, event), Runs(g, n, P, start, event)
  PROVE  \A k \in Nat : k <= m /\ k <= n => f[k] = g[k]
<1> DEFINE S == {k \in Nat : k <= m /\ k <= n => f[k] = g[k]}
<1>1. 0 \in S
  <2>1. 0 \in 0..m /\ 0 \in 0..n
    OBVIOUS
  <2>2. f[0] = start /\ g[0] = start
    BY <2>1, RunsAt
  <2> QED  BY <2>2
<1>2. ASSUME NEW k \in Nat, k \in S PROVE k + 1 \in S
  <2> SUFFICES ASSUME k + 1 <= m, k + 1 <= n PROVE f[k + 1] = g[k + 1]
    OBVIOUS
  <2>1. f[k] = g[k] /\ k + 1 \in 0..m /\ k + 1 \in 0..n /\ k + 1 # 0 /\ k + 1 - 1 = k
    BY <1>2
  <2>2. /\ f[k + 1] = InterpretOne(P, f[k + 1 - 1].pc, f[k + 1 - 1].m, event)
        /\ g[k + 1] = InterpretOne(P, g[k + 1 - 1].pc, g[k + 1 - 1].m, event)
    BY <2>1, RunsAt
  <2> QED  BY <2>1, <2>2
<1>3. \A k \in Nat : k \in S
  <2> HIDE DEF S
  <2> QED  BY <1>1, <1>2, SetInduction
<1> QED  BY <1>3

\* InterpretMany is the last place of such a sequence.
LEMMA ManyRuns ==
  ASSUME NEW P, NEW k, NEW m, NEW event, NEW count \in Nat,
         NEW start, start = [pc |-> k, m |-> m]
  PROVE  \E f : Runs(f, count, P, start, event) /\ InterpretMany(P, k, m, count, event) = f[count]
<1> DEFINE Is(g) == g = [n \in 0..count |->
                           IF n = 0 THEN [pc |-> k, m |-> m]
                           ELSE InterpretOne(P, g[n - 1].pc, g[n - 1].m, event)]
           many == CHOOSE g : Is(g)
<1>1. PICK f : Runs(f, count, P, start, event)
  BY RunsExist
<1>2. Is(f)
  BY <1>1 DEF Runs
<1>3. Is(many)
  <2> HIDE DEF Is
  <2> QED  BY <1>2
<1>4. Runs(many, count, P, start, event)
  <2>1. PICK g : g = many
    OBVIOUS
  <2>2. Is(g)
    BY <1>3, <2>1
  <2> HIDE DEF many
  <2>3. Runs(g, count, P, start, event)
    BY <2>2 DEF Runs
  <2> QED  BY <2>1, <2>3
<1>5. InterpretMany(P, k, m, count, event) = many[count]
  BY DEF InterpretMany
<1> HIDE DEF many
<1> QED  BY <1>4, <1>5

\* One more instruction.
LEMMA OneMoreInterpreted ==
  ASSUME NEW P, NEW k, NEW m, NEW event, NEW count \in Nat,
         NEW r, r = InterpretMany(P, k, m, count, event)
  PROVE  InterpretMany(P, k, m, count + 1, event) = InterpretOne(P, r.pc, r.m, event)
<1>1. PICK start : start = [pc |-> k, m |-> m]
  OBVIOUS
<1>2. PICK f : Runs(f, count, P, start, event) /\ r = f[count]
  BY <1>1, ManyRuns
<1>3. PICK g : /\ Runs(g, count + 1, P, start, event)
               /\ InterpretMany(P, k, m, count + 1, event) = g[count + 1]
  BY <1>1, ManyRuns
<1>4. f[count] = g[count]
  BY <1>2, <1>3, RunsAgree
<1>5. count + 1 \in 0..count + 1 /\ count + 1 # 0 /\ count + 1 - 1 = count
  OBVIOUS
<1>6. g[count + 1] = InterpretOne(P, g[count].pc, g[count].m, event)
  <2>1. g[count + 1] = InterpretOne(P, g[count + 1 - 1].pc, g[count + 1 - 1].m, event)
    BY <1>3, <1>5, RunsAt
  <2> QED  BY <1>5, <2>1
<1> QED  BY <1>2, <1>3, <1>4, <1>6

\* No instruction changes nothing.
LEMMA NoneInterpreted ==
  ASSUME NEW P, NEW k, NEW m, NEW event
  PROVE  InterpretMany(P, k, m, 0, event).pc = k /\ InterpretMany(P, k, m, 0, event).m = m
<1>1. PICK start : start = [pc |-> k, m |-> m]
  OBVIOUS
<1>2. PICK f : Runs(f, 0, P, start, event) /\ InterpretMany(P, k, m, 0, event) = f[0]
  BY <1>1, ManyRuns
<1>3. f[0] = start
  BY <1>2 DEF Runs
<1> QED  BY <1>1, <1>2, <1>3

\* The interpreter at an instruction of its own work that does not fail.
LEMMA PlainAt ==
  ASSUME NEW P, NEW k, NEW m, NEW event, Op(P, k) \notin ControlOps,
         ~IsBranch(Op(P, k)), NEW n, n = Interpret(P.code[k], m), n.exc = "none"
  PROVE  InterpretOne(P, k, m, event).pc = k + 1 /\ InterpretOne(P, k, m, event).m = n
<1>1. PICK i : i = P.code[k] /\ i.op = Op(P, k)
  BY DEF Op
<1>2. /\ ~IsBranch(i.op) /\ i.op # "JMPP" /\ i.op \notin {"JitEntry", "SUSPEND"}
      /\ i.op # "RET" /\ i.op # "CALLSYS" /\ i.op # "AllocApp" /\ i.op \notin CallOps
  BY <1>1 DEF ControlOps
<1>3. InterpretOne(P, k, m, event) = InterpretedCatch(P, k, Interpret(i, m))
  BY <1>1, <1>2 DEF InterpretOne
<1>4. InterpretedCatch(P, k, n) = [pc |-> k + 1, m |-> n]
  BY DEF InterpretedCatch
<1>5. InterpretOne(P, k, m, event) = [pc |-> k + 1, m |-> n]
  BY <1>1, <1>3, <1>4
<1> QED  BY <1>5

\* The helpers of the instructions that shortcuts stand for.
LEMMA HelpersOfShortcuts ==
  ASSUME NEW i, NEW m
  PROVE  /\ i.op = "PshVPtr" => Interpret(i, m) = Pushed(m, <<Var(m, i.a)>>)
         /\ i.op = "RefCpyV" => Interpret(i, m) = Replaced(m, Fp - i.a, Top(m))
         /\ i.op = "PopPtr" => Interpret(i, m) = Popped(m)
         /\ i.op = "FREE" => Interpret(i, m) = Free(i, m)
         /\ i.op \in {"ADDf", "SUBf", "MULf"} => Interpret(i, m) = Float(i, m)
         /\ i.op \in {"ADDIf", "SUBIf", "MULIf"} =>
              Interpret(i, m) = FloatImmediate(i, m)
<1> USE DEF NegateOps, StepOps, StepVariableOps, BitOps, ConvertOps, ExtendOps,
            ConvertDoubleOps, IntegerOps, DivideOps, FloatOps, DoubleOps,
            IntegerImmediateOps, FloatImmediateOps, SetGlobalOps, NarrowOps,
            Convert64Ops, Unary64Ops, Integer64Ops, Divide64Ops, Bit64Ops,
            Shift64Ops, Compare64Ops, ClearHighOps, DivideUnsignedOps,
            DivideUnsigned64Ops, TestOps, CompareOps, PowerOps, PushOps,
            LoadGlobalOps, CopyOps, PushMoreOps, SetVariableOps, AddAddressOps,
            CopyVariableOps, IndirectOps, AddressOps, FreeOps, ObjectRegisterOps,
            ArgumentOps, ReferenceCopyOps, CheckOps, PushObjectOps, CastOps,
            PropertyOps, ReferenceCopyVariableOps, ListOps
<1>1. i.op = "PshVPtr" => Interpret(i, m) = PushMore(i, m)
  BY DEF Interpret
<1>2. i.op = "RefCpyV" => Interpret(i, m) = ReferenceCopyVariable(i, m)
  BY DEF Interpret
<1>3. i.op = "PopPtr" => Interpret(i, m) = Push(i, m)
  BY DEF Interpret
<1>4. i.op = "FREE" => Interpret(i, m) = Free(i, m)
  BY DEF Interpret
<1>5. i.op \in {"ADDf", "SUBf", "MULf"} => Interpret(i, m) = Float(i, m)
  BY DEF Interpret
<1>6. i.op \in {"ADDIf", "SUBIf", "MULIf"} => Interpret(i, m) = FloatImmediate(i, m)
  BY DEF Interpret
<1>7. i.op = "PshVPtr" => PushMore(i, m) = Pushed(m, <<Var(m, i.a)>>)
  BY DEF PushMore
<1>8. i.op = "RefCpyV" => ReferenceCopyVariable(i, m) = Replaced(m, Fp - i.a, Top(m))
  BY DEF ReferenceCopyVariable
<1>9. i.op = "PopPtr" => Push(i, m) = Popped(m)
  BY DEF Push
<1> QED  BY <1>1, <1>2, <1>3, <1>4, <1>5, <1>6, <1>7, <1>8, <1>9

\* A machine whose memory has numbers at numbers.
IsFrame(m) ==
  /\ {"mem", "sp", "object", "exc", "reg"} \subseteq DOMAIN m
  /\ m.mem \in [DOMAIN m.mem -> Int] /\ DOMAIN m.mem \subseteq Int /\ m.sp \in Int

ButMemory(n, m) ==
  /\ n.sp = m.sp /\ n.object = m.object /\ n.exc = m.exc /\ n.reg = m.reg
  /\ DOMAIN n.mem = DOMAIN m.mem

\* The one reference that x counts if it is y.
Counted(x, y) == IF x = y THEN 1 ELSE 0

\* A reference released counts one less, unless it is null.
LEMMA ReleaseMeans ==
  ASSUME NEW m, IsFrame(m), 0 \notin DOMAIN m.mem, NEW object,
         NEW n, n = IF object = 0 THEN m ELSE Release(m, object)
  PROVE  /\ IsFrame(n) /\ ButMemory(n, m)
         /\ \A x \in DOMAIN m.mem : n.mem[x] = m.mem[x] - Counted(x, object)
<1>1. PICK u : u = m.mem
  OBVIOUS
<1>2. CASE object = 0
  BY <1>2 DEF Counted, ButMemory, IsFrame
<1>3. CASE object # 0
  <2>1. n = [m EXCEPT !.mem = [u EXCEPT ![object] = u[object] - 1]]
    BY <1>1, <1>3 DEF Release
  <2>2. PICK w : w = [u EXCEPT ![object] = u[object] - 1]
    OBVIOUS
  <2>3. n.mem = w /\ DOMAIN n = DOMAIN m
        /\ n.sp = m.sp /\ n.object = m.object /\ n.exc = m.exc /\ n.reg = m.reg
    BY <2>1, <2>2 DEF IsFrame
  <2>4. u \in [DOMAIN u -> Int] /\ DOMAIN u \subseteq Int
    BY <1>1 DEF IsFrame
  <2>5. /\ DOMAIN w = DOMAIN u /\ w \in [DOMAIN u -> Int]
        /\ \A x \in DOMAIN u : w[x] = u[x] - Counted(x, object)
    <3>1. PICK D : D = DOMAIN u
      OBVIOUS
    <3>2. u \in [D -> Int] /\ DOMAIN w = D
      BY <2>2, <2>4, <3>1
    <3>3. ASSUME NEW x \in D
          PROVE  w[x] = u[x] - Counted(x, object) /\ w[x] \in Int
      <4>1. u[x] \in Int
        BY <3>2
      <4>2. w[x] = IF x = object THEN u[x] - 1 ELSE u[x]
        BY <2>2, <3>1
      <4> QED  BY <4>1, <4>2 DEF Counted
    <3>4. w = [x \in D |-> w[x]]
      BY <2>2, <3>1
    <3> QED  BY <3>1, <3>2, <3>3, <3>4
  <2> QED  BY <1>1, <2>3, <2>5 DEF ButMemory, IsFrame
<1> QED  BY <1>2, <1>3

\* A reference added counts one more, unless it is null.
LEMMA AddRefMeans ==
  ASSUME NEW m, IsFrame(m), 0 \notin DOMAIN m.mem, NEW object,
         NEW n, n = IF object = 0 THEN m ELSE AddRef(m, object)
  PROVE  /\ IsFrame(n) /\ ButMemory(n, m)
         /\ \A x \in DOMAIN m.mem : n.mem[x] = m.mem[x] + Counted(x, object)
<1>1. PICK u : u = m.mem
  OBVIOUS
<1>2. CASE object = 0
  BY <1>2 DEF Counted, ButMemory, IsFrame
<1>3. CASE object # 0
  <2>1. n = [m EXCEPT !.mem = [u EXCEPT ![object] = u[object] + 1]]
    BY <1>1, <1>3 DEF AddRef
  <2>2. PICK w : w = [u EXCEPT ![object] = u[object] + 1]
    OBVIOUS
  <2>3. n.mem = w /\ DOMAIN n = DOMAIN m
        /\ n.sp = m.sp /\ n.object = m.object /\ n.exc = m.exc /\ n.reg = m.reg
    BY <2>1, <2>2 DEF IsFrame
  <2>4. u \in [DOMAIN u -> Int] /\ DOMAIN u \subseteq Int
    BY <1>1 DEF IsFrame
  <2>5. /\ DOMAIN w = DOMAIN u /\ w \in [DOMAIN u -> Int]
        /\ \A x \in DOMAIN u : w[x] = u[x] + Counted(x, object)
    <3>1. PICK D : D = DOMAIN u
      OBVIOUS
    <3>2. u \in [D -> Int] /\ DOMAIN w = D
      BY <2>2, <2>4, <3>1
    <3>3. ASSUME NEW x \in D
          PROVE  w[x] = u[x] + Counted(x, object) /\ w[x] \in Int
      <4>1. u[x] \in Int
        BY <3>2
      <4>2. w[x] = IF x = object THEN u[x] + 1 ELSE u[x]
        BY <2>2, <3>1
      <4> QED  BY <4>1, <4>2 DEF Counted
    <3>4. w = [x \in D |-> w[x]]
      BY <2>2, <3>1
    <3> QED  BY <3>1, <3>2, <3>3, <3>4
  <2> QED  BY <1>1, <2>3, <2>5 DEF ButMemory, IsFrame
<1> QED  BY <1>2, <1>3

\* A word written.
LEMMA WriteMeans ==
  ASSUME NEW m, IsFrame(m), NEW d, NEW y \in Int, NEW n, n = [m EXCEPT !.mem[d] = y]
  PROVE  /\ IsFrame(n) /\ ButMemory(n, m)
         /\ \A x \in DOMAIN m.mem : n.mem[x] = IF x = d THEN y ELSE m.mem[x]
<1>1. PICK u : u = m.mem
  OBVIOUS
<1>2. n = [m EXCEPT !.mem = [u EXCEPT ![d] = y]]
  BY <1>1
<1>3. PICK w : w = [u EXCEPT ![d] = y]
  OBVIOUS
<1>4. n.mem = w /\ DOMAIN n = DOMAIN m
      /\ n.sp = m.sp /\ n.object = m.object /\ n.exc = m.exc /\ n.reg = m.reg
  BY <1>2, <1>3 DEF IsFrame
<1>5. u \in [DOMAIN u -> Int] /\ DOMAIN u \subseteq Int
  BY <1>1 DEF IsFrame
<1>6. /\ DOMAIN w = DOMAIN u /\ w \in [DOMAIN u -> Int]
      /\ \A x \in DOMAIN u : w[x] = IF x = d THEN y ELSE u[x]
  BY <1>3, <1>5
<1> QED  BY <1>1, <1>4, <1>6 DEF ButMemory, IsFrame

\* A reference replaced: the counts of the two objects change, and the variable.
LEMMA ReplacedMeans ==
  ASSUME NEW m, IsFrame(m), 0 \notin DOMAIN m.mem, NEW d \in DOMAIN m.mem, NEW s \in Int,
         NEW n, n = Replaced(m, d, s)
  PROVE  /\ IsFrame(n) /\ ButMemory(n, m)
         /\ \A x \in DOMAIN m.mem :
              n.mem[x] = IF x = d THEN s
                         ELSE m.mem[x] - Counted(x, m.mem[d]) + Counted(x, s)
<1>0. PICK was : was = m.mem[d]
  OBVIOUS
<1>1. PICK old : old = IF was = 0 THEN m ELSE Release(m, was)
  OBVIOUS
<1>2. /\ IsFrame(old) /\ ButMemory(old, m)
      /\ \A x \in DOMAIN m.mem : old.mem[x] = m.mem[x] - Counted(x, was)
  BY <1>1, ReleaseMeans, ZenonT(60)
<1>3. DOMAIN old.mem = DOMAIN m.mem
  BY <1>2 DEF ButMemory
<1>4. PICK new : new = IF s = 0 THEN old ELSE AddRef(old, s)
  OBVIOUS
<1>5. /\ IsFrame(new) /\ ButMemory(new, old)
      /\ \A x \in DOMAIN old.mem : new.mem[x] = old.mem[x] + Counted(x, s)
  BY <1>2, <1>3, <1>4, AddRefMeans
<1>6. DOMAIN new.mem = DOMAIN m.mem
  BY <1>3, <1>5 DEF ButMemory
<1>7. n = [new EXCEPT !.mem[d] = s]
  BY <1>0, <1>1, <1>4 DEF Replaced
<1>8. /\ IsFrame(n) /\ ButMemory(n, new)
      /\ \A x \in DOMAIN new.mem : n.mem[x] = IF x = d THEN s ELSE new.mem[x]
  BY <1>5, <1>7, WriteMeans, SMTT(60)
<1>9. \A x \in DOMAIN m.mem :
        n.mem[x] = IF x = d THEN s
                   ELSE m.mem[x] - Counted(x, m.mem[d]) + Counted(x, s)
  BY <1>0, <1>2, <1>3, <1>5, <1>6, <1>8
<1> QED  BY <1>2, <1>5, <1>8, <1>9 DEF ButMemory

\* The stack pointer moved by d, the rest but the memory kept.
Moved(n, m, d) ==
  /\ IsFrame(n) /\ n.sp = m.sp + d /\ n.object = m.object /\ n.exc = m.exc
  /\ DOMAIN n.mem = DOMAIN m.mem

\* A word pushed is below the old stack pointer.
LEMMA PushedMeans ==
  ASSUME NEW m, IsFrame(m), NEW y \in Int, NEW n, n = Pushed(m, <<y>>)
  PROVE  /\ Moved(n, m, -1)
         /\ \A x \in DOMAIN m.mem : n.mem[x] = IF x = m.sp - 1 THEN y ELSE m.mem[x]
<1>1. PICK u, D : u = m.mem /\ D = DOMAIN u
  OBVIOUS
<1>2. u \in [D -> Int] /\ D \subseteq Int /\ m.sp \in Int
  BY <1>1 DEF IsFrame
<1>3. PICK w : w = [a \in D |-> IF a = m.sp - 1 THEN y ELSE u[a]]
  OBVIOUS
<1>4. [a \in D |-> IF a \in m.sp - 1..m.sp - 1 THEN <<y>>[a - (m.sp - 1) + 1] ELSE u[a]] = w
  <2>1. ASSUME NEW a \in D
        PROVE  (IF a \in m.sp - 1..m.sp - 1 THEN <<y>>[a - (m.sp - 1) + 1] ELSE u[a])
                 = IF a = m.sp - 1 THEN y ELSE u[a]
    <3>1. a \in m.sp - 1..m.sp - 1 <=> a = m.sp - 1
      BY <1>2
    <3>2. a = m.sp - 1 => a - (m.sp - 1) + 1 = 1
      BY <1>2
    <3> QED  BY <3>1, <3>2
  <2> QED  BY <1>3, <2>1
<1>5. n = [m EXCEPT !.sp = m.sp - 1, !.mem = w]
  BY <1>1, <1>4 DEF Pushed
<1>6. /\ DOMAIN n = DOMAIN m /\ n.mem = w /\ n.sp = m.sp - 1
      /\ n.object = m.object /\ n.exc = m.exc /\ n.reg = m.reg
  BY <1>5 DEF IsFrame
<1>7. w \in [D -> Int] /\ DOMAIN w = D
  BY <1>2, <1>3
<1>8. m.sp - 1 = m.sp + (-1)
  BY <1>2
<1> QED  BY <1>1, <1>2, <1>3, <1>6, <1>7, <1>8 DEF IsFrame, Moved

\* A word popped leaves memory as it is.
LEMMA PoppedMeans ==
  ASSUME NEW m, IsFrame(m), NEW n, n = Popped(m)
  PROVE  Moved(n, m, 1) /\ n.mem = m.mem
<1>1. /\ DOMAIN n = DOMAIN m /\ n.mem = m.mem /\ n.sp = m.sp + 1
      /\ n.object = m.object /\ n.exc = m.exc /\ n.reg = m.reg
  BY DEF IsFrame, Popped
<1> QED  BY <1>1 DEF IsFrame, Moved

\* The source is freed: it gives its reference up.
LEMMA FreeMeans ==
  ASSUME NEW i, NEW m, IsFrame(m), 0 \notin DOMAIN m.mem,
         NEW at, at = Fp - i.a, at \in DOMAIN m.mem, NEW n, n = Free(i, m)
  PROVE  /\ Moved(n, m, 0)
         /\ \A x \in DOMAIN m.mem :
              n.mem[x] = IF x = at THEN 0 ELSE m.mem[x] - Counted(x, m.mem[at])
<1>1. PICK object : object = m.mem[at]
  OBVIOUS
<1>2. Var(m, i.a) = object
  BY <1>1 DEF Var
<1>3. m.sp + 0 = m.sp
  BY DEF IsFrame
<1>4. CASE object = 0
  <2>1. n = m
    BY <1>2, <1>4 DEF Free
  <2>2. \A x \in DOMAIN m.mem : m.mem[x] \in Int /\ Counted(x, object) = 0
    BY <1>4 DEF IsFrame, Counted
  <2>3. \A x \in DOMAIN m.mem : m.mem[x] = m.mem[x] - Counted(x, object)
    BY <2>2
  <2> QED  BY <1>1, <1>3, <1>4, <2>1, <2>3 DEF Moved
<1>5. CASE object # 0
  <2>1. PICK r : r = IF object = 0 THEN m ELSE Release(m, object)
    OBVIOUS
  <2>2. /\ IsFrame(r) /\ ButMemory(r, m)
        /\ \A x \in DOMAIN m.mem : r.mem[x] = m.mem[x] - Counted(x, object)
    BY <2>1, ReleaseMeans
  <2>3. n = [r EXCEPT !.mem[at] = 0]
    <3>1. Low(0, WordBits) = 0
      BY LowOfWord, WordIsNat
    <3>2. n = SetVar(r, i.a, 0)
      BY <1>2, <1>5, <2>1 DEF Free
    <3> QED  BY <3>1, <3>2 DEF SetVar
  <2>4. /\ IsFrame(n) /\ ButMemory(n, r)
        /\ \A x \in DOMAIN r.mem : n.mem[x] = IF x = at THEN 0 ELSE r.mem[x]
    BY <2>2, <2>3, WriteMeans
  <2>5. DOMAIN r.mem = DOMAIN m.mem
    BY <2>2 DEF ButMemory
  <2>6. Moved(n, m, 0)
    BY <1>3, <2>2, <2>4 DEF ButMemory, Moved
  <2> QED  BY <1>1, <2>2, <2>4, <2>5, <2>6
<1> QED  BY <1>4, <1>5

-----------------------------------------------------------------------------
(* A handle copied.                                                        *)

\* n is m after the reference in d was replaced by the one in source, above the
\* stack pointer that m has.
HandleCopied(n, m, d, source) ==
  \A x \in DOMAIN m.mem :
    x >= m.sp =>
      n.mem[x] = IF x = d THEN m.mem[source]
                 ELSE m.mem[x] - Counted(x, m.mem[d]) + Counted(x, m.mem[source])

\* The same, and the source gave its reference up.
HandleMoved(n, m, d, source) ==
  \A x \in DOMAIN m.mem :
    x >= m.sp =>
      n.mem[x] = IF x = d THEN m.mem[source]
                 ELSE IF x = source THEN 0 ELSE m.mem[x] - Counted(x, m.mem[d])

\* What the instructions need to be in the frame.
CopiedBetween(P, k, m, d, source) ==
  /\ IsFrame(m) /\ m.exc = "none" /\ 0 \notin DOMAIN m.mem /\ m.sp - 1 \in DOMAIN m.mem
  /\ d = Fp - P.code[k + 1].a /\ source = Fp - P.code[k].a
  /\ {d, source} \subseteq DOMAIN m.mem /\ d >= m.sp /\ source >= m.sp
  /\ Op(P, k) = "PshVPtr" /\ Op(P, k + 1) = "RefCpyV"

PlainOp(op) == op \notin ControlOps /\ ~IsBranch(op)

\* The instructions of a copied handle neither branch nor leave.
LEMMA CopyOpsPlain == \A op \in {"PshVPtr", "RefCpyV", "PopPtr", "FREE"} : PlainOp(op)
BY DEF PlainOp, ControlOps, CallOps, IsBranch, IsConditionalBranch

\* PshVPtr and RefCpyV copy the handle and leave its word on the stack.
LEMMA CopyBegins ==
  ASSUME NEW P, NEW k \in Int, NEW m, NEW event, NEW d, NEW source,
         CopiedBetween(P, k, m, d, source),
         NEW r, r = InterpretMany(P, k, m, 2, event)
  PROVE  r.pc = k + 2 /\ Moved(r.m, m, -1) /\ HandleCopied(r.m, m, d, source)
<1>1. /\ IsFrame(m) /\ m.exc = "none" /\ 0 \notin DOMAIN m.mem
      /\ m.sp - 1 \in DOMAIN m.mem /\ m.sp \in Int
      /\ d \in DOMAIN m.mem /\ source \in DOMAIN m.mem /\ d >= m.sp /\ source >= m.sp
      /\ d \in Int /\ source \in Int
  BY DEF CopiedBetween, IsFrame
<1>2. PICK v \in Int : v = m.mem[source]
  BY <1>1 DEF IsFrame
<1>3. PICK m1 : m1 = Pushed(m, <<v>>)
  OBVIOUS
<1>4. /\ Moved(m1, m, -1)
      /\ \A x \in DOMAIN m.mem : m1.mem[x] = IF x = m.sp - 1 THEN v ELSE m.mem[x]
  BY <1>1, <1>3, PushedMeans
<1>5. PICK a : a = InterpretOne(P, k, m, event)
  OBVIOUS
<1>6. a.pc = k + 1 /\ a.m = m1
  <2>1. Interpret(P.code[k], m) = m1
    <3>1. P.code[k].op = "PshVPtr" /\ Var(m, P.code[k].a) = v
      BY <1>2 DEF CopiedBetween, Op, Var
    <3> QED  BY <1>3, <3>1, HelpersOfShortcuts
  <2>2. m1.exc = "none"
    BY <1>1, <1>4 DEF Moved
  <2>3. Op(P, k) \notin ControlOps /\ ~IsBranch(Op(P, k))
    BY CopyOpsPlain DEF CopiedBetween, PlainOp
  <2> QED  BY <1>5, <2>1, <2>2, <2>3, PlainAt
<1>7. PICK n : n = Replaced(m1, d, v)
  OBVIOUS
<1>8. /\ IsFrame(m1) /\ m1.sp = m.sp - 1 /\ DOMAIN m1.mem = DOMAIN m.mem
      /\ m1.mem[m.sp - 1] = v /\ m1.mem[d] = m.mem[d]
  <2>1. d # m.sp - 1
    BY <1>1
  <2>2. m.sp + (-1) = m.sp - 1
    BY <1>1
  <2> QED  BY <1>1, <1>4, <2>1, <2>2 DEF Moved
<1>9. /\ IsFrame(n) /\ ButMemory(n, m1)
      /\ \A x \in DOMAIN m1.mem :
           n.mem[x] = IF x = d THEN v
                      ELSE m1.mem[x] - Counted(x, m1.mem[d]) + Counted(x, v)
  BY <1>1, <1>7, <1>8, ReplacedMeans
<1>10. PICK k1 \in Int : k1 = k + 1
  OBVIOUS
<1>11. PICK b : b = InterpretOne(P, k1, m1, event)
  OBVIOUS
<1>12. b.pc = k1 + 1 /\ b.m = n
  <2>1. Op(P, k1) = "RefCpyV" /\ d = Fp - P.code[k1].a
    BY <1>10 DEF CopiedBetween
  <2>2. Interpret(P.code[k1], m1) = n
    <3>1. Top(m1) = v
      BY <1>8 DEF Top
    <3>2. P.code[k1].op = "RefCpyV"
      BY <2>1 DEF Op
    <3> QED  BY <1>7, <2>1, <3>1, <3>2, HelpersOfShortcuts
  <2>3. n.exc = "none"
    BY <1>1, <1>4, <1>9 DEF Moved, ButMemory
  <2>4. Op(P, k1) \notin ControlOps /\ ~IsBranch(Op(P, k1))
    BY <2>1, CopyOpsPlain DEF PlainOp
  <2> QED  BY <1>11, <2>2, <2>3, <2>4, PlainAt
<1>13. r = b
  <2>1. b = InterpretOne(P, a.pc, a.m, event)
    BY <1>6, <1>10, <1>11
  <2> QED  BY <1>5, <2>1, TwoInterpreted
<1>14. Moved(n, m, -1)
  BY <1>4, <1>8, <1>9 DEF Moved, ButMemory
<1>15. HandleCopied(n, m, d, source)
  <2> SUFFICES ASSUME NEW x \in DOMAIN m.mem, x >= m.sp
               PROVE  n.mem[x] = IF x = d THEN v
                        ELSE m.mem[x] - Counted(x, m.mem[d]) + Counted(x, v)
    BY <1>2 DEF HandleCopied
  <2>1. x # m.sp - 1
    BY <1>1 DEF IsFrame
  <2> QED  BY <1>4, <1>8, <1>9, <2>1
<1>16. k1 + 1 = k + 2
  BY <1>10
<1> QED  BY <1>12, <1>13, <1>14, <1>15, <1>16

\* One more instruction of its own work.
LEMMA OneMorePlain ==
  ASSUME NEW P, NEW k, NEW m, NEW event, NEW count \in Nat,
         NEW r, r = InterpretMany(P, k, m, count, event), PlainOp(Op(P, r.pc)),
         NEW n, n = Interpret(P.code[r.pc], r.m), n.exc = "none",
         NEW s, s = InterpretMany(P, k, m, count + 1, event)
  PROVE  s.pc = r.pc + 1 /\ s.m = n
<1>1. s = InterpretOne(P, r.pc, r.m, event)
  BY OneMoreInterpreted
<1>2. PICK at, u : at = r.pc /\ u = r.m
  OBVIOUS
<1>3. Op(P, at) \notin ControlOps /\ ~IsBranch(Op(P, at)) /\ n = Interpret(P.code[at], u)
  BY <1>2 DEF PlainOp
<1>4. InterpretOne(P, at, u, event).pc = at + 1 /\ InterpretOne(P, at, u, event).m = n
  BY <1>3, PlainAt
<1> QED  BY <1>1, <1>2, <1>4

\* With PopPtr the handle is copied and the stack is as before.
LEMMA CopyPopped ==
  ASSUME NEW P, NEW k \in Int, NEW m, NEW event, NEW d, NEW source,
         CopiedBetween(P, k, m, d, source), Op(P, k + 2) = "PopPtr",
         NEW r, r = InterpretMany(P, k, m, 3, event)
  PROVE  r.pc = k + 3 /\ Moved(r.m, m, 0) /\ HandleCopied(r.m, m, d, source)
<1>1. PICK a : a = InterpretMany(P, k, m, 2, event)
  OBVIOUS
<1>2. a.pc = k + 2 /\ Moved(a.m, m, -1) /\ HandleCopied(a.m, m, d, source)
  BY <1>1, CopyBegins
<1>3. PICK n : n = Popped(a.m)
  OBVIOUS
<1>4. PICK u : u = a.m
  OBVIOUS
<1>5. Moved(n, u, 1) /\ n.mem = u.mem
  BY <1>2, <1>3, <1>4, PoppedMeans DEF Moved
<1>6. m.exc = "none" /\ m.sp \in Int
  BY DEF CopiedBetween, IsFrame
<1>7. Moved(n, m, 0)
  <2>1. m.sp + (-1) + 1 = m.sp + 0
    BY <1>6
  <2> QED  BY <1>2, <1>4, <1>5, <2>1 DEF Moved
<1>8. r.pc = k + 2 + 1 /\ r.m = n
  <2>1. PlainOp(Op(P, a.pc))
    BY <1>2, CopyOpsPlain
  <2>2. Interpret(P.code[a.pc], a.m) = n
    <3>1. P.code[a.pc].op = "PopPtr"
      BY <1>2 DEF Op
    <3> QED  BY <1>3, <3>1, HelpersOfShortcuts
  <2>3. n.exc = "none"
    BY <1>6, <1>7 DEF Moved
  <2>4. r = InterpretMany(P, k, m, 2 + 1, event) /\ 2 \in Nat
    OBVIOUS
  <2>5. r.pc = a.pc + 1 /\ r.m = n
    BY <1>1, <2>1, <2>2, <2>3, <2>4, OneMorePlain
  <2> QED  BY <1>2, <2>5
<1>9. HandleCopied(n, m, d, source)
  BY <1>2, <1>4, <1>5 DEF HandleCopied
<1>10. k + 2 + 1 = k + 3
  OBVIOUS
<1> QED  BY <1>7, <1>8, <1>9, <1>10

\* The handles are objects or null, not the variables.
AreObjects(m, d, source) ==
  d # source /\ \A x \in {d, source} : m.mem[x] \notin {d, source}

\* FREE behind the copy takes the source's reference back and makes it null.
LEMMA CopyFreed ==
  ASSUME NEW P, NEW k \in Int, NEW m, NEW event, NEW d, NEW source,
         CopiedBetween(P, k, m, d, source), AreObjects(m, d, source),
         NEW a, a = InterpretMany(P, k, m, 2, event),
         NEW n, n = Free(P.code[k + 2], a.m), P.code[k].a = P.code[k + 2].a
  PROVE  Moved(n, m, -1) /\ HandleMoved(n, m, d, source)
<1>1. /\ a.pc = k + 2 /\ Moved(a.m, m, -1) /\ HandleCopied(a.m, m, d, source)
  BY CopyBegins
<1>2. /\ 0 \notin DOMAIN m.mem /\ source \in DOMAIN m.mem /\ d \in DOMAIN m.mem
      /\ source >= m.sp /\ d >= m.sp /\ source = Fp - P.code[k + 2].a
      /\ \A x \in DOMAIN m.mem : x \in Int /\ m.mem[x] \in Int
      /\ m.sp \in Int
  BY DEF CopiedBetween, IsFrame
<1>3. PICK u : u = a.m
  OBVIOUS
<1>4. /\ IsFrame(u) /\ DOMAIN u.mem = DOMAIN m.mem
  BY <1>1, <1>3 DEF Moved
<1>5. /\ Moved(n, u, 0)
      /\ \A x \in DOMAIN u.mem :
           n.mem[x] = IF x = source THEN 0 ELSE u.mem[x] - Counted(x, u.mem[source])
  BY <1>2, <1>3, <1>4, FreeMeans
<1>6. u.mem[source] = m.mem[source]
  <2>1. /\ d # source /\ m.mem[source] # source /\ m.mem[d] # source
    BY DEF AreObjects
  <2>2. u.mem[source] = m.mem[source] - Counted(source, m.mem[d])
                          + Counted(source, m.mem[source])
    BY <1>1, <1>2, <1>3, <2>1 DEF HandleCopied
  <2>3. Counted(source, m.mem[d]) = 0 /\ Counted(source, m.mem[source]) = 0
    BY <2>1 DEF Counted
  <2> QED  BY <1>2, <2>2, <2>3
<1>7. Moved(n, m, -1)
  <2>1. m.sp + (-1) + 0 = m.sp + (-1)
    BY <1>2
  <2> QED  BY <1>1, <1>3, <1>5, <2>1 DEF Moved
<1>8. ASSUME NEW x \in DOMAIN m.mem, x >= m.sp
      PROVE  n.mem[x] = IF x = d THEN m.mem[source]
                        ELSE IF x = source THEN 0 ELSE m.mem[x] - Counted(x, m.mem[d])
  <2>1. n.mem[x] = IF x = source THEN 0 ELSE u.mem[x] - Counted(x, m.mem[source])
    BY <1>4, <1>5, <1>6
  <2>2. u.mem[x] = IF x = d THEN m.mem[source]
                   ELSE m.mem[x] - Counted(x, m.mem[d]) + Counted(x, m.mem[source])
    BY <1>1, <1>3, <1>8 DEF HandleCopied
  <2>3. d # source /\ m.mem[source] # d
    BY DEF AreObjects
  <2>4. /\ Counted(x, m.mem[d]) \in Int /\ Counted(x, m.mem[source]) \in Int
        /\ m.mem[x] \in Int /\ m.mem[source] \in Int
    BY <1>2, <1>8 DEF Counted
  <2>5. CASE x = d
    <3>1. Counted(x, m.mem[source]) = 0
      BY <2>3, <2>5 DEF Counted
    <3> QED  BY <2>1, <2>2, <2>3, <2>4, <2>5, <3>1
  <2>6. CASE x # d
    BY <2>1, <2>2, <2>4, <2>6
  <2> QED  BY <2>5, <2>6
<1> QED  BY <1>7, <1>8 DEF HandleMoved

\* With FREE and PopPtr the handle is moved and the stack is as before.
LEMMA CopyMoved ==
  ASSUME NEW P, NEW k \in Int, NEW m, NEW event, NEW d, NEW source,
         CopiedBetween(P, k, m, d, source), AreObjects(m, d, source),
         Op(P, k + 2) = "FREE", Op(P, k + 3) = "PopPtr", P.code[k].a = P.code[k + 2].a,
         NEW r, r = InterpretMany(P, k, m, 4, event)
  PROVE  r.pc = k + 4 /\ Moved(r.m, m, 0) /\ HandleMoved(r.m, m, d, source)
<1>1. PICK a : a = InterpretMany(P, k, m, 2, event)
  OBVIOUS
<1>2. a.pc = k + 2 /\ Moved(a.m, m, -1)
  BY <1>1, CopyBegins
<1>3. PICK f : f = Free(P.code[k + 2], a.m)
  OBVIOUS
<1>4. Moved(f, m, -1) /\ HandleMoved(f, m, d, source)
  BY <1>1, <1>3, CopyFreed
<1>5. m.exc = "none" /\ m.sp \in Int
  BY DEF CopiedBetween, IsFrame
<1>6. PICK b : b = InterpretMany(P, k, m, 3, event)
  OBVIOUS
<1>7. b.pc = k + 3 /\ b.m = f
  <2>1. PlainOp(Op(P, a.pc))
    BY <1>2, CopyOpsPlain
  <2>2. Interpret(P.code[a.pc], a.m) = f
    <3>1. P.code[a.pc].op = "FREE"
      BY <1>2 DEF Op
    <3> QED  BY <1>2, <1>3, <3>1, HelpersOfShortcuts
  <2>3. f.exc = "none"
    BY <1>4, <1>5 DEF Moved
  <2>4. b = InterpretMany(P, k, m, 2 + 1, event) /\ 2 \in Nat
    BY <1>6
  <2>5. b.pc = a.pc + 1 /\ b.m = f
    BY <1>1, <2>1, <2>2, <2>3, <2>4, OneMorePlain
  <2>6. k + 2 + 1 = k + 3
    OBVIOUS
  <2> QED  BY <1>2, <2>5, <2>6
<1>8. PICK n : n = Popped(f)
  OBVIOUS
<1>9. Moved(n, f, 1) /\ n.mem = f.mem
  BY <1>4, <1>8, PoppedMeans DEF Moved
<1>10. Moved(n, m, 0)
  <2>1. m.sp + (-1) + 1 = m.sp + 0
    BY <1>5
  <2> QED  BY <1>4, <1>9, <2>1 DEF Moved
<1>11. r.pc = k + 4 /\ r.m = n
  <2>1. PlainOp(Op(P, b.pc))
    BY <1>7, CopyOpsPlain
  <2>2. Interpret(P.code[b.pc], b.m) = n
    <3>1. P.code[b.pc].op = "PopPtr"
      BY <1>7 DEF Op
    <3> QED  BY <1>7, <1>8, <3>1, HelpersOfShortcuts
  <2>3. n.exc = "none"
    BY <1>5, <1>10 DEF Moved
  <2>4. r = InterpretMany(P, k, m, 3 + 1, event) /\ 3 \in Nat
    OBVIOUS
  <2>5. r.pc = b.pc + 1 /\ r.m = n
    BY <1>6, <2>1, <2>2, <2>3, <2>4, OneMorePlain
  <2>6. k + 3 + 1 = k + 4
    OBVIOUS
  <2> QED  BY <1>7, <2>5, <2>6
<1>12. HandleMoved(n, m, d, source)
  BY <1>4, <1>9 DEF HandleMoved
<1> QED  BY <1>10, <1>11, <1>12

\* The instructions of a copied handle, one after the other.
LEMMA CopySequence ==
  ASSUME NEW P, NEW k \in Int, NEW s, s = RefCopyFusionSpan(P, k), s > 0
  PROVE  /\ Op(P, k) = "PshVPtr" /\ Op(P, k + 1) = "RefCpyV"
         /\ \/ s = 3 /\ Op(P, k + 2) = "PopPtr"
            \/ /\ s = 4 /\ Op(P, k + 2) = "FREE" /\ Op(P, k + 3) = "PopPtr"
               /\ P.code[k].a = P.code[k + 2].a /\ P.code[k].a # P.code[k + 1].a
<1> DEFINE n == Len(P.code)
           Has(j, op) == k + j <= n /\ Op(P, k + j) = op /\ k + j \notin NeedsLabel(P)
           free == IF Has(2, "FREE") THEN k + 2 ELSE k + 3
           moves == /\ \/ Has(2, "FREE") /\ Has(3, "PopPtr")
                       \/ Has(2, "PopPtr") /\ Has(3, "FREE")
                    /\ P.code[k].a = P.code[free].a
                    /\ P.code[k].a # P.code[k + 1].a
                    /\ P.code[k + 1].p = P.code[free].p
           copies == /\ k + 2 <= n
                     /\ Op(P, k) = "PshVPtr"
                     /\ Has(1, "RefCpyV")
                     /\ P.code[k + 1].kind \in {"script", "function"}
<1>1. s = IF ~copies THEN 0 ELSE IF Has(2, "PopPtr") THEN 3 ELSE IF moves THEN 4 ELSE 0
  BY DEF RefCopyFusionSpan
<1>2. /\ copies
      /\ \/ s = 3 /\ Has(2, "PopPtr")
         \/ s = 4 /\ ~Has(2, "PopPtr") /\ moves
  <2> HIDE DEF copies, moves, Has
  <2> QED  BY <1>1
<1>3. Op(P, k) = "PshVPtr" /\ Op(P, k + 1) = "RefCpyV"
  BY <1>2
<1>4. s = 3 /\ Has(2, "PopPtr") => s = 3 /\ Op(P, k + 2) = "PopPtr"
  OBVIOUS
<1>5. s = 4 /\ ~Has(2, "PopPtr") /\ moves =>
        /\ s = 4 /\ Op(P, k + 2) = "FREE" /\ Op(P, k + 3) = "PopPtr"
        /\ P.code[k].a = P.code[k + 2].a /\ P.code[k].a # P.code[k + 1].a
  OBVIOUS
<1> QED  BY <1>2, <1>3, <1>4, <1>5

\* Where an instruction is that keeps locals in the frame, none has a register.
LEMMA NoLocalsCached ==
  ASSUME NEW P, NEW avx, NEW p, p = Plan(P, avx), NEW k \in Positions(P),
         ~IsCacheableLocalOp(Op(P, k))
  PROVE  p.cached = {}
<1>1. ~CacheLocals(P)
  BY Zenon DEF CacheLocals
<1>2. CachedLocalOffsets(P) = {}
  BY <1>1 DEF CachedLocalOffsets
<1>3. p.cached = CachedLocalOffsets(P)
  BY DEF Plan
<1> QED  BY <1>2, <1>3

\* A machine the types describe has a frame and no exception.
LEMMA FrameOfMachine ==
  ASSUME NEW m, IsMachineState(m)
  PROVE  IsFrame(m) /\ m.exc = "none"
<1>1. Word \subseteq Int
  BY WordIsNat
<1>2. /\ DOMAIN m = Fields /\ DOMAIN m.mem \subseteq Int
      /\ m.mem \in [DOMAIN m.mem -> Word] /\ m.sp \in Int /\ m.exc = "none"
  BY DEF IsMachineState
<1>3. m.mem \in [DOMAIN m.mem -> Int]
  <2>1. PICK u, D : u = m.mem /\ D = DOMAIN m.mem
    OBVIOUS
  <2>2. u \in [D -> Int]
    BY <1>1, <1>2, <2>1
  <2> QED  BY <2>1, <2>2
<1> QED  BY <1>2, <1>3 DEF IsFrame, Fields

\* What the native code of a handle copied or moved does to memory.
LEMMA FastCopyMeans ==
  ASSUME NEW m, IsFrame(m), 0 \notin DOMAIN m.mem, NEW d \in DOMAIN m.mem,
         NEW source \in DOMAIN m.mem,
         NEW n, n = FastRefCopyScriptObject(m, d, m.mem[source])
  PROVE  Moved(n, m, 0) /\ n.reg = m.reg /\ HandleCopied(n, m, d, source)
<1>1. PICK v \in Int : v = m.mem[source]
  BY DEF IsFrame
<1>2. n = Replaced(m, d, v)
  BY <1>1 DEF FastRefCopyScriptObject
<1>3. /\ IsFrame(n) /\ ButMemory(n, m)
      /\ \A x \in DOMAIN m.mem :
           n.mem[x] = IF x = d THEN v
                      ELSE m.mem[x] - Counted(x, m.mem[d]) + Counted(x, v)
  BY <1>2, ReplacedMeans
<1>4. m.sp + 0 = m.sp
  BY DEF IsFrame
<1>5. Moved(n, m, 0) /\ n.reg = m.reg
  BY <1>3, <1>4 DEF Moved, ButMemory
<1> QED  BY <1>1, <1>3, <1>5 DEF HandleCopied

\* FastMoveScriptObject moves the handle from source to destination.
LEMMA FastMoveMeans ==
  ASSUME NEW m, IsFrame(m), 0 \notin DOMAIN m.mem, NEW d \in DOMAIN m.mem,
         NEW source \in DOMAIN m.mem, d # source,
         NEW n, n = FastMoveScriptObject(m, d, source)
  PROVE  Moved(n, m, 0) /\ n.reg = m.reg /\ HandleMoved(n, m, d, source)
<1>1. PICK v \in Int : v = m.mem[source]
  BY DEF IsFrame
<1>2. PICK r : r = IF m.mem[d] = 0 THEN m ELSE Release(m, m.mem[d])
  OBVIOUS
<1>3. /\ IsFrame(r) /\ ButMemory(r, m)
      /\ \A x \in DOMAIN m.mem : r.mem[x] = m.mem[x] - Counted(x, m.mem[d])
  BY <1>2, ReleaseMeans
<1>4. PICK u : u = r.mem
  OBVIOUS
<1>5. n = [r EXCEPT !.mem = [u EXCEPT ![d] = v, ![source] = 0]]
  BY <1>1, <1>2, <1>4 DEF FastMoveScriptObject
<1>6. PICK f : f = [r EXCEPT !.mem[d] = v]
  OBVIOUS
<1>7. /\ IsFrame(f) /\ ButMemory(f, r)
      /\ \A x \in DOMAIN r.mem : f.mem[x] = IF x = d THEN v ELSE r.mem[x]
  BY <1>3, <1>6, WriteMeans
<1>8. PICK g : g = [f EXCEPT !.mem[source] = 0]
  OBVIOUS
<1>9. /\ IsFrame(g) /\ ButMemory(g, f)
      /\ \A x \in DOMAIN f.mem : g.mem[x] = IF x = source THEN 0 ELSE f.mem[x]
  BY <1>7, <1>8, WriteMeans
<1>10. n = g
  <2>1. f = [r EXCEPT !.mem = [u EXCEPT ![d] = v]]
    BY <1>4, <1>6
  <2>2. PICK w : w = [u EXCEPT ![d] = v]
    OBVIOUS
  <2>3. f.mem = w
    BY <1>3, <2>1, <2>2 DEF IsFrame
  <2>4. g = [f EXCEPT !.mem = [w EXCEPT ![source] = 0]]
    BY <1>8, <2>3
  <2>5. f = [r EXCEPT !.mem = w]
    BY <2>1, <2>2
  <2>6. PICK z : z = [w EXCEPT ![source] = 0]
    OBVIOUS
  <2>7. g = [r EXCEPT !.mem = z]
    BY <2>4, <2>5, <2>6
  <2>8. z = [u EXCEPT ![d] = v, ![source] = 0]
    BY <2>2, <2>6
  <2> QED  BY <1>5, <2>7, <2>8
<1>11. DOMAIN r.mem = DOMAIN m.mem /\ DOMAIN f.mem = DOMAIN m.mem
  BY <1>3, <1>7 DEF ButMemory
<1>12. Moved(n, m, 0) /\ n.reg = m.reg
  <2>1. m.sp + 0 = m.sp
    BY DEF IsFrame
  <2> QED  BY <1>3, <1>7, <1>9, <1>10, <2>1 DEF Moved, ButMemory
<1>13. ASSUME NEW x \in DOMAIN m.mem, x >= m.sp
       PROVE  n.mem[x] = IF x = d THEN v
                         ELSE IF x = source THEN 0 ELSE m.mem[x] - Counted(x, m.mem[d])
  BY <1>3, <1>7, <1>9, <1>10, <1>11
<1> QED  BY <1>1, <1>12, <1>13 DEF HandleMoved

\* The same, of a step that may keep a value register and in which something
\* may happen.
LEMMA StaysTogetherIn ==
  ASSUME NEW to, to # "apart", NEW next, NEW m, NEW count, NEW kept, NEW event,
         Advance(to, next, m, count, kept, event), Follow, Together,
         mode \in {"native", "interpreter"},
         NEW r, r = InterpretMany(program, pc, interpreter, count, event.kind),
         r.pc = next, SameState(m, r.m), SameEnd(next, m, r.m)
  PROVE  mode' # "apart"
<1>1. /\ pc' = next /\ native' = m /\ from'.to = to /\ from'.count = count
      /\ from'.event = event
  BY DEF Advance
<1>2. FollowTo(r)
  <2>1. FollowTo(InterpretMany(program, ipc, interpreter, from'.count, from'.event.kind))
    BY Zenon DEF Follow
  <2>2. InterpretMany(program, ipc, interpreter, from'.count, from'.event.kind) = r
    BY <1>1 DEF Together
  <2> QED  BY <2>1, <2>2, Zenon
<1>3. pc' = r.pc /\ SameState(native', r.m) /\ SameEnd(pc', native', r.m)
  BY <1>1
<1> QED  BY <1>1, <1>2, <1>3 DEF FollowTo

\* A machine with a memory, whatever is in it.
HasFrame(m) ==
  /\ {"mem", "sp", "object", "exc", "reg"} \subseteq DOMAIN m
  /\ m.mem = [x \in DOMAIN m.mem |-> m.mem[x]] /\ DOMAIN m.mem \subseteq Int

\* Machines whose memories agree above the stack pointer, the native one without
\* registers.
LEMMA FrameIsState ==
  ASSUME NEW n, HasFrame(n), n.reg = NoRegisters, NEW m, n.sp = m.sp,
         n.object = m.object, n.exc = m.exc, DOMAIN m.mem = DOMAIN n.mem,
         \A x \in DOMAIN n.mem : x >= n.sp => n.mem[x] = m.mem[x]
  PROVE  SameState(n, m)
<1>1. IsMachine(n)
  <2>1. DOMAIN n.reg = {} /\ n.reg = [o \in DOMAIN n.reg |-> n.reg[o]]
    BY DEF NoRegisters
  <2> QED  BY <2>1 DEF HasFrame, IsMachine
<1>2. View(n) = [a \in DOMAIN n.mem |->
                   IF Fp - a \in DOMAIN n.reg THEN n.reg[Fp - a] ELSE n.mem[a]]
  BY <1>1, ViewOfMachine
<1>3. DOMAIN n.reg = {}
  BY DEF NoRegisters
<1>4. \A a \in DOMAIN n.mem : View(n)[a] = n.mem[a]
  BY <1>2, <1>3
<1> QED  BY <1>4 DEF SameState

\* A frame of numbers is a frame.
LEMMA FrameHas ==
  ASSUME NEW m, IsFrame(m)
  PROVE  HasFrame(m)
<1>1. PICK u, D : u = m.mem /\ D = DOMAIN m.mem
  OBVIOUS
<1>2. u \in [D -> Int] /\ D \subseteq Int
  BY <1>1 DEF IsFrame
<1>3. u = [x \in D |-> u[x]]
  BY <1>2
<1> QED  BY <1>1, <1>2, <1>3 DEF IsFrame, HasFrame

\* A handle copied or moved, natively and in the interpreter.
LEMMA CopiedHandleStep ==
  ASSUME ControlInv, FunctionTypeOK, GoTogether, RunCopiedHandle, Follow
  PROVE  mode' # "apart"
<1>1. /\ mode = "native" /\ plan.copies[pc] > 0 /\ Here.op = "PshVPtr"
  BY Zenon DEF RunCopiedHandle, IsNative
<1>2. /\ pc \in Positions(program) /\ pc \in Nat /\ pc \in Int
      /\ Here.op = Op(program, pc) /\ Len(program.code) \in Nat
      /\ Here = program.code[pc]
  BY <1>1, Setting DEF Here
<1>3. PICK span : span = plan.copies[pc]
  OBVIOUS
<1>4. span = RefCopyFusionSpan(program, pc) /\ span > 0
  BY <1>1, <1>2, <1>3, Setting, PlanFields
<1>5. PICK d, source : d = Fp - program.code[pc + 1].a /\ source = Fp - Here.a
  OBVIOUS
<1>6. GoOn(pc + span,
           IF span = 4 THEN FastMoveScriptObject(native, d, source)
           ELSE FastRefCopyScriptObject(native, d, native.mem[source]), span)
  BY <1>3, <1>5, Zenon DEF RunCopiedHandle
<1>7. PICK n : n = IF span = 4 THEN FastMoveScriptObject(native, d, source)
                   ELSE FastRefCopyScriptObject(native, d, native.mem[source])
  OBVIOUS
<1>8. Advance("native", pc + span, n, span, NoShadow, NoEvent)
  BY <1>6, <1>7, Zenon DEF GoOn
<1>9. /\ IsFrame(native) /\ IsFrame(interpreter) /\ IsMachineState(native)
      /\ native.exc = "none" /\ interpreter.exc = "none"
  BY <1>1, FrameOfMachine DEF FunctionTypeOK
<1>10. native.reg = NoRegisters
  <2>1. ~IsCacheableLocalOp("PshVPtr")
    BY DEF IsCacheableLocalOp, IsConditionalBranch
  <2>2. plan.cached = {}
    BY <1>1, <1>2, <2>1, Setting, NoLocalsCached
  <2>3. DOMAIN native.reg = {}
    BY <1>1, <2>2 DEF FunctionTypeOK
  <2>4. native.reg = [o \in DOMAIN native.reg |-> native.reg[o]]
    BY <1>9 DEF IsMachineState
  <2> QED  BY <2>3, <2>4 DEF NoRegisters
<1>11. VariablesHere = {Here.a, program.code[pc + 1].a}
  BY <1>1, VariablesAre DEF At
<1>12. /\ DOMAIN native.mem = DOMAIN interpreter.mem /\ 0 \notin DOMAIN native.mem
       /\ native.sp - 1 \in DOMAIN native.mem
       /\ Here.a \in Int /\ program.code[pc + 1].a \in Int
       /\ {d, source} \subseteq DOMAIN native.mem
       /\ d >= native.sp /\ source >= native.sp
  BY <1>1, <1>5, <1>11 DEF GoTogether, WayIsKnown
<1>13. /\ native.sp = interpreter.sp /\ native.object = interpreter.object
       /\ \A x \in DOMAIN native.mem :
            x >= native.sp => native.mem[x] = interpreter.mem[x]
  <2>1. SameState(native, interpreter)
    BY <1>1 DEF GoTogether, Together
  <2>2. View(native) = native.mem
    BY <1>9, <1>10, ViewWithoutRegisters
  <2> QED  BY <1>12, <2>1, <2>2 DEF SameState
<1>14. Op(program, pc + 1) = "RefCpyV"
  BY <1>2, <1>4, CopySequence
<1>15. CopiedBetween(program, pc, interpreter, d, source)
  BY <1>1, <1>2, <1>5, <1>9, <1>12, <1>13, <1>14 DEF CopiedBetween
<1>16. PICK r : r = InterpretMany(program, pc, interpreter, span, "none")
  OBVIOUS
<1>17. /\ native.mem[d] = interpreter.mem[d]
       /\ native.mem[source] = interpreter.mem[source]
  BY <1>12, <1>13
<1>18. CASE span = 3 /\ Op(program, pc + 2) = "PopPtr"
  <2>1. r.pc = pc + 3 /\ Moved(r.m, interpreter, 0)
        /\ HandleCopied(r.m, interpreter, d, source)
    BY <1>2, <1>15, <1>16, <1>18, CopyPopped
  <2>2. Moved(n, native, 0) /\ n.reg = native.reg /\ HandleCopied(n, native, d, source)
    <3>1. n = FastRefCopyScriptObject(native, d, native.mem[source])
      BY <1>7, <1>18
    <3> QED  BY <1>9, <1>12, <3>1, FastCopyMeans
  <2>3. PICK m : m = r.m
    OBVIOUS
  <2>4. /\ IsFrame(n) /\ n.reg = NoRegisters /\ n.sp = m.sp /\ n.object = m.object
        /\ n.exc = m.exc /\ DOMAIN m.mem = DOMAIN n.mem
        /\ DOMAIN n.mem = DOMAIN native.mem /\ n.sp = native.sp
    <3>1. native.sp + 0 = native.sp
      BY <1>9 DEF IsFrame
    <3> QED  BY <1>9, <1>10, <1>12, <1>13, <2>1, <2>2, <2>3, <3>1 DEF Moved
  <2>5. \A x \in DOMAIN n.mem : x >= n.sp => n.mem[x] = m.mem[x]
    BY <1>12, <1>13, <1>17, <2>1, <2>2, <2>3, <2>4 DEF HandleCopied
  <2>6. SameState(n, m)
    BY <2>4, <2>5, FrameHas, FrameIsState
  <2>7. SameEnd(pc + span, n, m)
    BY <1>2, <1>18 DEF SameEnd
  <2> QED  BY <1>1, <1>8, <1>16, <1>18, <2>1, <2>3, <2>6, <2>7, StaysTogether DEF GoTogether
<1>19. CASE /\ span = 4 /\ Op(program, pc + 2) = "FREE" /\ Op(program, pc + 3) = "PopPtr"
            /\ program.code[pc].a = program.code[pc + 2].a
            /\ program.code[pc].a # program.code[pc + 1].a
  <2>1. d # source
    <3>1. PICK a \in Int, b \in Int : a = Here.a /\ b = program.code[pc + 1].a
      BY <1>12
    <3>2. a # b
      BY <1>2, <1>19, <3>1
    <3>3. d = Fp - b /\ source = Fp - a
      BY <1>5, <3>1
    <3> QED  BY <3>2, <3>3, LocalCacheAssumption
  <2>2. AreObjects(interpreter, d, source)
    <3>1. \A o \in VariablesHere : Fp - native.mem[Fp - o] \notin VariablesHere
      BY <1>1 DEF GoTogether, WayIsKnown
    <3>2. ASSUME NEW o \in VariablesHere, NEW v \in {d, source}
          PROVE  native.mem[Fp - o] # v
      <4>1. Fp - v \in VariablesHere
        BY <1>5, <1>11, <1>12, LocalCacheAssumption
      <4> QED  BY <3>1, <4>1
    <3>3. native.mem[d] \notin {d, source} /\ native.mem[source] \notin {d, source}
      BY <1>5, <1>11, <3>2
    <3> QED  BY <1>17, <2>1, <3>3 DEF AreObjects
  <2>3. r.pc = pc + 4 /\ Moved(r.m, interpreter, 0)
        /\ HandleMoved(r.m, interpreter, d, source)
    BY <1>2, <1>15, <1>16, <1>19, <2>2, CopyMoved
  <2>4. Moved(n, native, 0) /\ n.reg = native.reg /\ HandleMoved(n, native, d, source)
    <3>1. n = FastMoveScriptObject(native, d, source)
      BY <1>7, <1>19
    <3> QED  BY <1>9, <1>12, <2>1, <3>1, FastMoveMeans
  <2>5. PICK m : m = r.m
    OBVIOUS
  <2>6. /\ IsFrame(n) /\ n.reg = NoRegisters /\ n.sp = m.sp /\ n.object = m.object
        /\ n.exc = m.exc /\ DOMAIN m.mem = DOMAIN n.mem
        /\ DOMAIN n.mem = DOMAIN native.mem /\ n.sp = native.sp
    <3>1. native.sp + 0 = native.sp
      BY <1>9 DEF IsFrame
    <3> QED  BY <1>9, <1>10, <1>12, <1>13, <2>3, <2>4, <2>5, <3>1 DEF Moved
  <2>7. \A x \in DOMAIN n.mem : x >= n.sp => n.mem[x] = m.mem[x]
    BY <1>12, <1>13, <1>17, <2>3, <2>4, <2>5, <2>6 DEF HandleMoved
  <2>8. SameState(n, m)
    BY <2>6, <2>7, FrameHas, FrameIsState
  <2>9. SameEnd(pc + span, n, m)
    BY <1>2, <1>19 DEF SameEnd
  <2> QED  BY <1>1, <1>8, <1>16, <1>19, <2>3, <2>5, <2>8, <2>9, StaysTogether DEF GoTogether
<1> QED  BY <1>2, <1>4, <1>18, <1>19, CopySequence

-----------------------------------------------------------------------------
(* Floats computed together. Lane l writes value[l] at target[l].          *)

Written(m, d, y) == [m EXCEPT !.mem[d] = y]

\* A word written changes that word only.
LEMMA WordWritten ==
  ASSUME NEW m, HasFrame(m), NEW d, NEW y, NEW n, n = Written(m, d, y)
  PROVE  /\ HasFrame(n) /\ ButMemory(n, m)
         /\ \A x \in DOMAIN m.mem : n.mem[x] = IF x = d THEN y ELSE m.mem[x]
<1>1. PICK u, D : u = m.mem /\ D = DOMAIN u
  OBVIOUS
<1>2. n = [m EXCEPT !.mem = [u EXCEPT ![d] = y]]
  BY <1>1 DEF Written
<1>3. PICK w : w = [u EXCEPT ![d] = y]
  OBVIOUS
<1>4. n.mem = w /\ DOMAIN n = DOMAIN m
      /\ n.sp = m.sp /\ n.object = m.object /\ n.exc = m.exc /\ n.reg = m.reg
  BY <1>2, <1>3 DEF HasFrame
<1>5. u = [x \in D |-> u[x]] /\ D \subseteq Int
  BY <1>1 DEF HasFrame
<1>6. /\ DOMAIN w = D /\ w = [x \in D |-> w[x]]
      /\ \A x \in D : w[x] = IF x = d THEN y ELSE u[x]
  BY <1>1, <1>3
<1> QED  BY <1>1, <1>4, <1>5, <1>6 DEF ButMemory, HasFrame

\* The memory of u where the lanes before l have been computed, from that of m.
LanesComputed(u, m, target, value, l) ==
  /\ HasFrame(u) /\ ButMemory(u, m)
  /\ \A h \in DOMAIN target : h < l => u.mem[target[h]] = value[h]
  /\ \A x \in DOMAIN m.mem :
       (\A h \in DOMAIN target : h < l => x # target[h]) => u.mem[x] = m.mem[x]

\* Each lane writes its value when those before it have.
LanesWrite(P, k, w, stride, m, target, value) ==
  /\ DOMAIN target = 0..w - 1
  /\ \A l \in 0..w - 1 : target[l] \in DOMAIN m.mem
  /\ \A l, h \in 0..w - 1 : target[l] = target[h] => l = h
  /\ \A l \in 0..w - 1 : \A u :
       LanesComputed(u, m, target, value, l) =>
         Interpret(P.code[k + l * stride], u) = Written(u, target[l], value[l])

\* The interpreter at the instruction of lane l writes that lane, whatever the
\* lanes before it have written.
LEMMA OneLane ==
  ASSUME NEW P, NEW k \in Int, NEW w \in Nat, NEW stride \in Nat, NEW m, NEW event,
         NEW target, NEW value, LanesWrite(P, k, w, stride, m, target, value),
         m.exc = "none", NEW l \in 0..w - 1, NEW u,
         LanesComputed(u, m, target, value, l),
         NEW j, j = k + l * stride, PlainOp(Op(P, j)),
         NEW r, r = InterpretOne(P, j, u, event)
  PROVE  r.pc = j + 1 /\ LanesComputed(r.m, m, target, value, l + 1)
<1>1. PICK n : n = Written(u, target[l], value[l])
  OBVIOUS
<1>2. n = Interpret(P.code[j], u)
  BY <1>1 DEF LanesWrite
<1>3. HasFrame(u) /\ ButMemory(u, m)
  BY DEF LanesComputed
<1>4. /\ HasFrame(n) /\ ButMemory(n, u)
      /\ \A x \in DOMAIN u.mem :
           n.mem[x] = IF x = target[l] THEN value[l] ELSE u.mem[x]
  <2>1. PICK d, y : d = target[l] /\ y = value[l]
    OBVIOUS
  <2>2. n = Written(u, d, y)
    BY <1>1, <2>1
  <2>3. /\ HasFrame(n) /\ ButMemory(n, u)
        /\ \A x \in DOMAIN u.mem : n.mem[x] = IF x = d THEN y ELSE u.mem[x]
    BY <1>3, <2>2, WordWritten
  <2> QED  BY <2>1, <2>3
<1>5. ButMemory(n, m)
  BY <1>3, <1>4 DEF ButMemory
<1>6. r.pc = j + 1 /\ r.m = n
  <2>1. n.exc = "none"
    BY <1>5 DEF ButMemory
  <2> QED  BY <1>2, <2>1, PlainAt DEF PlainOp
<1>7. DOMAIN target = 0..w - 1 /\ DOMAIN u.mem = DOMAIN m.mem
  BY <1>3 DEF LanesWrite, ButMemory
<1>8. ASSUME NEW h \in DOMAIN target, h < l + 1
      PROVE  n.mem[target[h]] = value[h]
  <2>1. target[h] \in DOMAIN m.mem /\ target[l] \in DOMAIN m.mem
    BY <1>7 DEF LanesWrite
  <2>2. CASE h = l
    BY <1>4, <1>7, <2>1, <2>2
  <2>3. CASE h # l
    <3>1. h < l /\ target[h] # target[l]
      BY <1>7, <1>8, <2>3 DEF LanesWrite
    <3>2. u.mem[target[h]] = value[h]
      BY <3>1 DEF LanesComputed
    <3> QED  BY <1>4, <1>7, <2>1, <3>1, <3>2
  <2> QED  BY <2>2, <2>3
<1>9. ASSUME NEW x \in DOMAIN m.mem, \A h \in DOMAIN target : h < l + 1 => x # target[h]
      PROVE  n.mem[x] = m.mem[x]
  <2>1. l \in DOMAIN target /\ l < l + 1 /\ l \in Int
    BY <1>7
  <2>2. x # target[l]
    BY <1>9, <2>1
  <2>3. \A h \in DOMAIN target : h < l => h < l + 1
    BY <1>7
  <2>4. u.mem[x] = m.mem[x]
    BY <1>9, <2>3 DEF LanesComputed
  <2> QED  BY <1>4, <1>7, <2>2, <2>4
<1>10. LanesComputed(n, m, target, value, l + 1)
  BY <1>4, <1>5, <1>8, <1>9 DEF LanesComputed
<1> QED  BY <1>6, <1>10

\* The instructions of the lanes, with an entry before each but the first or none.
LaneOps(P, k, w, stride) ==
  \A l \in 0..w - 1 :
    /\ PlainOp(Op(P, k + l * stride))
    /\ l # 0 /\ stride = 2 => Op(P, k + l * stride - 1) = "JitEntry"

\* The instructions up to lane l of the group at k.
UpToLane(P, k, m, stride, l, event) == InterpretMany(P, k, m, l * stride + 1, event)

\* From one lane to the next is one instruction, behind a JitEntry or not.
LEMMA NextLane ==
  ASSUME NEW P, NEW k \in Nat, NEW w \in Nat, NEW stride \in {1, 2}, NEW m, NEW event,
         LaneOps(P, k, w, stride), NEW l \in Nat, l + 1 \in 0..w - 1,
         NEW r, r = UpToLane(P, k, m, stride, l, event), r.pc = k + l * stride + 1,
         NEW j, j = k + (l + 1) * stride
  PROVE  UpToLane(P, k, m, stride, l + 1, event) = InterpretOne(P, j, r.m, event)
<1>1. CASE stride = 1
  <2>1. PICK count \in Nat : count = l * stride + 1
    BY <1>1
  <2>2. (l + 1) * stride + 1 = count + 1 /\ r.pc = j
    BY <1>1, <2>1
  <2>3. r = InterpretMany(P, k, m, count, event)
    BY <2>1 DEF UpToLane
  <2>4. InterpretMany(P, k, m, count + 1, event) = InterpretOne(P, r.pc, r.m, event)
    BY <2>3, OneMoreInterpreted
  <2> QED  BY <2>2, <2>4 DEF UpToLane
<1>2. CASE stride = 2
  <2>1. PICK count \in Nat : count = l * stride + 1
    BY <1>2
  <2>2. (l + 1) * stride + 1 = count + 1 + 1 /\ r.pc = j - 1 /\ j - 1 + 1 = j /\ l + 1 # 0
        /\ j \in Int
    BY <1>2, <2>1
  <2>3. r = InterpretMany(P, k, m, count, event)
    BY <2>1 DEF UpToLane
  <2>4. PICK s : s = InterpretMany(P, k, m, count + 1, event)
    OBVIOUS
  <2>5. s = InterpretOne(P, r.pc, r.m, event)
    BY <2>3, <2>4, OneMoreInterpreted
  <2>6. PICK e, u : e = j - 1 /\ u = r.m
    OBVIOUS
  <2>7. Op(P, e) = "JitEntry"
    <3>1. PICK q \in 0..w - 1 : q = l + 1
      OBVIOUS
    <3>2. q # 0 /\ stride = 2 => Op(P, k + q * stride - 1) = "JitEntry"
      BY Zenon DEF LaneOps
    <3>3. PICK y : y = k + q * stride - 1
      OBVIOUS
    <3>4. y = e
      <4>1. k + q * stride = j
        BY <3>1
      <4> QED  BY <2>6, <3>3, <4>1
    <3>5. Op(P, y) = "JitEntry"
      BY <1>2, <2>2, <3>1, <3>2, <3>3
    <3> QED  BY <3>4, <3>5
  <2>8. InterpretOne(P, e, u, event) = [pc |-> e + 1, m |-> u]
    BY <2>7, ControlAt
  <2>9. s.pc = j /\ s.m = r.m
    BY <2>2, <2>5, <2>6, <2>8
  <2>10. InterpretMany(P, k, m, count + 1 + 1, event) = InterpretOne(P, s.pc, s.m, event)
    <3>1. PICK c \in Nat : c = count + 1
      BY <2>1
    <3>2. s = InterpretMany(P, k, m, c, event)
      BY <2>4, <3>1
    <3>3. InterpretMany(P, k, m, c + 1, event) = InterpretOne(P, s.pc, s.m, event)
      BY <3>2, OneMoreInterpreted
    <3> QED  BY <3>1, <3>3
  <2> QED  BY <2>2, <2>9, <2>10 DEF UpToLane
<1> QED  BY <1>1, <1>2

\* After the instructions up to lane l the lanes up to l are computed, by
\* induction over the lanes.
LEMMA LanesInterpreted ==
  ASSUME NEW P, NEW k \in Nat, NEW w \in Nat \ {0}, NEW stride \in {1, 2}, NEW m, NEW event,
         LaneOps(P, k, w, stride), HasFrame(m), m.exc = "none", NEW target, NEW value,
         LanesWrite(P, k, w, stride, m, target, value)
  PROVE  \A l \in Nat :
           l <= w - 1 =>
             /\ UpToLane(P, k, m, stride, l, event).pc = k + l * stride + 1
             /\ LanesComputed(UpToLane(P, k, m, stride, l, event).m, m, target, value, l + 1)
<1> DEFINE LaneDone(l) ==
             /\ UpToLane(P, k, m, stride, l, event).pc = k + l * stride + 1
             /\ LanesComputed(UpToLane(P, k, m, stride, l, event).m, m, target, value, l + 1)
           S == {l \in Nat : l <= w - 1 => LaneDone(l)}
<1>1. 0 \in S
  <2>1. 0 * stride + 1 = 1 /\ k + 0 * stride = k /\ 0 \in 0..w - 1 /\ 0 + 1 = 1
    OBVIOUS
  <2>2. LanesComputed(m, m, target, value, 0)
    <3>1. \A h \in DOMAIN target : ~(h < 0)
      BY DEF LanesWrite
    <3> QED  BY <3>1 DEF LanesComputed, ButMemory
  <2>3. PICK zero \in 0..w - 1 : zero = 0
    BY <2>1
  <2>4. PICK r : r = InterpretOne(P, k, m, event)
    OBVIOUS
  <2>5. UpToLane(P, k, m, stride, 0, event) = r
    BY <2>1, <2>4, OneInterpreted DEF UpToLane
  <2>6. PlainOp(Op(P, k))
    BY <2>1 DEF LaneOps
  <2>7. r.pc = k + 1 /\ LanesComputed(r.m, m, target, value, zero + 1)
    <3>1. PICK j : j = k + zero * stride
      OBVIOUS
    <3>2. j = k /\ stride \in Nat /\ w \in Nat /\ k \in Int
      BY <2>1, <2>3, <3>1
    <3>3. LanesComputed(m, m, target, value, zero)
      BY <2>2, <2>3
    <3>4. PlainOp(Op(P, j)) /\ r = InterpretOne(P, j, m, event)
      BY <2>4, <2>6, <3>2
    <3>5. r.pc = j + 1 /\ LanesComputed(r.m, m, target, value, zero + 1)
      <4>1. PICK u : u = m
        OBVIOUS
      <4>2. LanesComputed(u, m, target, value, zero) /\ r = InterpretOne(P, j, u, event)
        BY <3>3, <3>4, <4>1
      <4>3. PlainOp(Op(P, j)) /\ stride \in Nat /\ w \in Nat /\ k \in Int
        BY <3>2, <3>4
      <4> HIDE DEF LaneDone, S
      <4> QED  BY <3>1, <4>2, <4>3, OneLane
    <3> QED  BY <3>2, <3>5
  <2>8. LaneDone(0)
    BY <2>1, <2>3, <2>5, <2>7
  <2> HIDE DEF LaneDone
  <2> QED  BY <2>8
<1>2. ASSUME NEW l \in Nat, l \in S PROVE l + 1 \in S
  <2>1. SUFFICES ASSUME l + 1 <= w - 1 PROVE LaneDone(l + 1)
    <3> HIDE DEF LaneDone
    <3> QED  OBVIOUS
  <2>2. l <= w - 1 /\ l + 1 \in 0..w - 1
    BY <2>1
  <2>3. PICK r : r = UpToLane(P, k, m, stride, l, event)
    OBVIOUS
  <2>4. r.pc = k + l * stride + 1 /\ LanesComputed(r.m, m, target, value, l + 1)
    BY <1>2, <2>2, <2>3
  <2>5. PICK next \in 0..w - 1 : next = l + 1
    BY <2>2
  <2>6. PICK j : j = k + next * stride
    OBVIOUS
  <2>7. PICK s : s = InterpretOne(P, j, r.m, event)
    OBVIOUS
  <2>8. UpToLane(P, k, m, stride, next, event) = s
    <3>1. j = k + (l + 1) * stride
      BY <2>5, <2>6
    <3>2. w \in Nat /\ r.pc = k + l * stride + 1
      BY <2>4
    <3>3. UpToLane(P, k, m, stride, l + 1, event) = InterpretOne(P, j, r.m, event)
      BY <2>2, <2>3, <3>1, <3>2, NextLane
    <3> QED  BY <2>5, <2>7, <3>3
  <2>9. s.pc = j + 1 /\ LanesComputed(s.m, m, target, value, next + 1)
    <3>1. PICK u : u = r.m
      OBVIOUS
    <3>2. LanesComputed(u, m, target, value, next) /\ s = InterpretOne(P, j, u, event)
      BY <2>4, <2>5, <2>7, <3>1
    <3>3. PlainOp(Op(P, j))
      BY <2>6 DEF LaneOps
    <3>4. stride \in Nat /\ w \in Nat /\ k \in Int
      OBVIOUS
    <3> QED  BY <2>6, <3>2, <3>3, <3>4, OneLane
  <2>10. k + (l + 1) * stride + 1 = j + 1
    BY <2>5, <2>6
  <2> QED  BY <2>5, <2>8, <2>9, <2>10
<1>3. \A l \in Nat : l \in S
  <2> HIDE DEF S
  <2> QED  BY <1>1, <1>2, SetInduction
<1> QED  BY <1>3

\* Lanes of one operation, each on a variable of its own; no lane reads what one
\* before it has written.
LanesApart(P, k, w, stride) ==
  /\ \A l \in 0..w - 1 :
       LET i == P.code[k + l * stride]
       IN  /\ i.op = Op(P, k) /\ i.a = i.b /\ i.a \in Int
           /\ Op(P, k) \in FloatOps => i.c \in Int
  /\ \A l, h \in 0..w - 1 :
       LET i == P.code[k + l * stride]
           j == P.code[k + h * stride]
       IN  /\ i.a = j.a => l = h
           /\ Op(P, k) \in FloatOps /\ h < l => j.a # i.c

\* What a lane computes.
LaneValue(i, m) ==
  Half(FloatResult(i.op, m.mem[Fp - i.a],
                   IF i.op \in FloatOps THEN m.mem[Fp - i.c] ELSE i.q[1], WordBits))

\* The instruction of a lane writes its value to its variable, and nothing else.
LEMMA LaneWritten ==
  ASSUME NEW i, i.op \in PackedOps, i.a = i.b, NEW m
  PROVE  Interpret(i, m) = Written(m, Fp - i.a, LaneValue(i, m))
<1>1. CASE i.op \in {"ADDf", "SUBf", "MULf"}
  <2>1. i.op \in FloatOps /\ i.op \notin {"DIVf", "MODf"}
    BY <1>1 DEF FloatOps
  <2>2. Interpret(i, m) = SetVar(m, i.a, FloatResult(i.op, Var(m, i.b), Var(m, i.c), WordBits))
    BY <1>1, <2>1, HelpersOfShortcuts DEF Float
  <2> QED  BY <2>1, <2>2 DEF SetVar, Var, Written, LaneValue, Half
<1>2. CASE i.op \in {"ADDIf", "SUBIf", "MULIf"}
  <2>1. i.op \notin FloatOps
    BY <1>2 DEF FloatOps
  <2>2. Interpret(i, m) = SetVar(m, i.a, FloatResult(i.op, Var(m, i.b), i.q[1], WordBits))
    BY <1>2, HelpersOfShortcuts DEF FloatImmediate
  <2> QED  BY <2>1, <2>2 DEF SetVar, Var, Written, LaneValue, Half
<1> QED  BY <1>1, <1>2 DEF PackedOps

Targets(P, k, w, stride) == [l \in 0..w - 1 |-> Fp - P.code[k + l * stride].a]
Values(P, k, w, stride, m) == [l \in 0..w - 1 |-> LaneValue(P.code[k + l * stride], m)]

\* The lanes of a group that are apart write what they would write first of all.
LEMMA LanesWriteTargets ==
  ASSUME NEW P, NEW k, NEW w, NEW stride, LanesApart(P, k, w, stride),
         Op(P, k) \in PackedOps, NEW m,
         \A l \in 0..w - 1 :
           LET i == P.code[k + l * stride]
           IN  /\ Fp - i.a \in DOMAIN m.mem
               /\ Op(P, k) \in FloatOps => Fp - i.c \in DOMAIN m.mem
  PROVE  LanesWrite(P, k, w, stride, m, Targets(P, k, w, stride), Values(P, k, w, stride, m))
<1>1. PICK target, value : /\ target = Targets(P, k, w, stride)
                           /\ value = Values(P, k, w, stride, m)
  OBVIOUS
<1>2. /\ DOMAIN target = 0..w - 1
      /\ \A l \in 0..w - 1 : /\ target[l] = Fp - P.code[k + l * stride].a
                             /\ value[l] = LaneValue(P.code[k + l * stride], m)
  BY <1>1 DEF Targets, Values
<1>3. \A l \in 0..w - 1 : target[l] \in DOMAIN m.mem
  BY <1>2
<1>4. ASSUME NEW l \in 0..w - 1, NEW h \in 0..w - 1, target[l] = target[h]
      PROVE  l = h
  <2>1. PICK a \in Int, b \in Int : a = P.code[k + l * stride].a /\ b = P.code[k + h * stride].a
    BY DEF LanesApart
  <2>2. Fp - a = Fp - b
    BY <1>2, <1>4, <2>1
  <2>3. a = b
    BY <2>2, LocalCacheAssumption
  <2> QED  BY <2>1, <2>3 DEF LanesApart
<1>5. ASSUME NEW l \in 0..w - 1, NEW u, LanesComputed(u, m, target, value, l)
      PROVE  Interpret(P.code[k + l * stride], u) = Written(u, target[l], value[l])
  <2>1. PICK i : i = P.code[k + l * stride]
    OBVIOUS
  <2>2. /\ i.op = Op(P, k) /\ i.a = i.b /\ i.a \in Int
        /\ i.op \in FloatOps => i.c \in Int
    BY <2>1 DEF LanesApart
  <2>3. Interpret(i, u) = Written(u, Fp - i.a, LaneValue(i, u))
    BY <2>2, LaneWritten
  <2>4. u.mem[Fp - i.a] = m.mem[Fp - i.a]
    <3>1. ASSUME NEW h \in DOMAIN target, h < l PROVE Fp - i.a # target[h]
      <4>1. h \in 0..w - 1 /\ l \in Int /\ h # l
        BY <1>2, <3>1
      <4> QED  BY <1>2, <1>4, <2>1, <4>1
    <3>2. Fp - i.a \in DOMAIN m.mem
      BY <2>1
    <3> QED  BY <1>5, <3>1, <3>2 DEF LanesComputed
  <2>5. i.op \in FloatOps => u.mem[Fp - i.c] = m.mem[Fp - i.c]
    <3>0. SUFFICES ASSUME i.op \in FloatOps PROVE u.mem[Fp - i.c] = m.mem[Fp - i.c]
      OBVIOUS
    <3>1. ASSUME NEW h \in DOMAIN target, h < l PROVE Fp - i.c # target[h]
      <4>1. h \in 0..w - 1
        BY <1>2
      <4>2. PICK j : j = P.code[k + h * stride]
        OBVIOUS
      <4>3. j.a # i.c /\ j.a \in Int /\ i.c \in Int /\ target[h] = Fp - j.a
        BY <1>2, <2>1, <2>2, <3>0, <3>1, <4>1, <4>2 DEF LanesApart
      <4> QED  BY <4>3, LocalCacheAssumption
    <3>2. Fp - i.c \in DOMAIN m.mem
      BY <2>1, <2>2, <3>0
    <3> QED  BY <1>5, <3>1, <3>2 DEF LanesComputed
  <2>6. LaneValue(i, u) = LaneValue(i, m)
    BY <2>4, <2>5 DEF LaneValue
  <2> QED  BY <1>2, <2>1, <2>3, <2>6
<1>6. LanesWrite(P, k, w, stride, m, target, value)
  BY <1>2, <1>3, <1>4, <1>5, Zenon DEF LanesWrite
<1> QED  BY <1>1, <1>6

-----------------------------------------------------------------------------
(* The lanes of a group that fits.                                         *)

\* The offsets of the lanes go up or down by one.
LaneOffsets(P, k, w, stride, step) ==
  \A l \in 0..w - 1 : LET i == P.code[k + l * stride]
                      IN  i.op = Op(P, k) /\ i.a = i.b /\ i.a = P.code[k].a + step * l

\* The positions of the lanes are those the test of the group goes through.
LEMMA LaneAt ==
  ASSUME NEW k \in Nat, NEW w \in Nat, NEW stride \in {1, 2}, NEW l \in 0..w - 1,
         NEW j, j = k + l * stride
  PROVE  j \in LanePositions(k, w, stride) /\ (j - k) \div stride = l /\ j \in Nat
<1>1. j \in LanePositions(k, w, stride)
  BY DEF LanePositions
<1>2. (j - k) \div stride = l /\ j \in Nat
  <2>1. CASE stride = 1
    BY <2>1
  <2>2. CASE stride = 2
    BY <2>2
  <2> QED  BY <2>1, <2>2
<1> QED  BY <1>1, <1>2

\* One operation, each lane on its own variable.
SameOperation(P, k, w, stride) ==
  \A l \in 0..w - 1 :
    LET i == P.code[k + l * stride] IN i.op = Op(P, k) /\ i.a = i.b

\* The test of a group finds one operation in all lanes, each on its own
\* variable.
LEMMA LanesFitAre ==
  ASSUME NEW P, NEW k \in Nat, NEW w \in Nat, NEW stride \in {1, 2},
         LanesFit(P, k, w, stride), Op(P, k) \in PackedOps
  PROVE  LaneOps(P, k, w, stride) /\ SameOperation(P, k, w, stride)
<1>1. PlainOp(Op(P, k))
  BY DEF PackedOps, PlainOp, ControlOps, CallOps, IsBranch, IsConditionalBranch
<1>2. ASSUME NEW l \in 0..w - 1
      PROVE  /\ Op(P, k + l * stride) = Op(P, k)
             /\ P.code[k + l * stride].a = P.code[k + l * stride].b
             /\ l # 0 /\ stride = 2 => Op(P, k + l * stride - 1) = "JitEntry"
  <2>1. PICK j : j = k + l * stride
    OBVIOUS
  <2>2. j \in LanePositions(k, w, stride)
    BY <2>1, LaneAt
  <2>3. l # 0 => j # k
    BY <2>1
  <2>4. Op(P, j) = Op(P, k) /\ P.code[j].a = P.code[j].b
    BY <2>2, Zenon DEF LanesFit
  <2>5. j # k /\ stride = 2 => Op(P, j - 1) = "JitEntry"
    BY <2>2, Zenon DEF LanesFit
  <2> QED  BY <2>1, <2>3, <2>4, <2>5
<1>3. LaneOps(P, k, w, stride)
  BY <1>1, <1>2 DEF LaneOps
<1>4. SameOperation(P, k, w, stride)
  BY <1>2 DEF Op, SameOperation
<1> QED  BY <1>3, <1>4

\* The lanes of two variables each.
LanesDescend(P, k, w, stride) ==
  /\ LanesApart(P, k, w, stride) /\ LaneOffsets(P, k, w, stride, -1)
  /\ \A l \in 0..w - 1 : P.code[k + l * stride].c = P.code[k].c - l

\* EmitPackedFloatBinary takes groups only whose offsets descend and do not
\* overlap, or are equal: no lane reads what one before it writes.
LEMMA BinaryLanes ==
  ASSUME NEW P, NEW k \in Nat, NEW w \in Nat \ {0, 1}, NEW stride \in {1, 2},
         PackedBinary(P, k, w, stride), P.code[k].a \in Int, P.code[k].c \in Int
  PROVE  LanesDescend(P, k, w, stride)
<1>1. PICK a \in Int, c \in Int : a = P.code[k].a /\ c = P.code[k].c
  OBVIOUS
<1>2. /\ Op(P, k) \in PackedOps /\ LanesFit(P, k, w, stride)
  BY DEF PackedBinary, PackedOps
<1>3. \A j \in LanePositions(k, w, stride) :
        /\ P.code[j].a = a - ((j - k) \div stride)
        /\ P.code[j].c = c - ((j - k) \div stride)
  BY <1>1 DEF PackedBinary
<1>4. (a - w + 1..a) \intersect (c - w + 1..c) # {} => a = c
  BY <1>1 DEF PackedBinary
<1>5. ASSUME NEW l \in 0..w - 1
      PROVE  /\ P.code[k + l * stride].op = Op(P, k)
             /\ P.code[k + l * stride].a = P.code[k + l * stride].b
             /\ P.code[k + l * stride].a = a - l /\ P.code[k + l * stride].c = c - l
  <2>1. PICK j : j = k + l * stride
    OBVIOUS
  <2>2. j \in LanePositions(k, w, stride) /\ (j - k) \div stride = l
    <3>1. j \in LanePositions(k, w, stride)
      BY <2>1 DEF LanePositions
    <3>2. CASE stride = 1
      BY <2>1, <3>1, <3>2
    <3>3. CASE stride = 2
      BY <2>1, <3>1, <3>3
    <3> QED  BY <3>2, <3>3
  <2>3. P.code[j].op = Op(P, k) /\ P.code[j].a = P.code[j].b
    <3>1. w \in Nat
      OBVIOUS
    <3>2. SameOperation(P, k, w, stride)
      BY <1>2, <3>1, LanesFitAre
    <3>3. LET i == P.code[k + l * stride] IN i.op = Op(P, k) /\ i.a = i.b
      BY <3>2, Zenon DEF SameOperation
    <3> QED  BY <2>1, <3>3
  <2> QED  BY <1>3, <2>1, <2>2, <2>3
<1>6. ASSUME NEW l \in 0..w - 1, NEW h \in 0..w - 1, h < l PROVE a - h # c - l
  <2>1. SUFFICES ASSUME a - h = c - l PROVE FALSE
    OBVIOUS
  <2>2. a - h \in a - w + 1..a /\ a - h \in c - w + 1..c
    BY <2>1
  <2> QED  BY <1>4, <1>6, <2>1, <2>2
<1>7. \A l \in 0..w - 1 :
        LET i == P.code[k + l * stride]
        IN  /\ i.op = Op(P, k) /\ i.a = i.b /\ i.a \in Int
            /\ Op(P, k) \in FloatOps => i.c \in Int
  BY <1>5
<1>8. ASSUME NEW l \in 0..w - 1, NEW h \in 0..w - 1
      PROVE  LET i == P.code[k + l * stride]
                 j == P.code[k + h * stride]
             IN  /\ i.a = j.a => l = h
                 /\ Op(P, k) \in FloatOps /\ h < l => j.a # i.c
  <2>1. PICK i, j : i = P.code[k + l * stride] /\ j = P.code[k + h * stride]
    OBVIOUS
  <2>2. i.a = a - l /\ j.a = a - h /\ i.c = c - l
    BY <1>5, <2>1
  <2>3. i.a = j.a => l = h
    BY <2>2
  <2>4. h < l => j.a # i.c
    BY <1>6, <2>2
  <2> QED  BY <2>1, <2>3, <2>4
<1>9. LanesApart(P, k, w, stride)
  BY <1>7, <1>8 DEF LanesApart
<1>10. LaneOffsets(P, k, w, stride, -1)
  <2>1. \A l \in 0..w - 1 : a - l = a + (-1) * l
    OBVIOUS
  <2> QED  BY <1>1, <1>5, <2>1 DEF LaneOffsets
<1> QED  BY <1>1, <1>5, <1>9, <1>10 DEF LanesDescend

\* EmitPackedFloatImmediate takes groups only whose offsets rise or fall by one,
\* with the same constant.
LEMMA ImmediateLanes ==
  ASSUME NEW P, NEW k \in Nat, NEW w \in Nat \ {0, 1}, NEW stride \in {1, 2},
         PackedImmediate(P, k, w, stride), P.code[k].a \in Int,
         NEW step, step = P.code[k + stride].a - P.code[k].a
  PROVE  /\ step \in {1, -1}
         /\ LanesApart(P, k, w, stride) /\ LaneOffsets(P, k, w, stride, step)
         /\ \A l \in 0..w - 1 : P.code[k + l * stride].q = P.code[k].q
<1>1. PICK a \in Int : a = P.code[k].a
  OBVIOUS
<1>2. /\ Op(P, k) \in PackedOps /\ LanesFit(P, k, w, stride) /\ step \in {1, -1}
  BY DEF PackedImmediate, PackedOps
<1>3. \A j \in LanePositions(k, w, stride) :
        /\ P.code[j].a = a + step * ((j - k) \div stride)
        /\ P.code[j].q = P.code[k].q
  BY <1>1 DEF PackedImmediate
<1>5. ASSUME NEW l \in 0..w - 1
      PROVE  /\ P.code[k + l * stride].op = Op(P, k)
             /\ P.code[k + l * stride].a = P.code[k + l * stride].b
             /\ P.code[k + l * stride].a = a + step * l
             /\ P.code[k + l * stride].q = P.code[k].q
  <2>1. PICK j : j = k + l * stride
    OBVIOUS
  <2>2. j \in LanePositions(k, w, stride) /\ (j - k) \div stride = l
    <3>1. j \in LanePositions(k, w, stride)
      BY <2>1 DEF LanePositions
    <3>2. CASE stride = 1
      BY <2>1, <3>1, <3>2
    <3>3. CASE stride = 2
      BY <2>1, <3>1, <3>3
    <3> QED  BY <3>2, <3>3
  <2>3. P.code[j].op = Op(P, k) /\ P.code[j].a = P.code[j].b
    <3>1. w \in Nat
      OBVIOUS
    <3>2. SameOperation(P, k, w, stride)
      BY <1>2, <3>1, LanesFitAre
    <3>3. LET i == P.code[k + l * stride] IN i.op = Op(P, k) /\ i.a = i.b
      BY <3>2, Zenon DEF SameOperation
    <3> QED  BY <2>1, <3>3
  <2> QED  BY <1>3, <2>1, <2>2, <2>3
<1>6. Op(P, k) \notin FloatOps
  BY DEF PackedImmediate, FloatOps
<1>7. \A l \in 0..w - 1 : a + step * l \in Int
  BY <1>2
<1>8. \A l, h \in 0..w - 1 : a + step * l = a + step * h => l = h
  BY <1>2
<1>9. LanesApart(P, k, w, stride)
  <2>1. \A l \in 0..w - 1 :
          LET i == P.code[k + l * stride]
          IN  /\ i.op = Op(P, k) /\ i.a = i.b /\ i.a \in Int
              /\ Op(P, k) \in FloatOps => i.c \in Int
    BY <1>5, <1>6, <1>7
  <2>2. ASSUME NEW l \in 0..w - 1, NEW h \in 0..w - 1
        PROVE  P.code[k + l * stride].a = P.code[k + h * stride].a => l = h
    <3>1. PICK i, j : i = P.code[k + l * stride] /\ j = P.code[k + h * stride]
      OBVIOUS
    <3>2. i.a = a + step * l /\ j.a = a + step * h
      BY <1>5, <3>1
    <3> QED  BY <1>8, <3>1, <3>2
  <2> QED  BY <1>6, <2>1, <2>2 DEF LanesApart
<1>10. LaneOffsets(P, k, w, stride, step)
  BY <1>1, <1>5 DEF LaneOffsets
<1> QED  BY <1>2, <1>5, <1>9, <1>10

-----------------------------------------------------------------------------
(* The lanes computed at once.                                             *)

\* The first variable of the group.
Lowest(P, k, w, stride) ==
  Fp - (IF P.code[k + stride].a > P.code[k].a THEN P.code[k].a + w - 1 ELSE P.code[k].a)

\* The variables from low on are those of the lanes.
Fill(P, k, w, stride, step, low) ==
  /\ low \in Int
  /\ \A x \in Int : x \in low..low + w - 1 <=>
                      \E l \in 0..w - 1 : x = Fp - P.code[k + l * stride].a
  /\ step = -1 => low = Fp - P.code[k].a

\* The variables of the lanes are the words of one range of memory, each of one
\* lane.
LEMMA LanesFill ==
  ASSUME NEW P, NEW k \in Nat, NEW w \in Nat \ {0, 1}, NEW stride \in {1, 2},
         NEW step \in {1, -1}, LaneOffsets(P, k, w, stride, step), P.code[k].a \in Int
  PROVE  Fill(P, k, w, stride, step, Lowest(P, k, w, stride))
<1>0. PICK low : low = Lowest(P, k, w, stride)
  OBVIOUS
<1>1. PICK a \in Int : a = P.code[k].a
  OBVIOUS
<1>2. \A l \in 0..w - 1 : P.code[k + l * stride].a = a + step * l
  BY <1>1 DEF LaneOffsets
<1>3. P.code[k + stride].a = a + step
  <2>1. 1 \in 0..w - 1 /\ k + 1 * stride = k + stride /\ step * 1 = step
    OBVIOUS
  <2> QED  BY <1>2, <2>1
<1>4. CASE step = 1
  <2>1. low = Fp - (a + w - 1)
    BY <1>0, <1>1, <1>3, <1>4 DEF Lowest
  <2>2. ASSUME NEW x \in low..low + w - 1 PROVE \E l \in 0..w - 1 : x = Fp - (a + l)
    <3>1. low + w - 1 - x \in 0..w - 1 /\ x = Fp - (a + (low + w - 1 - x))
      BY <2>1, LocalCacheAssumption
    <3> QED  BY <3>1
  <2>3. \A l \in 0..w - 1 : Fp - (a + l) \in low..low + w - 1
    BY <2>1, LocalCacheAssumption
  <2>4. \A l \in 0..w - 1 : P.code[k + l * stride].a = a + l
    BY <1>2, <1>4
  <2>5. low \in Int /\ step # -1
    BY <1>4, <2>1, LocalCacheAssumption
  <2>6. ASSUME NEW x \in Int
        PROVE  x \in low..low + w - 1 <=>
                 \E l \in 0..w - 1 : x = Fp - P.code[k + l * stride].a
    BY <2>2, <2>3, <2>4
  <2> QED  BY <1>0, <2>5, <2>6 DEF Fill
<1>5. CASE step = -1
  <2>1. low = Fp - a
    BY <1>0, <1>1, <1>3, <1>5 DEF Lowest
  <2>2. ASSUME NEW x \in low..low + w - 1 PROVE \E l \in 0..w - 1 : x = Fp - (a - l)
    <3>1. x - low \in 0..w - 1 /\ x = Fp - (a - (x - low))
      BY <2>1, LocalCacheAssumption
    <3> QED  BY <3>1
  <2>3. \A l \in 0..w - 1 : Fp - (a - l) \in low..low + w - 1
    BY <2>1, LocalCacheAssumption
  <2>4. \A l \in 0..w - 1 : P.code[k + l * stride].a = a - l
    BY <1>2, <1>5
  <2>5. low \in Int /\ low = Fp - P.code[k].a
    BY <1>1, <2>1, LocalCacheAssumption
  <2>6. ASSUME NEW x \in Int
        PROVE  x \in low..low + w - 1 <=>
                 \E l \in 0..w - 1 : x = Fp - P.code[k + l * stride].a
    BY <2>2, <2>3, <2>4
  <2> QED  BY <1>0, <2>5, <2>6 DEF Fill
<1> QED  BY <1>4, <1>5

\* What the lanes have besides their variables.
LaneOperands(P, k, w, stride, step) ==
  \A l \in 0..w - 1 :
    LET i == P.code[k + l * stride]
    IN  /\ Op(P, k) \in FloatOps =>
             step = -1 /\ P.code[k].c \in Int /\ i.c = P.code[k].c - l
        /\ Op(P, k) \notin FloatOps => i.q = P.code[k].q

\* n is m where the lanes have been computed at once.
LanesAtOnce(n, m, P, k, w, stride) ==
  /\ HasFrame(n) /\ ButMemory(n, m)
  /\ \A l \in 0..w - 1 :
       LET i == P.code[k + l * stride]
       IN  Fp - i.a \in DOMAIN m.mem => n.mem[Fp - i.a] = LaneValue(i, m)
  /\ \A x \in DOMAIN m.mem :
       (\A l \in 0..w - 1 : x # Fp - P.code[k + l * stride].a) => n.mem[x] = m.mem[x]

\* The packed code writes to the variable of every lane what its instruction
\* would write if it were the only one.
LEMMA PackedLanesMean ==
  ASSUME NEW P, NEW k \in Nat, NEW w \in Nat \ {0, 1}, NEW stride \in {1, 2},
         NEW step \in {1, -1}, LaneOffsets(P, k, w, stride, step), P.code[k].a \in Int,
         LaneOperands(P, k, w, stride, step), Op(P, k) \in PackedOps,
         plan.packed[k].stride = stride, NEW m, HasFrame(m)
  PROVE  LanesAtOnce(RunPackedLanes(P, k, w, m), m, P, k, w, stride)
<1>0. PICK n : n = RunPackedLanes(P, k, w, m)
  OBVIOUS
<1>1. PICK i, u, D : i = P.code[k] /\ u = m.mem /\ D = DOMAIN u
  OBVIOUS
<1>2. PICK low : low = Lowest(P, k, w, stride)
  OBVIOUS
<1>3. /\ low \in Int
      /\ \A x \in Int : x \in low..low + w - 1 <=>
                          \E l \in 0..w - 1 : x = Fp - P.code[k + l * stride].a
      /\ step = -1 => low = Fp - P.code[k].a
  <2>1. Fill(P, k, w, stride, step, low)
    BY <1>2, LanesFill
  <2> QED  BY <2>1 DEF Fill
<1>4. i.op = Op(P, k) /\ (i.op \in {"ADDf", "SUBf", "MULf"} <=> i.op \in FloatOps)
  BY <1>1 DEF Op, PackedOps, FloatOps
<1> DEFINE Operand(x) == IF i.op \in FloatOps THEN u[x - low + Fp - i.c] ELSE i.q[1]
           ValueAt(x) == IF x \in low..low + w - 1
                       THEN Half(FloatResult(i.op, u[x], Operand(x), WordBits)) ELSE u[x]
<1>5. PICK v : v = [x \in D |-> ValueAt(x)]
  OBVIOUS
<1>6. n = [m EXCEPT !.mem = v]
  BY <1>0, <1>1, <1>2, <1>4, <1>5 DEF RunPackedLanes, Lowest
<1>7. n.mem = v /\ DOMAIN n = DOMAIN m
      /\ n.sp = m.sp /\ n.object = m.object /\ n.exc = m.exc /\ n.reg = m.reg
  <2> HIDE DEF ValueAt
  <2> QED  BY <1>6 DEF HasFrame
<1>8. /\ v = [x \in D |-> v[x]] /\ DOMAIN v = D /\ \A x \in D : v[x] = ValueAt(x)
  <2> HIDE DEF ValueAt
  <2> QED  BY <1>5
<1>9. HasFrame(n) /\ ButMemory(n, m)
  <2>1. D \subseteq Int
    BY <1>1 DEF HasFrame
  <2> HIDE DEF ValueAt
  <2> QED  BY <1>1, <1>7, <1>8, <2>1 DEF HasFrame, ButMemory
<1>10. ASSUME NEW l \in 0..w - 1, NEW j, j = P.code[k + l * stride], Fp - j.a \in D
       PROVE  n.mem[Fp - j.a] = LaneValue(j, m)
  <2>1. PICK x : x = Fp - j.a
    OBVIOUS
  <2>2. x \in Int /\ x \in low..low + w - 1
    BY <1>1, <1>3, <1>10, <2>1 DEF HasFrame
  <2>3. v[x] = Half(FloatResult(i.op, u[x], Operand(x), WordBits))
    <3> HIDE DEF Operand
    <3> QED  BY <1>8, <1>10, <2>1, <2>2
  <2>4. j.op = i.op /\ j.a = i.a + step * l
    BY <1>1, <1>4, <1>10 DEF LaneOffsets
  <2>5. Operand(x) = IF j.op \in FloatOps THEN m.mem[Fp - j.c] ELSE j.q[1]
    <3>1. CASE i.op \in FloatOps
      <4>1. step = -1 /\ i.c \in Int /\ j.c = i.c - l
        BY <1>1, <1>4, <1>10, <3>1 DEF LaneOperands
      <4>2. PICK a \in Int, c \in Int : a = i.a /\ c = i.c
        BY <1>1, <4>1
      <4>3. low = Fp - a
        BY <1>1, <1>3, <4>1, <4>2
      <4>4. j.a = a - l
        BY <2>4, <4>1, <4>2
      <4>5. x - low + Fp - c = Fp - (c - l)
        BY <2>1, <4>3, <4>4, LocalCacheAssumption
      <4> QED  BY <1>1, <2>4, <3>1, <4>1, <4>2, <4>5
    <3>2. CASE i.op \notin FloatOps
      <4>1. j.q = i.q
        BY <1>1, <1>4, <1>10, <3>2 DEF LaneOperands
      <4> QED  BY <2>4, <3>2, <4>1
    <3> QED  BY <3>1, <3>2
  <2> HIDE DEF Operand
  <2>6. v[x] = LaneValue(j, m)
    BY <1>1, <2>1, <2>3, <2>4, <2>5 DEF LaneValue
  <2> QED  BY <1>7, <2>1, <2>6
<1>11. ASSUME NEW x \in D, \A l \in 0..w - 1 : x # Fp - P.code[k + l * stride].a
       PROVE  n.mem[x] = m.mem[x]
  <2>1. x \in Int /\ x \notin low..low + w - 1
    BY <1>1, <1>3, <1>11 DEF HasFrame
  <2>2. v[x] = u[x]
    BY <1>8, <2>1
  <2> QED  BY <1>1, <1>7, <2>2
<1> QED  BY <1>0, <1>1, <1>9, <1>10, <1>11 DEF LanesAtOnce

-----------------------------------------------------------------------------
(* A group of the plan.                                                    *)

PackedShape(P, k, g) ==
  /\ ~CacheLocals(P) /\ Op(P, k) \in PackedOps
  /\ g.width \in Nat \ {0, 1} /\ g.stride \in {1, 2}
  /\ g.span = (g.width - 1) * g.stride + 1
  /\ PackedBinary(P, k, g.width, g.stride) \/ PackedImmediate(P, k, g.width, g.stride)

\* A packed group has passed one of the two tests, in a function that caches no
\* local.
LEMMA PackedGroupShape ==
  ASSUME NEW P, NEW k \in Positions(P), NEW avx \in BOOLEAN
  PROVE  PackedGroup(P, k, avx) = NotPacked \/ PackedShape(P, k, PackedGroup(P, k, avx))
<1> DEFINE shapes == IF avx THEN <<<<WideLanes, 2>>, <<WideLanes, 1>>,
                                   <<NarrowLanes, 2>>, <<NarrowLanes, 1>>>>
                     ELSE <<<<NarrowLanes, 2>>, <<NarrowLanes, 1>>>>
           Fits(s) == \/ PackedBinary(P, k, s[1], s[2])
                      \/ PackedImmediate(P, k, s[1], s[2])
           fitting == {n \in DOMAIN shapes : Fits(shapes[n])}
           first == CHOOSE n \in fitting : \A j \in fitting : n <= j
           best == shapes[first]
           g == [width |-> best[1], stride |-> best[2],
                 span |-> (best[1] - 1) * best[2] + 1]
<1>1. PackedGroup(P, k, avx) = IF CacheLocals(P) \/ fitting = {} THEN NotPacked ELSE g
  BY DEF PackedGroup
<1>2. CASE ~CacheLocals(P) /\ fitting # {}
  <2>1. fitting \subseteq Nat
    <3>1. DOMAIN shapes \subseteq Nat
      BY Zenon, SMT
    <3> HIDE DEF shapes
    <3> QED  BY <3>1
  <2>2. first \in fitting
    <3>1. \E n \in fitting : \A j \in fitting : n <= j
      <4> HIDE DEF fitting
      <4> QED  BY <1>2, <2>1, LeastExists
    <3> HIDE DEF fitting
    <3> QED  BY <3>1
  <2>3. \A n \in DOMAIN shapes :
          shapes[n][1] \in {WideLanes, NarrowLanes} /\ shapes[n][2] \in {1, 2}
    OBVIOUS
  <2>4. first \in DOMAIN shapes /\ Fits(best)
    <3> HIDE DEF shapes, first
    <3> QED  BY <2>2
  <2>5. best[1] \in Nat \ {0, 1} /\ best[2] \in {1, 2}
    <3> HIDE DEF shapes, first
    <3> QED  BY <2>3, <2>4, LanesAssumption
  <2>6. g.width = best[1] /\ g.stride = best[2] /\ g.span = (best[1] - 1) * best[2] + 1
    BY Zenon
  <2> HIDE DEF best, g
  <2>7. PackedBinary(P, k, g.width, g.stride) \/ PackedImmediate(P, k, g.width, g.stride)
    BY <2>4, <2>6
  <2>8. Op(P, k) \in PackedOps
    BY <2>7 DEF PackedBinary, PackedImmediate, PackedOps
  <2>9. PackedShape(P, k, g)
    BY <1>2, <2>5, <2>6, <2>7, <2>8 DEF PackedShape
  <2>10. PackedGroup(P, k, avx) = g
    <3> HIDE DEF fitting
    <3> QED  BY <1>1, <1>2
  <2> QED  BY <2>9, <2>10
<1>3. CASE CacheLocals(P) \/ fitting = {}
  <2> HIDE DEF fitting, g
  <2> QED  BY <1>1, <1>3
<1> HIDE DEF fitting
<1> QED  BY <1>2, <1>3

\* So has every group of the plan.
LEMMA PackedInPlanShape ==
  ASSUME NEW P, Len(P.code) \in Nat, NEW avx \in BOOLEAN, NEW p, p = Plan(P, avx),
         NEW k \in Positions(P), NEW g, g = p.packed[k], g.width > 0
  PROVE  PackedShape(P, k, g)
<1>1. p.packed = PackedGroups(P, avx)
  BY PlanFields
<1>2. g = NotPacked \/ g = PackedGroup(P, k, avx)
  <2>1. PackedGroups(P, avx)[k] =
          IF \E j \in 1..k - 1 : k < j + PackedGroups(P, avx)[j].span THEN NotPacked
          ELSE PackedGroup(P, k, avx)
    BY PackedGroupsEquation, Zenon
  <2> QED  BY <1>1, <2>1, Zenon
<1>3. g # NotPacked
  BY DEF NotPacked
<1>4. g = PackedGroup(P, k, avx)
  BY <1>2, <1>3
<1>5. PackedGroup(P, k, avx) = NotPacked \/ PackedShape(P, k, PackedGroup(P, k, avx))
  BY PackedGroupShape
<1> QED  BY <1>3, <1>4, <1>5, Zenon

\* The lanes of a group that fits, whatever its kind.
LEMMA LanesOfShape ==
  ASSUME NEW P, NEW k \in Nat, NEW w \in Nat \ {0, 1}, NEW stride \in {1, 2},
         PackedBinary(P, k, w, stride) \/ PackedImmediate(P, k, w, stride),
         P.code[k].a \in Int, Op(P, k) \in FloatOps => P.code[k].c \in Int
  PROVE  /\ LanesApart(P, k, w, stride) /\ LaneOps(P, k, w, stride)
         /\ \E step \in {1, -1} : /\ LaneOffsets(P, k, w, stride, step)
                                  /\ LaneOperands(P, k, w, stride, step)
<1>0. w \in Nat
  OBVIOUS
<1>1. CASE PackedBinary(P, k, w, stride)
  <2>1. LanesFit(P, k, w, stride) /\ Op(P, k) \in PackedOps /\ Op(P, k) \in FloatOps
    BY <1>1 DEF PackedBinary, PackedOps, FloatOps
  <2>2. LaneOps(P, k, w, stride)
    BY <1>0, <2>1, LanesFitAre
  <2>3. P.code[k].c \in Int
    BY <2>1
  <2>4. /\ LanesApart(P, k, w, stride) /\ LaneOffsets(P, k, w, stride, -1)
        /\ \A l \in 0..w - 1 : P.code[k + l * stride].c = P.code[k].c - l
    <3>1. LanesDescend(P, k, w, stride)
      BY <1>1, <2>3, BinaryLanes
    <3> QED  BY <3>1 DEF LanesDescend
  <2>5. LaneOperands(P, k, w, stride, -1)
    BY <2>1, <2>3, <2>4 DEF LaneOperands
  <2> QED  BY <2>2, <2>4, <2>5
<1>2. CASE PackedImmediate(P, k, w, stride)
  <2>1. LanesFit(P, k, w, stride) /\ Op(P, k) \in PackedOps /\ Op(P, k) \notin FloatOps
    BY <1>2 DEF PackedImmediate, PackedOps, FloatOps
  <2>2. LaneOps(P, k, w, stride)
    BY <1>0, <2>1, LanesFitAre
  <2>3. PICK step : step = P.code[k + stride].a - P.code[k].a
    OBVIOUS
  <2>4. /\ step \in {1, -1}
        /\ LanesApart(P, k, w, stride) /\ LaneOffsets(P, k, w, stride, step)
        /\ \A l \in 0..w - 1 : P.code[k + l * stride].q = P.code[k].q
    BY <1>2, <2>3, ImmediateLanes
  <2>5. LaneOperands(P, k, w, stride, step)
    BY <2>1, <2>4 DEF LaneOperands
  <2> QED  BY <2>2, <2>4, <2>5
<1> QED  BY <1>1, <1>2

\* Floats computed together, natively and in the interpreter.
LEMMA PackedFloatsStep ==
  ASSUME ControlInv, FunctionTypeOK, GoTogether, RunPackedFloats, Follow
  PROVE  mode' # "apart"
<1>1. mode = "native" /\ plan.packed[pc].width > 0
  BY Zenon DEF RunPackedFloats
<1>2. /\ pc \in Positions(program) /\ pc \in Nat /\ pc \in Int
      /\ Here.op = Op(program, pc) /\ Len(program.code) \in Nat
      /\ Here = program.code[pc]
  BY <1>1, Setting DEF Here
<1>3. PICK g : g = plan.packed[pc]
  OBVIOUS
<1>4. PICK avx \in BOOLEAN : plan = Plan(program, avx)
  BY <1>1, Setting
<1>5. PackedShape(program, pc, g)
  BY <1>1, <1>2, <1>3, <1>4, PackedInPlanShape
<1>5a. PICK span : span = g.span
  OBVIOUS
<1>6. PICK w \in Nat \ {0, 1}, stride \in {1, 2} : w = g.width /\ stride = g.stride
  BY <1>5 DEF PackedShape
<1>7. /\ ~CacheLocals(program) /\ Op(program, pc) \in PackedOps
      /\ span = (w - 1) * stride + 1
      /\ PackedBinary(program, pc, w, stride) \/ PackedImmediate(program, pc, w, stride)
  BY <1>5, <1>6, <1>5a DEF PackedShape
<1>8. PICK n : n = RunPackedLanes(program, pc, w, native)
  OBVIOUS
<1>9. Advance("native", pc + span, n, span, shadow, NoEvent)
  BY <1>3, <1>6, <1>5a, <1>8, Zenon DEF RunPackedFloats
<1>10. /\ IsFrame(native) /\ IsFrame(interpreter) /\ IsMachineState(native)
       /\ interpreter.exc = "none"
  BY <1>1, FrameOfMachine DEF FunctionTypeOK
<1>11. native.reg = NoRegisters
  <2>1. plan.cached = {}
    BY <1>4, <1>7 DEF Plan, CachedLocalOffsets
  <2>2. DOMAIN native.reg = {}
    BY <1>1, <2>1 DEF FunctionTypeOK
  <2>3. native.reg = [o \in DOMAIN native.reg |-> native.reg[o]]
    BY <1>10 DEF IsMachineState
  <2> QED  BY <2>2, <2>3 DEF NoRegisters
<1>12. DOMAIN native.mem = DOMAIN interpreter.mem
  BY <1>1 DEF GoTogether, WayIsKnown
<1>13. /\ native.sp = interpreter.sp /\ native.object = interpreter.object
       /\ native.exc = interpreter.exc
       /\ \A x \in DOMAIN native.mem :
            x >= native.sp => native.mem[x] = interpreter.mem[x]
  <2>1. SameState(native, interpreter)
    BY <1>1 DEF GoTogether, Together
  <2>2. View(native) = native.mem
    BY <1>10, <1>11, ViewWithoutRegisters
  <2> QED  BY <1>12, <2>1, <2>2 DEF SameState
<1>14. ASSUME NEW l \in 0..w - 1, NEW i, i = program.code[pc + l * stride]
       PROVE  /\ i.a \in Int /\ Fp - i.a >= native.sp /\ Fp - i.a \in DOMAIN native.mem
              /\ i.op \in FloatOps =>
                   i.c \in Int /\ Fp - i.c >= native.sp /\ Fp - i.c \in DOMAIN native.mem
  <2>1. PICK j : j = pc + l * stride
    OBVIOUS
  <2>2. j \in LanePositions(pc, w, stride)
    BY <2>1 DEF LanePositions
  <2>3. i = At(j)
    BY <1>14, <2>1 DEF At
  <2>4. VariablesHere =
          UNION {{At(k).a, IF At(k).op \in FloatOps THEN At(k).c ELSE At(k).a} :
                   k \in LanePositions(pc, w, stride)}
    BY <1>1, <1>3, <1>6 DEF VariablesHere
  <2>5. {At(j).a, IF At(j).op \in FloatOps THEN At(j).c ELSE At(j).a} \subseteq VariablesHere
    BY <2>2, <2>4
  <2>6. i.a \in VariablesHere /\ (i.op \in FloatOps => i.c \in VariablesHere)
    BY <2>3, <2>5
  <2>7. \A o \in VariablesHere :
          o \in Int /\ Fp - o >= native.sp /\ Fp - o \in DOMAIN native.mem
    BY <1>1 DEF GoTogether, WayIsKnown
  <2> QED  BY <2>6, <2>7
<1>15. /\ program.code[pc].a \in Int
       /\ Op(program, pc) \in FloatOps => program.code[pc].c \in Int
  <2>1. 0 \in 0..w - 1 /\ pc + 0 * stride = pc
    BY <1>2
  <2> QED  BY <1>14, <2>1 DEF Op
<1>16. PICK step \in {1, -1} :
         /\ LanesApart(program, pc, w, stride) /\ LaneOps(program, pc, w, stride)
         /\ LaneOffsets(program, pc, w, stride, step)
         /\ LaneOperands(program, pc, w, stride, step)
  BY <1>2, <1>7, <1>15, LanesOfShape
<1>17. /\ HasFrame(n) /\ ButMemory(n, native)
       /\ \A l \in 0..w - 1 :
            LET i == program.code[pc + l * stride]
            IN  Fp - i.a \in DOMAIN native.mem => n.mem[Fp - i.a] = LaneValue(i, native)
       /\ \A x \in DOMAIN native.mem :
            (\A l \in 0..w - 1 : x # Fp - program.code[pc + l * stride].a) =>
              n.mem[x] = native.mem[x]
  <2>1. HasFrame(native)
    BY <1>10, FrameHas
  <2>2. plan.packed[pc].stride = stride
    BY <1>3, <1>6
  <2>3. LanesAtOnce(RunPackedLanes(program, pc, w, native), native, program, pc, w, stride)
    BY <1>2, <1>7, <1>15, <1>16, <2>1, <2>2, PackedLanesMean
  <2> QED  BY <1>8, <2>3 DEF LanesAtOnce
<1>18. PICK target, value : /\ target = Targets(program, pc, w, stride)
                            /\ value = Values(program, pc, w, stride, interpreter)
  OBVIOUS
<1>19. LanesWrite(program, pc, w, stride, interpreter, target, value)
  <2>1. \A l \in 0..w - 1 :
          LET i == program.code[pc + l * stride]
          IN  /\ Fp - i.a \in DOMAIN interpreter.mem
              /\ Op(program, pc) \in FloatOps => Fp - i.c \in DOMAIN interpreter.mem
    BY <1>12, <1>14, <1>16 DEF LanesApart
  <2> QED  BY <1>7, <1>16, <1>18, <2>1, LanesWriteTargets
<1>20. PICK r : r = InterpretMany(program, pc, interpreter, span, "none")
  OBVIOUS
<1>21. r.pc = pc + span /\ LanesComputed(r.m, interpreter, target, value, w)
  <2>1. PICK l \in Nat : l = w - 1
    OBVIOUS
  <2>2. HasFrame(interpreter) /\ w \in Nat \ {0} /\ l <= w - 1
    BY <1>10, <2>1, FrameHas
  <2>3. /\ UpToLane(program, pc, interpreter, stride, l, "none").pc = pc + l * stride + 1
        /\ LanesComputed(UpToLane(program, pc, interpreter, stride, l, "none").m,
                         interpreter, target, value, l + 1)
    <3>1. \A h \in Nat :
            h <= w - 1 =>
              /\ UpToLane(program, pc, interpreter, stride, h, "none").pc
                   = pc + h * stride + 1
              /\ LanesComputed(UpToLane(program, pc, interpreter, stride, h, "none").m,
                               interpreter, target, value, h + 1)
      BY <1>2, <1>10, <1>16, <1>19, <2>2, LanesInterpreted, ZenonT(60)
    <3> QED  BY <2>2, <3>1, Zenon
  <2>4. r = UpToLane(program, pc, interpreter, stride, l, "none")
    BY <1>7, <1>20, <2>1 DEF UpToLane
  <2>5. pc + l * stride + 1 = pc + span /\ l + 1 = w
    <3>1. CASE stride = 1
      BY <1>2, <1>7, <2>1, <3>1
    <3>2. CASE stride = 2
      BY <1>2, <1>7, <2>1, <3>2
    <3> QED  BY <3>1, <3>2
  <2> QED  BY <2>3, <2>4, <2>5
<1>22. /\ DOMAIN target = 0..w - 1
       /\ \A l \in 0..w - 1 :
            /\ target[l] = Fp - program.code[pc + l * stride].a
            /\ value[l] = LaneValue(program.code[pc + l * stride], interpreter)
  BY <1>18 DEF Targets, Values
<1>23. PICK m : m = r.m
  OBVIOUS
<1>24. ASSUME NEW l \in 0..w - 1
       PROVE  n.mem[target[l]] = m.mem[target[l]]
  <2>1. PICK i : i = program.code[pc + l * stride]
    OBVIOUS
  <2>2. /\ Fp - i.a >= native.sp /\ Fp - i.a \in DOMAIN native.mem
        /\ i.op \in FloatOps => Fp - i.c >= native.sp /\ Fp - i.c \in DOMAIN native.mem
    BY <1>14, <2>1
  <2>3. /\ native.mem[Fp - i.a] = interpreter.mem[Fp - i.a]
        /\ i.op \in FloatOps => native.mem[Fp - i.c] = interpreter.mem[Fp - i.c]
    BY <1>13, <2>2
  <2>4. LaneValue(i, native) = LaneValue(i, interpreter)
    BY <2>3 DEF LaneValue
  <2>5. n.mem[Fp - i.a] = LaneValue(i, native)
    BY <1>17, <2>1, <2>2
  <2>6. m.mem[target[l]] = value[l]
    BY <1>21, <1>22, <1>23 DEF LanesComputed
  <2> QED  BY <1>22, <2>1, <2>4, <2>5, <2>6
<1>25. ASSUME NEW x \in DOMAIN native.mem, x >= native.sp,
              \A l \in 0..w - 1 : x # target[l]
       PROVE  n.mem[x] = m.mem[x]
  <2>1. n.mem[x] = native.mem[x]
    BY <1>17, <1>22, <1>25
  <2>2. m.mem[x] = interpreter.mem[x]
    BY <1>12, <1>21, <1>22, <1>23, <1>25 DEF LanesComputed
  <2> QED  BY <1>13, <1>25, <2>1, <2>2
<1>26. SameState(n, m)
  <2>1. /\ n.reg = NoRegisters /\ n.sp = native.sp /\ DOMAIN n.mem = DOMAIN native.mem
        /\ n.object = native.object /\ n.exc = native.exc
    BY <1>11, <1>17 DEF ButMemory
  <2>2. /\ m.sp = interpreter.sp /\ m.object = interpreter.object
        /\ m.exc = interpreter.exc /\ DOMAIN m.mem = DOMAIN interpreter.mem
    BY <1>21, <1>23 DEF LanesComputed, ButMemory
  <2>3. \A x \in DOMAIN n.mem : x >= n.sp => n.mem[x] = m.mem[x]
    BY <1>24, <1>25, <2>1
  <2> QED  BY <1>12, <1>13, <1>17, <2>1, <2>2, <2>3, FrameIsState
<1>27. SameEnd(pc + span, n, m)
  <2>1. pc + span # 0
    <3>1. CASE stride = 1
      BY <1>2, <1>7, <3>1 DEF Positions
    <3>2. CASE stride = 2
      BY <1>2, <1>7, <3>2 DEF Positions
    <3> QED  BY <3>1, <3>2
  <2> QED  BY <2>1 DEF SameEnd
<1>28. NoEvent.kind = "none"
  BY DEF NoEvent
<1> QED  BY <1>1, <1>9, <1>20, <1>21, <1>23, <1>26, <1>27, <1>28, StaysTogetherIn
            DEF GoTogether

-----------------------------------------------------------------------------
(* What system functions, allocations and the cleaning of a frame do.      *)

Full(m) == IsMachine(m) /\ {"sp", "object", "exc", "local"} \subseteq DOMAIN m

\* n is m but for memory and the stack pointer, the object register and the exception.
SameRegisters(n, m) ==
  Full(n) /\ n.reg = m.reg /\ n.local = m.local /\ DOMAIN n.mem = DOMAIN m.mem

WithMemory(m, v) == [m EXCEPT !.mem = v]

\* Another memory with the same words in it leaves the rest.
LEMMA MemoryPut ==
  ASSUME NEW m, Full(m), NEW D, D = DOMAIN m.mem, NEW v, DOMAIN v = D,
         v = [x \in D |-> v[x]]
  PROVE  LET n == WithMemory(m, v)
         IN  /\ SameRegisters(n, m) /\ n.mem = v
             /\ n.sp = m.sp /\ n.object = m.object /\ n.exc = m.exc
<1>1. PICK n : n = WithMemory(m, v)
  OBVIOUS
<1>2. /\ n.mem = v /\ n.reg = m.reg /\ n.sp = m.sp /\ n.object = m.object
      /\ n.exc = m.exc /\ n.local = m.local /\ DOMAIN n = DOMAIN m
  BY <1>1 DEF WithMemory, Full, IsMachine
<1>3. IsMachine(n)
  BY <1>2 DEF Full, IsMachine
<1> QED  BY <1>1, <1>2, <1>3 DEF Full, SameRegisters

\* Cached locals flushed: memory is what the program sees.
LEMMA FlushFull ==
  ASSUME NEW m, Full(m)
  PROVE  LET n == FlushCachedLocals(m)
         IN  /\ SameRegisters(n, m) /\ n.mem = View(m)
             /\ n.sp = m.sp /\ n.object = m.object /\ n.exc = m.exc
<1>1. PICK v, D : v = View(m) /\ D = DOMAIN m.mem
  OBVIOUS
<1>2. DOMAIN v = D /\ v = [x \in D |-> v[x]]
  <2>1. v = [a \in D |-> IF Fp - a \in DOMAIN m.reg THEN m.reg[Fp - a] ELSE m.mem[a]]
    BY <1>1, ViewOfMachine DEF Full
  <2> QED  BY <2>1
<1>3. FlushCachedLocals(m) = WithMemory(m, v)
  <2>1. FlushCachedLocals(m).mem = v
    BY <1>1 DEF View
  <2> QED  BY <2>1 DEF FlushCachedLocals, WithMemory, Full, IsMachine
<1> QED  BY <1>1, <1>2, <1>3, MemoryPut

\* Cached locals reloaded: the program sees what memory has.
LEMMA ReloadFull ==
  ASSUME NEW m, Full(m)
  PROVE  LET n == ReloadCachedLocals(m)
         IN  /\ Full(n) /\ n.mem = m.mem /\ View(n) = m.mem /\ n.local = m.local
             /\ n.sp = m.sp /\ n.object = m.object /\ n.exc = m.exc
<1>1. PICK n : n = ReloadCachedLocals(m)
  OBVIOUS
<1>2. IsMachine(n) /\ View(n) = m.mem
  BY <1>1, ReloadReadsFrame DEF Full
<1>3. PICK r : n = [m EXCEPT !.reg = r]
  BY <1>1 DEF ReloadCachedLocals
<1>4. /\ n.mem = m.mem /\ n.sp = m.sp /\ n.object = m.object
      /\ n.exc = m.exc /\ n.local = m.local /\ DOMAIN n = DOMAIN m
  BY <1>3 DEF Full, IsMachine
<1> QED  BY <1>1, <1>2, <1>4 DEF Full

\* Native code left: memory is what the program sees, nothing is in registers.
LEMMA LeaveFull ==
  ASSUME NEW m, Full(m)
  PROVE  LET n == Interpreted(m)
         IN  /\ Full(n) /\ n.mem = View(m) /\ n.reg = NoRegisters /\ n.local = m.local
             /\ n.sp = m.sp /\ n.object = m.object /\ n.exc = m.exc
             /\ DOMAIN n.mem = DOMAIN m.mem
<1>1. PICK f : f = FlushCachedLocals(m)
  OBVIOUS
<1>2. /\ SameRegisters(f, m) /\ f.mem = View(m)
      /\ f.sp = m.sp /\ f.object = m.object /\ f.exc = m.exc
  BY <1>1, FlushFull
<1>3. PICK n : n = [f EXCEPT !.reg = NoRegisters]
  OBVIOUS
<1>4. n = Interpreted(m)
  BY <1>1, <1>3 DEF Interpreted
<1>5. /\ n.mem = f.mem /\ n.sp = f.sp /\ n.object = f.object /\ n.reg = NoRegisters
      /\ n.exc = f.exc /\ n.local = f.local /\ DOMAIN n = DOMAIN f
  BY <1>2, <1>3 DEF SameRegisters, Full, IsMachine
<1>6. Full(n)
  <2>1. DOMAIN NoRegisters = {} /\ NoRegisters = [o \in DOMAIN NoRegisters |-> NoRegisters[o]]
    BY DEF NoRegisters
  <2> QED  BY <1>2, <1>5, <2>1 DEF SameRegisters, Full, IsMachine
<1> QED  BY <1>2, <1>4, <1>5, <1>6 DEF SameRegisters

\* Without registers the program sees memory.
LEMMA ViewOfLeft ==
  ASSUME NEW m, Full(m), m.reg = NoRegisters
  PROVE  View(m) = m.mem
<1>1. View(m) = [a \in DOMAIN m.mem |->
                   IF Fp - a \in DOMAIN m.reg THEN m.reg[Fp - a] ELSE m.mem[a]]
  BY ViewOfMachine DEF Full
<1>2. DOMAIN m.reg = {} /\ m.mem = [a \in DOMAIN m.mem |-> m.mem[a]]
  BY DEF NoRegisters, Full, IsMachine
<1> QED  BY <1>1, <1>2

\* What the program may see from address s on.
AlikeFrom(n, m, s) ==
  /\ Full(n) /\ Full(m) /\ DOMAIN n.mem = DOMAIN m.mem
  /\ n.sp = m.sp /\ n.object = m.object /\ n.exc = m.exc
  /\ \A x \in DOMAIN m.mem : x >= s => n.mem[x] = m.mem[x]

\* A reference added counts one more, with locals in registers or not.
LEMMA ReferenceAdded ==
  ASSUME NEW m, Full(m), NEW p
  PROVE  LET n == AddRef(m, p)
         IN  /\ SameRegisters(n, m)
             /\ n.sp = m.sp /\ n.object = m.object /\ n.exc = m.exc
             /\ \A x \in DOMAIN m.mem : n.mem[x] = IF x = p THEN m.mem[x] + 1 ELSE m.mem[x]
<1>1. PICK u, D : u = m.mem /\ D = DOMAIN m.mem
  OBVIOUS
<1>2. PICK v : v = [u EXCEPT ![p] = @ + 1]
  OBVIOUS
<1>3. u = [x \in D |-> u[x]] /\ DOMAIN u = D
  BY <1>1 DEF Full, IsMachine
<1>4. /\ DOMAIN v = D /\ v = [x \in D |-> v[x]]
      /\ \A x \in D : v[x] = IF x = p THEN u[x] + 1 ELSE u[x]
  BY <1>2, <1>3
<1>5. AddRef(m, p) = WithMemory(m, v)
  BY <1>1, <1>2 DEF AddRef, WithMemory
<1>6. LET n == WithMemory(m, v)
      IN  /\ SameRegisters(n, m) /\ n.mem = v
          /\ n.sp = m.sp /\ n.object = m.object /\ n.exc = m.exc
  BY <1>1, <1>4, MemoryPut
<1> QED  BY <1>1, <1>4, <1>5, <1>6

\* A system function does the same to machines that are alike from s on.
LEMMA SystemFunctionAlike ==
  ASSUME NEW n, NEW m, NEW s, AlikeFrom(n, m, s), NEW i, NEW event
  PROVE  /\ AlikeFrom(SystemFunction(i, n, event), SystemFunction(i, m, event), s)
         /\ SystemFunction(i, n, event).sp = n.sp
         /\ SystemFunction(i, n, event).exc =
              IF event = "raises" THEN "SetException" ELSE n.exc
<1>1. CASE event = "raises"
  <2>1. ASSUME NEW u, Full(u), NEW v, v = SetInternalException(u, "SetException")
        PROVE  /\ Full(v) /\ v.mem = u.mem /\ v.sp = u.sp /\ v.object = u.object
               /\ v.exc = "SetException"
    BY <2>1 DEF SetInternalException, Full, IsMachine
  <2> QED  BY <1>1, <2>1 DEF SystemFunction, AlikeFrom
<1>2. CASE event # "raises" /\ i.kind = "object"
  <2>1. ASSUME NEW u, Full(u), NEW v, v = AddRef([u EXCEPT !.object = i.p], i.p)
        PROVE  /\ Full(v) /\ DOMAIN v.mem = DOMAIN u.mem /\ v.sp = u.sp
               /\ v.object = i.p /\ v.exc = u.exc
               /\ \A x \in DOMAIN u.mem : v.mem[x] = IF x = i.p THEN u.mem[x] + 1 ELSE u.mem[x]
    <3>1. PICK w : w = [u EXCEPT !.object = i.p]
      OBVIOUS
    <3>2. Full(w) /\ w.mem = u.mem /\ w.sp = u.sp /\ w.object = i.p /\ w.exc = u.exc
      BY <2>1, <3>1 DEF Full, IsMachine
    <3>3. v = AddRef(w, i.p)
      BY <2>1, <3>1
    <3> QED  BY <3>2, <3>3, ReferenceAdded DEF SameRegisters
  <2>2. PICK a, b : a = SystemFunction(i, n, event) /\ b = SystemFunction(i, m, event)
    OBVIOUS
  <2>3. /\ Full(a) /\ DOMAIN a.mem = DOMAIN n.mem /\ a.sp = n.sp
        /\ a.object = i.p /\ a.exc = n.exc
        /\ \A x \in DOMAIN n.mem : a.mem[x] = IF x = i.p THEN n.mem[x] + 1 ELSE n.mem[x]
    BY <1>2, <2>1, <2>2 DEF SystemFunction, AlikeFrom
  <2>4. /\ Full(b) /\ DOMAIN b.mem = DOMAIN m.mem /\ b.sp = m.sp
        /\ b.object = i.p /\ b.exc = m.exc
        /\ \A x \in DOMAIN m.mem : b.mem[x] = IF x = i.p THEN m.mem[x] + 1 ELSE m.mem[x]
    BY <1>2, <2>1, <2>2 DEF SystemFunction, AlikeFrom
  <2>5. AlikeFrom(a, b, s)
    BY <2>3, <2>4 DEF AlikeFrom
  <2> QED  BY <1>2, <2>2, <2>3, <2>5
<1>3. CASE event # "raises" /\ i.kind # "object"
  <2>1. ASSUME NEW u, Full(u), NEW v, v = SetResult(u, i.q[1])
        PROVE  /\ Full(v) /\ v.mem = u.mem /\ v.sp = u.sp /\ v.object = u.object
               /\ v.exc = u.exc
    BY <2>1 DEF SetResult, Full, IsMachine
  <2> QED  BY <1>3, <2>1 DEF SystemFunction, AlikeFrom
<1> QED  BY <1>1, <1>2, <1>3

\* The object x put into the variable at an address, unless that is null.
Placed(u, address, x) ==
  [u EXCEPT !.mem[address] = IF address = 0 THEN @ ELSE x, !.sp = @ + 1]

\* An object placed at its address takes one word off the stack.
LEMMA ObjectPlaced ==
  ASSUME NEW m, Full(m), 0 \notin DOMAIN m.mem, NEW address, NEW y
  PROVE  LET n == Placed(m, address, y)
         IN  /\ SameRegisters(n, m)
             /\ n.sp = m.sp + 1 /\ n.object = m.object /\ n.exc = m.exc
             /\ \A x \in DOMAIN m.mem : n.mem[x] = IF x = address THEN y ELSE m.mem[x]
<1>1. PICK u, D : u = m.mem /\ D = DOMAIN m.mem
  OBVIOUS
<1>2. PICK v : v = [u EXCEPT ![address] = IF address = 0 THEN @ ELSE y]
  OBVIOUS
<1>3. u = [x \in D |-> u[x]] /\ DOMAIN u = D
  BY <1>1 DEF Full, IsMachine
<1>4. /\ DOMAIN v = D /\ v = [x \in D |-> v[x]]
      /\ \A x \in D : v[x] = IF x = address THEN y ELSE u[x]
  BY <1>1, <1>2, <1>3
<1>5. PICK w : w = WithMemory(m, v)
  OBVIOUS
<1>6. /\ SameRegisters(w, m) /\ w.mem = v
      /\ w.sp = m.sp /\ w.object = m.object /\ w.exc = m.exc
  BY <1>1, <1>4, <1>5, MemoryPut
<1>7. PICK s : s = m.sp + 1
  OBVIOUS
<1>8. PICK n : n = [w EXCEPT !.sp = s]
  OBVIOUS
<1>9. n = Placed(m, address, y)
  <2>1. n = [m EXCEPT !.mem = v, !.sp = s]
    BY <1>5, <1>8 DEF WithMemory
  <2>2. v = [m.mem EXCEPT ![address] = IF address = 0 THEN @ ELSE y]
    BY <1>1, <1>2
  <2> QED  BY <1>7, <2>1, <2>2 DEF Placed
<1>10. /\ Full(n) /\ n.mem = w.mem /\ n.reg = w.reg /\ n.local = w.local /\ n.sp = s
       /\ n.object = w.object /\ n.exc = w.exc
  BY <1>6, <1>8 DEF SameRegisters, Full, IsMachine
<1> QED  BY <1>1, <1>4, <1>6, <1>7, <1>9, <1>10 DEF SameRegisters

\* An allocation does the same to machines that are alike from the stack pointer
\* on.
LEMMA AllocatedAlike ==
  ASSUME NEW n, NEW m, AlikeFrom(n, m, m.sp), m.sp \in DOMAIN m.mem,
         0 \notin DOMAIN m.mem, NEW i, NEW event
  PROVE  /\ AlikeFrom(AllocateForApplication(i, n, event),
                      AllocateForApplication(i, m, event), m.sp)
         /\ DOMAIN AllocateForApplication(i, m, event).mem = DOMAIN m.mem
         /\ AllocateForApplication(i, n, event).sp = n.sp + 1
         /\ AllocateForApplication(i, n, event).exc =
              IF event = "raises" THEN "SetException" ELSE n.exc
<1>1. m.sp \in Int /\ n.mem[n.sp] = m.mem[m.sp]
  BY DEF AlikeFrom, Full, IsMachine
<1>2. PICK address : address = m.mem[m.sp]
  OBVIOUS
<1>3. ASSUME NEW u, Full(u), 0 \notin DOMAIN u.mem, u.mem[u.sp] = address, NEW v,
             v = AllocateForApplication(i, u, event)
      PROVE  /\ Full(v) /\ DOMAIN v.mem = DOMAIN u.mem /\ v.sp = u.sp + 1
             /\ v.object = u.object
             /\ v.exc = IF event = "raises" THEN "SetException" ELSE u.exc
             /\ \A x \in DOMAIN u.mem :
                  v.mem[x] = IF x = address THEN (IF event = "raises" THEN 0 ELSE i.p)
                             ELSE u.mem[x]
  <2>1. CASE event = "raises"
    <3>1. PICK w : w = Placed(u, address, 0)
      OBVIOUS
    <3>2. /\ SameRegisters(w, u)
          /\ w.sp = u.sp + 1 /\ w.object = u.object /\ w.exc = u.exc
          /\ \A x \in DOMAIN u.mem : w.mem[x] = IF x = address THEN 0 ELSE u.mem[x]
      BY <1>3, <3>1, ObjectPlaced
    <3>3. v = SetInternalException(w, "SetException")
      BY <1>3, <2>1, <3>1 DEF AllocateForApplication, Placed
    <3>4. /\ Full(v) /\ v.mem = w.mem /\ v.sp = w.sp /\ v.object = w.object
          /\ v.exc = "SetException"
      BY <3>2, <3>3 DEF SetInternalException, SameRegisters, Full, IsMachine
    <3> QED  BY <2>1, <3>2, <3>4 DEF SameRegisters
  <2>2. CASE event # "raises"
    <3>1. v = Placed(u, address, i.p)
      BY <1>3, <2>2 DEF AllocateForApplication, Placed
    <3>2. /\ SameRegisters(v, u)
          /\ v.sp = u.sp + 1 /\ v.object = u.object /\ v.exc = u.exc
          /\ \A x \in DOMAIN u.mem : v.mem[x] = IF x = address THEN i.p ELSE u.mem[x]
      BY <1>3, <3>1, ObjectPlaced
    <3> QED  BY <2>2, <3>2 DEF SameRegisters
  <2> QED  BY <2>1, <2>2
<1>4. PICK a, b : /\ a = AllocateForApplication(i, n, event)
                  /\ b = AllocateForApplication(i, m, event)
  OBVIOUS
<1>5. PICK y : y = IF event = "raises" THEN 0 ELSE i.p
  OBVIOUS
<1>6. /\ Full(a) /\ DOMAIN a.mem = DOMAIN n.mem /\ a.sp = n.sp + 1
      /\ a.object = n.object
      /\ a.exc = IF event = "raises" THEN "SetException" ELSE n.exc
      /\ \A x \in DOMAIN n.mem : a.mem[x] = IF x = address THEN y ELSE n.mem[x]
  BY <1>1, <1>2, <1>3, <1>4, <1>5 DEF AlikeFrom
<1>7. /\ Full(b) /\ DOMAIN b.mem = DOMAIN m.mem /\ b.sp = m.sp + 1
      /\ b.object = m.object
      /\ b.exc = IF event = "raises" THEN "SetException" ELSE m.exc
      /\ \A x \in DOMAIN m.mem : b.mem[x] = IF x = address THEN y ELSE m.mem[x]
  BY <1>2, <1>3, <1>4, <1>5 DEF AlikeFrom
<1>8. AlikeFrom(a, b, m.sp)
  BY <1>6, <1>7 DEF AlikeFrom
<1> QED  BY <1>4, <1>6, <1>7, <1>8

-----------------------------------------------------------------------------
(* The cleaning of a frame.                                                *)

\* The variables whose objects go.
Gone(P, t) ==
  {Fp - v.at : v \in {w \in P.objects : w.declared = 0 \/ w.declared >= P.tries[t].from}}

\* The references that go of the object x.
Freed(P, t, m, x) == Cardinality({at \in Gone(P, t) : m.mem[at] = x})

IsCleaned(n, P, t, m) ==
  /\ SameRegisters(n, m)
  /\ n.sp = m.sp /\ n.object = m.object /\ n.exc = m.exc
  /\ \A x \in DOMAIN m.mem :
       n.mem[x] = IF x \in Gone(P, t) THEN 0 ELSE m.mem[x] - Freed(P, t, m, x)

\* Cleaning a frame makes null the variables whose objects the handler does not
\* know, and nothing else.
LEMMA FrameCleaned ==
  ASSUME NEW P, NEW t, NEW m, Full(m)
  PROVE  IsCleaned(Cleaned(P, t, m), P, t, m)
<1>1. PICK u, D, G : u = m.mem /\ D = DOMAIN m.mem /\ G = Gone(P, t)
  OBVIOUS
<1> DEFINE ValueAt(x) == IF x \in G THEN 0 ELSE u[x] - Freed(P, t, m, x)
<1>2. PICK v : v = [x \in D |-> ValueAt(x)]
  OBVIOUS
<1>3. DOMAIN v = D /\ v = [x \in D |-> v[x]] /\ \A x \in D : v[x] = ValueAt(x)
  <2> HIDE DEF ValueAt
  <2> QED  BY <1>2
<1>4. Cleaned(P, t, m) = WithMemory(m, v)
  BY <1>1, <1>2, Zenon DEF Cleaned, WithMemory, Gone, Freed
<1>5. LET n == WithMemory(m, v)
      IN  /\ SameRegisters(n, m) /\ n.mem = v
          /\ n.sp = m.sp /\ n.object = m.object /\ n.exc = m.exc
  <2> HIDE DEF ValueAt
  <2> QED  BY <1>1, <1>3, MemoryPut
<1> HIDE DEF ValueAt
<1>6. IsCleaned(WithMemory(m, v), P, t, m)
  BY <1>1, <1>3, <1>5 DEF IsCleaned, ValueAt
<1> QED  BY <1>4, <1>6

\* Catching an exception changes nothing but the exception.
LEMMA ExceptionCaught ==
  ASSUME NEW m, Full(m)
  PROVE  LET n == Caught(m)
         IN  /\ Full(n) /\ n.reg = m.reg /\ n.mem = m.mem
             /\ n.sp = m.sp /\ n.object = m.object /\ n.exc = "none"
<1>1. PICK n : n = Caught(m)
  OBVIOUS
<1>2. /\ Full(n) /\ n.reg = m.reg /\ n.mem = m.mem
      /\ n.sp = m.sp /\ n.object = m.object /\ n.exc = "none"
  BY <1>1 DEF Caught, Full, IsMachine
<1> QED  BY <1>1, <1>2

\* Where the variables that go are alike, so is what is left.
LEMMA CleanedAlike ==
  ASSUME NEW P, NEW t, NEW n, NEW m, NEW s, AlikeFrom(n, m, s),
         \A at \in Gone(P, t) : at >= s /\ at \in DOMAIN m.mem
  PROVE  AlikeFrom(Cleaned(P, t, Caught(n)), Cleaned(P, t, Caught(m)), s)
<1>1. PICK a, b : a = Caught(n) /\ b = Caught(m)
  OBVIOUS
<1>2. AlikeFrom(a, b, s) /\ DOMAIN b.mem = DOMAIN m.mem
  BY <1>1, ExceptionCaught DEF AlikeFrom
<1>3. \A at \in Gone(P, t) : a.mem[at] = b.mem[at]
  BY <1>2 DEF AlikeFrom
<1>4. \A x : Freed(P, t, a, x) = Freed(P, t, b, x)
  <2>1. \A x : {at \in Gone(P, t) : a.mem[at] = x} = {at \in Gone(P, t) : b.mem[at] = x}
    BY <1>3
  <2> QED  BY <2>1 DEF Freed
<1>5. PICK c, d : c = Cleaned(P, t, a) /\ d = Cleaned(P, t, b)
  OBVIOUS
<1>6. /\ SameRegisters(c, a) /\ c.sp = a.sp /\ c.object = a.object /\ c.exc = a.exc
      /\ \A x \in DOMAIN a.mem :
           c.mem[x] = IF x \in Gone(P, t) THEN 0 ELSE a.mem[x] - Freed(P, t, a, x)
  BY <1>2, <1>5, FrameCleaned DEF AlikeFrom, IsCleaned
<1>7. /\ SameRegisters(d, b) /\ d.sp = b.sp /\ d.object = b.object /\ d.exc = b.exc
      /\ \A x \in DOMAIN b.mem :
           d.mem[x] = IF x \in Gone(P, t) THEN 0 ELSE b.mem[x] - Freed(P, t, b, x)
  BY <1>2, <1>5, FrameCleaned DEF AlikeFrom, IsCleaned
<1>8. \A x \in DOMAIN b.mem : x >= s => c.mem[x] = d.mem[x]
  BY <1>2, <1>4, <1>6, <1>7 DEF AlikeFrom
<1> QED  BY <1>1, <1>2, <1>5, <1>6, <1>7, <1>8 DEF AlikeFrom, SameRegisters

\* Cleaning does nothing where nothing is left.
LEMMA NothingToClean ==
  ASSUME NEW P, NEW t, NEW n, NEW m, NEW s, AlikeFrom(n, m, s), 0 \notin DOMAIN m.mem,
         \A x \in DOMAIN m.mem : m.mem[x] \in Int,
         \A at \in Gone(P, t) : at >= s /\ at \in DOMAIN m.mem /\ n.mem[at] = 0
  PROVE  AlikeFrom(Caught(n), Cleaned(P, t, Caught(m)), s)
<1>1. PICK a, b : a = Caught(n) /\ b = Caught(m)
  OBVIOUS
<1>2. AlikeFrom(a, b, s) /\ b.mem = m.mem /\ a.mem = n.mem
  BY <1>1, ExceptionCaught DEF AlikeFrom
<1>3. PICK d : d = Cleaned(P, t, b)
  OBVIOUS
<1>4. /\ SameRegisters(d, b) /\ d.sp = b.sp /\ d.object = b.object /\ d.exc = b.exc
      /\ \A x \in DOMAIN b.mem :
           d.mem[x] = IF x \in Gone(P, t) THEN 0 ELSE b.mem[x] - Freed(P, t, b, x)
  BY <1>2, <1>3, FrameCleaned DEF AlikeFrom, IsCleaned
<1>5. \A at \in Gone(P, t) : b.mem[at] = 0
  BY <1>2 DEF AlikeFrom
<1>6. \A x \in DOMAIN b.mem : d.mem[x] = b.mem[x]
  <2>1. SUFFICES ASSUME NEW x \in DOMAIN b.mem PROVE d.mem[x] = b.mem[x]
    OBVIOUS
  <2>2. CASE x \in Gone(P, t)
    BY <1>4, <1>5, <2>2
  <2>3. CASE x \notin Gone(P, t)
    <3>1. x # 0
      BY <1>2
    <3>2. {at \in Gone(P, t) : b.mem[at] = x} = {}
      BY <1>5, <3>1
    <3>3. Freed(P, t, b, x) = 0
      BY <3>2, FS_EmptySet DEF Freed
    <3>4. b.mem[x] - 0 = b.mem[x]
      BY <1>2
    <3> QED  BY <1>4, <2>3, <3>3, <3>4
  <2> QED  BY <2>2, <2>3
<1> QED  BY <1>1, <1>2, <1>3, <1>4, <1>6 DEF AlikeFrom, SameRegisters

-----------------------------------------------------------------------------
(* A system call and an allocation, beside the interpreter.                *)

\* A machine the types describe has all that calls look at.
LEMMA StateFull ==
  ASSUME NEW m, IsMachineState(m)
  PROVE  Full(m) /\ m.exc = "none" /\ \A x \in DOMAIN m.mem : m.mem[x] \in Int
<1>1. IsMachine(m) /\ {"sp", "object", "exc", "local"} \subseteq DOMAIN m
  BY DEF IsMachineState, IsMachine, Fields
<1>2. \A x \in DOMAIN m.mem : m.mem[x] \in Word
  BY DEF IsMachineState
<1>3. Word \subseteq Int
  BY WordIsNat
<1> QED  BY <1>1, <1>2, <1>3 DEF Full, IsMachineState

\* Before a boundary native code writes its locals back.
LEMMA FlushedAlike ==
  ASSUME NEW n, Full(n), NEW m, Full(m), SameState(n, m), DOMAIN n.mem = DOMAIN m.mem
  PROVE  AlikeFrom(FlushCachedLocals(n), m, m.sp)
<1>1. PICK f : f = FlushCachedLocals(n)
  OBVIOUS
<1>2. /\ SameRegisters(f, n) /\ f.mem = View(n)
      /\ f.sp = n.sp /\ f.object = n.object /\ f.exc = n.exc
  BY <1>1, FlushFull
<1> QED  BY <1>1, <1>2 DEF AlikeFrom, SameState, SameRegisters

\* Behind it native code reads them again, and the program is in the state of
\* the interpreter, also when native code leaves.
LEMMA ReloadedState ==
  ASSUME NEW n, NEW m, NEW s, AlikeFrom(n, m, s), s <= m.sp, s \in Int, m.sp \in Int
  PROVE  SameState(ReloadCachedLocals(n), m)
<1>1. PICK f : f = ReloadCachedLocals(n)
  OBVIOUS
<1>2. View(f) = n.mem /\ f.sp = n.sp /\ f.object = n.object /\ f.exc = n.exc
  BY <1>1, ReloadFull DEF AlikeFrom
<1>3. \A x \in DOMAIN m.mem : x >= m.sp => x >= s
  BY DEF AlikeFrom, Full, IsMachine
<1> QED  BY <1>1, <1>2, <1>3 DEF AlikeFrom, SameState

\* Leaving native code keeps a machine alike.
LEMMA LeftAlike ==
  ASSUME NEW n, NEW m, NEW s, AlikeFrom(n, m, s), NEW f, Full(f), View(f) = n.mem,
         f.sp = n.sp, f.object = n.object, f.exc = n.exc
  PROVE  AlikeFrom(Interpreted(f), m, s) /\ Interpreted(f).reg = NoRegisters
<1>1. PICK l : l = Interpreted(f)
  OBVIOUS
<1>2. /\ Full(l) /\ l.mem = View(f) /\ l.reg = NoRegisters
      /\ l.sp = f.sp /\ l.object = f.object /\ l.exc = f.exc
  BY <1>1, LeaveFull
<1> QED  BY <1>1, <1>2 DEF AlikeFrom

\* Machines alike from below the stack pointer are in the same state.
LEMMA LeftState ==
  ASSUME NEW n, NEW m, NEW s, AlikeFrom(n, m, s), s <= m.sp, s \in Int, m.sp \in Int,
         n.reg = NoRegisters
  PROVE  SameState(n, m)
<1>1. View(n) = n.mem
  BY ViewOfLeft DEF AlikeFrom
<1>2. \A x \in DOMAIN m.mem : x >= m.sp => x >= s
  BY DEF AlikeFrom, Full, IsMachine
<1> QED  BY <1>1, <1>2 DEF AlikeFrom, SameState

\* No block begins or ends behind a system call.
LEMMA SameCatchBehind ==
  ASSUME NEW P, WellFormed(P), NEW k \in Positions(P), Op(P, k) = "CALLSYS"
  PROVE  CatchTry(P, k) = CatchTry(P, k + 1)
<1>1. k \in Int
  BY DEF Positions
<1>2. ASSUME NEW t \in DOMAIN P.tries
      PROVE  Covers(P.tries[t], k) <=> Covers(P.tries[t], k + 1)
  <2>1. PICK from1, catch : from1 = P.tries[t].from /\ catch = P.tries[t].catch
    OBVIOUS
  <2>2. {from1, catch} \subseteq Positions(P) /\ k + 1 \notin {from1, catch}
    BY <2>1 DEF WellFormed
  <2>3. from1 \in Int /\ catch \in Int
    BY <2>2 DEF Positions
  <2> QED  BY <1>1, <2>1, <2>2, <2>3 DEF Covers
<1>3. PICK A, B : /\ A = {t \in DOMAIN P.tries : Covers(P.tries[t], k)}
                  /\ B = {t \in DOMAIN P.tries : Covers(P.tries[t], k + 1)}
  OBVIOUS
<1>4. A = B
  BY <1>2, <1>3
<1> DEFINE Greatest(S) == IF S = {} THEN 0 ELSE CHOOSE t \in S : \A u \in S : u <= t
<1>5. CatchTry(P, k) = Greatest(A) /\ CatchTry(P, k + 1) = Greatest(B)
  BY <1>3 DEF CatchTry
<1> HIDE DEF Greatest
<1> QED  BY <1>4, <1>5

\* The try block that catches covers the instruction.
LEMMA CatchIsTry ==
  ASSUME NEW P, NEW k, CatchTry(P, k) # 0, WellFormed(P)
  PROVE  /\ CatchTry(P, k) \in DOMAIN P.tries /\ Covers(P.tries[CatchTry(P, k)], k)
         /\ P.tries[CatchTry(P, k)].catch \in Positions(P)
<1>1. PICK around : around = {t \in DOMAIN P.tries : Covers(P.tries[t], k)}
  OBVIOUS
<1>2. CatchTry(P, k) = IF around = {} THEN 0
                       ELSE CHOOSE t \in around : \A u \in around : u <= t
  BY <1>1 DEF CatchTry
<1>3. around # {}
  BY <1>2
<1>4. around \subseteq 1..Len(P.tries) /\ Len(P.tries) \in Nat
  BY <1>1 DEF WellFormed
<1>5. \E t \in around : \A u \in around : u <= t
  BY <1>3, <1>4, GreatestExists
<1>6. CatchTry(P, k) \in around
  BY <1>2, <1>3, <1>5
<1>7. P.tries[CatchTry(P, k)].catch \in Positions(P)
  BY <1>1, <1>6 DEF WellFormed
<1> QED  BY <1>1, <1>6, <1>7

\* The interpreter at a system call and at an allocation.
LEMMA BoundariesAt ==
  ASSUME NEW P, NEW k, NEW m, NEW event
  PROVE  /\ Op(P, k) = "CALLSYS" =>
              InterpretOne(P, k, m, event) =
                InterpretedCatch(P, k, SystemFunction(P.code[k], m, event))
         /\ Op(P, k) = "AllocApp" =>
              InterpretOne(P, k, m, event) =
                InterpretedCatch(P, k, AllocateForApplication(P.code[k], m, event))
<1>1. PICK i : i = P.code[k] /\ i.op = Op(P, k)
  BY DEF Op
<1>2. ASSUME i.op = "CALLSYS"
      PROVE  InterpretOne(P, k, m, event) = InterpretedCatch(P, k, SystemFunction(i, m, event))
  <2>1. /\ ~IsBranch(i.op) /\ i.op # "JMPP" /\ i.op # "RET"
        /\ i.op \notin {"JitEntry", "SUSPEND"} /\ i.op # "AllocApp" /\ i.op \notin CallOps
    BY <1>2 DEF IsBranch, IsConditionalBranch, CallOps
  <2> QED  BY <1>1, <1>2, <2>1 DEF InterpretOne
<1>3. ASSUME i.op = "AllocApp"
      PROVE  InterpretOne(P, k, m, event)
               = InterpretedCatch(P, k, AllocateForApplication(i, m, event))
  <2>1. /\ ~IsBranch(i.op) /\ i.op # "JMPP" /\ i.op # "RET"
        /\ i.op \notin {"JitEntry", "SUSPEND"} /\ i.op # "CALLSYS" /\ i.op \notin CallOps
    BY <1>3 DEF IsBranch, IsConditionalBranch, CallOps
  <2> QED  BY <1>1, <1>3, <2>1 DEF InterpretOne
<1> QED  BY <1>1, <1>2, <1>3

\* What the interpreter does with an exception there: it goes to the handler,
\* with the frame cleaned, or ends.
LEMMA CaughtBehind ==
  ASSUME NEW P, NEW k, Op(P, k) \in {"CALLSYS", "AllocApp"}, NEW m,
         NEW r, r = InterpretedCatch(P, k, m), NEW t, t = CatchTry(P, k + 1)
  PROVE  /\ m.exc = "none" => r.pc = k + 1 /\ r.m = m
         /\ m.exc # "none" /\ t = 0 => r.pc = 0 /\ r.m = m
         /\ m.exc # "none" /\ t # 0 =>
              r.pc = P.tries[t].catch /\ r.m = Cleaned(P, t, Caught(m))
<1>1. RaisesBehind(Op(P, k))
  BY DEF RaisesBehind
<1>2. r = IF m.exc = "none" THEN [pc |-> k + 1, m |-> m]
          ELSE IF t = 0 THEN [pc |-> 0, m |-> m]
          ELSE [pc |-> P.tries[t].catch, m |-> Cleaned(P, t, Caught(m))]
  BY <1>1 DEF InterpretedCatch
<1> QED  BY <1>2

\* Both machines before a boundary.
LEMMA AtBoundary ==
  ASSUME FunctionTypeOK, GoTogether, mode = "native"
  PROVE  /\ Full(native) /\ Full(interpreter)
         /\ native.exc = "none" /\ interpreter.exc = "none"
         /\ interpreter.sp \in Int /\ native.sp = interpreter.sp
         /\ AlikeFrom(FlushCachedLocals(native), interpreter, interpreter.sp)
         /\ DOMAIN native.mem = DOMAIN interpreter.mem /\ 0 \notin DOMAIN interpreter.mem
         /\ \A x \in DOMAIN interpreter.mem : interpreter.mem[x] \in Int
<1>1. IsMachineState(native) /\ IsMachineState(interpreter)
  BY DEF FunctionTypeOK
<1>2. /\ Full(native) /\ native.exc = "none"
  BY <1>1, StateFull
<1>3. /\ Full(interpreter) /\ interpreter.exc = "none"
      /\ \A x \in DOMAIN interpreter.mem : interpreter.mem[x] \in Int
  BY <1>1, StateFull
<1>4. DOMAIN native.mem = DOMAIN interpreter.mem /\ 0 \notin DOMAIN interpreter.mem
  BY DEF GoTogether, WayIsKnown
<1>5. SameState(native, interpreter)
  BY DEF GoTogether, Together
<1>6. interpreter.sp \in Int /\ native.sp = interpreter.sp
  BY <1>1, <1>5 DEF IsMachineState, SameState
<1>7. AlikeFrom(FlushCachedLocals(native), interpreter, interpreter.sp)
  BY <1>2, <1>3, <1>4, <1>5, FlushedAlike
<1> QED  BY <1>2, <1>3, <1>4, <1>6, <1>7

\* What may be cleaned here is in the frame.
LEMMA GoneIsHere ==
  ASSUME ControlInv, mode = "native", WayIsKnown, Here.op \in {"CALLSYS", "AllocApp"}, NEW t
  PROVE  \A at \in Gone(program, t) : at >= native.sp /\ at \in DOMAIN native.mem
<1>1. VariablesHere = {v.at : v \in program.objects}
  BY VariablesAre
<1>2. \A o \in VariablesHere : Fp - o >= native.sp /\ Fp - o \in DOMAIN native.mem
  BY DEF WayIsKnown
<1> QED  BY <1>1, <1>2 DEF Gone

\* A value put aside for the end of a system call.
LEMMA LocalSet ==
  ASSUME NEW m, Full(m), NEW b
  PROVE  LET x == [m EXCEPT !.local = b]
         IN  /\ Full(x) /\ View(x) = View(m) /\ x.mem = m.mem /\ x.local = b
             /\ x.sp = m.sp /\ x.object = m.object /\ x.exc = m.exc
<1>1. PICK x : x = [m EXCEPT !.local = b]
  OBVIOUS
<1>2. /\ x.mem = m.mem /\ x.local = b /\ x.reg = m.reg /\ DOMAIN x = DOMAIN m
      /\ x.sp = m.sp /\ x.object = m.object /\ x.exc = m.exc
  BY <1>1 DEF Full, IsMachine
<1>3. Full(x)
  BY <1>2 DEF Full, IsMachine
<1>4. View(x) = View(m)
  BY <1>2, <1>3, ViewOfMachine DEF Full
<1> QED  BY <1>1, <1>2, <1>3, <1>4

\* The fast path of CatchLocalException: without temporaries nothing is left to
\* clean.
LEMMA NothingKept ==
  ASSUME ControlInv, FunctionTypeOK, GoTogether, mode = "native", Here.op = "CALLSYS",
         NEW t, t = CatchTry(program, pc), t # 0, ~LocalCatchNeedsCleanup(program, t),
         \A v \in program.objects : v.declared = 0 => LoadVar(native, v.at) = 0
  PROVE  \A at \in Gone(program, t) : View(native)[at] = 0
<1>1. WellFormed(program) /\ pc \in Positions(program) /\ Op(program, pc) = "CALLSYS"
  BY Setting
<1>2. t \in DOMAIN program.tries /\ program.tries[t].catch \in Positions(program)
  BY <1>1, CatchIsTry
<1>3. PICK begin, catch : begin = program.tries[t].from /\ catch = program.tries[t].catch
  OBVIOUS
<1>4. t > 0 /\ catch \in Int /\ begin \in Int
  <2>1. DOMAIN program.tries = 1..Len(program.tries) /\ begin \in Positions(program)
    BY <1>1, <1>2, <1>3 DEF WellFormed
  <2>2. t \in 1..Len(program.tries)
    BY <1>2, <2>1
  <2>3. Len(program.tries) \in Nat
    BY <1>1 DEF WellFormed
  <2> QED  BY <1>2, <1>3, <2>1, <2>2, <2>3 DEF Positions
<1>5. ASSUME NEW v \in program.objects, v.declared = 0 \/ v.declared >= begin
      PROVE  LoadVar(native, v.at) = 0
  <2>1. v.declared \in Nat
    BY <1>1 DEF WellFormed
  <2>2. CASE v.declared # 0
    <3>1. ~Covers(program.tries[t], v.declared)
      BY <2>2 DEF LocalCatchNeedsCleanup
    <3>2. v.declared >= catch
      BY <1>3, <1>4, <1>5, <2>1, <2>2, <3>1 DEF Covers
    <3>3. v.declared < catch \/ LoadVar(native, v.at) = 0
      BY <1>3, <1>4 DEF GoTogether, WayIsKnown
    <3> QED  BY <1>4, <2>1, <3>2, <3>3
  <2> QED  BY <2>2
<1>6. ASSUME NEW v \in program.objects
      PROVE  LoadVar(native, v.at) = View(native)[Fp - v.at]
  <2>1. v.at \in VariablesHere
    BY VariablesAre
  <2>2. v.at \in Int /\ Fp - v.at \in DOMAIN native.mem
    BY <2>1 DEF GoTogether, WayIsKnown
  <2>3. IsMachine(native)
    BY AtBoundary DEF Full
  <2>4. PICK o, m : o = v.at /\ m = native
    OBVIOUS
  <2>5. LoadVar(m, o) = View(m)[Fp - o]
    BY <2>2, <2>3, <2>4, LoadReadsView
  <2> QED  BY <2>4, <2>5
<1>7. ASSUME NEW at \in Gone(program, t) PROVE View(native)[at] = 0
  <2>1. PICK v \in program.objects :
          /\ at = Fp - v.at
          /\ v.declared = 0 \/ v.declared >= begin
    BY <1>3, <1>7 DEF Gone
  <2> QED  BY <1>5, <1>6, <2>1
<1> QED  BY <1>7

\* A system call, natively and in the interpreter.
LEMMA SystemCallStep ==
  ASSUME ControlInv, FunctionTypeOK, GoTogether, RunSystemCall, Follow
  PROVE  mode' # "apart" \/ TemporaryKept'
<1>1. mode = "native" /\ Here.op = "CALLSYS"
  BY Zenon DEF RunSystemCall, IsNative
<1>2. /\ WellFormed(program) /\ pc \in Positions(program) /\ pc \in Nat
      /\ Op(program, pc) = "CALLSYS" /\ Here = program.code[pc]
  BY <1>1, Setting DEF Here
<1>3. PICK kind \in Events(Here) :
        LET m == ReloadCachedLocals(SystemFunction(Here, FlushCachedLocals(native), kind))
        IN  IF kind = "raises"
            THEN Raise(pc, [m EXCEPT !.local = TRUE], [NoEvent EXCEPT !.kind = kind])
            ELSE GoOn(pc + 1, m, 1)
  BY Zenon DEF RunSystemCall
<1>4. PICK f, a, b, m, s :
        /\ f = FlushCachedLocals(native) /\ a = SystemFunction(Here, f, kind)
        /\ b = SystemFunction(Here, interpreter, kind) /\ m = ReloadCachedLocals(a)
        /\ s = interpreter.sp
  OBVIOUS
<1>5. /\ AlikeFrom(f, interpreter, s) /\ s \in Int /\ s <= s
      /\ interpreter.exc = "none" /\ Full(interpreter) /\ Full(native)
      /\ 0 \notin DOMAIN interpreter.mem /\ DOMAIN native.mem = DOMAIN interpreter.mem
      /\ \A x \in DOMAIN interpreter.mem : interpreter.mem[x] \in Int
      /\ native.sp = s
  BY <1>1, <1>4, AtBoundary
<1>6. AlikeFrom(a, b, s) /\ a.sp = f.sp /\ a.exc = IF kind = "raises" THEN "SetException" ELSE f.exc
  BY <1>4, <1>5, SystemFunctionAlike
<1>7. b.sp = s /\ a.exc = b.exc /\ f.exc = "none"
  BY <1>4, <1>5, <1>6 DEF AlikeFrom
<1>8. PICK r : r = InterpretOne(program, pc, interpreter, kind)
  OBVIOUS
<1>9. r = InterpretedCatch(program, pc, b)
  BY <1>2, <1>4, <1>8, BoundariesAt
<1>10. r = InterpretMany(program, pc, interpreter, 1, kind)
  BY <1>8, OneInterpreted
<1>11. PICK t : t = CatchTry(program, pc)
  OBVIOUS
<1>12. t = CatchTry(program, pc + 1)
  BY <1>2, <1>11, SameCatchBehind
<1>13. /\ b.exc = "none" => r.pc = pc + 1 /\ r.m = b
       /\ b.exc # "none" /\ t = 0 => r.pc = 0 /\ r.m = b
       /\ b.exc # "none" /\ t # 0 =>
            r.pc = program.tries[t].catch /\ r.m = Cleaned(program, t, Caught(b))
  BY <1>2, <1>9, <1>12, CaughtBehind
<1>14. Together /\ mode \in {"native", "interpreter"}
  BY <1>1 DEF GoTogether
<1>15. Full(m) /\ View(m) = a.mem /\ m.mem = a.mem
       /\ m.sp = a.sp /\ m.object = a.object /\ m.exc = a.exc
  BY <1>4, <1>6, ReloadFull DEF AlikeFrom
<1>16. CASE kind # "raises"
  <2>1. Advance("native", pc + 1, m, 1, NoShadow, NoEvent)
    BY <1>3, <1>4, <1>16 DEF GoOn
  <2>2. r.pc = pc + 1 /\ r.m = b
    BY <1>6, <1>7, <1>13, <1>16
  <2>3. SameState(m, b)
    BY <1>4, <1>5, <1>6, <1>7, ReloadedState
  <2>4. SameEnd(pc + 1, m, b)
    BY <1>2 DEF SameEnd
  <2>5. kind = NoEvent.kind
    <3>1. Events(Here) \subseteq {"none", "raises"}
      BY <1>1 DEF Events, CallOps
    <3> QED  BY <1>16, <3>1 DEF NoEvent
  <2> QED  BY <1>10, <1>14, <2>1, <2>2, <2>3, <2>4, <2>5, StaysTogetherIn
<1>17. CASE kind = "raises"
  <2>1. PICK x, e : x = [m EXCEPT !.local = TRUE] /\ e = [NoEvent EXCEPT !.kind = kind]
    OBVIOUS
  <2>2. Raise(pc, x, e)
    BY <1>3, <1>4, <1>17, <2>1
  <2>3. /\ Full(x) /\ View(x) = a.mem /\ x.mem = a.mem /\ x.local = TRUE
        /\ x.sp = a.sp /\ x.object = a.object /\ x.exc = a.exc
    BY <1>15, <2>1, LocalSet
  <2>4. e.kind = kind
    BY <2>1 DEF NoEvent
  <2>5. b.exc # "none" /\ x.exc # "none"
    BY <1>6, <1>7, <1>17, <2>3
  <2>6. CASE t = 0
    <3>1. Advance("done", 0, Interpreted(x), 1, NoShadow, e)
      BY <1>11, <2>2, <2>6 DEF Raise
    <3>2. PICK l : l = Interpreted(x)
      OBVIOUS
    <3>3. AlikeFrom(l, b, s) /\ l.reg = NoRegisters
      BY <1>6, <2>3, <3>2, LeftAlike
    <3>4. SameState(l, b)
      BY <1>5, <1>7, <3>3, LeftState
    <3>5. SameEnd(0, l, b)
      BY <2>5, <3>3 DEF SameEnd, AlikeFrom
    <3>6. r.pc = 0 /\ r.m = b
      BY <1>13, <2>5, <2>6
    <3>7. "done" # "apart"
      OBVIOUS
    <3> QED  BY <1>10, <1>14, <2>4, <3>1, <3>2, <3>4, <3>5, <3>6, <3>7, StaysTogetherIn
  <2>7. CASE t # 0
    <3>1. PICK catch : catch = program.tries[t].catch
      OBVIOUS
    <3>2. PICK c, n : /\ c = CatchLocalException(program, t, x)
                      /\ n = ReloadCachedLocals(c)
      OBVIOUS
    <3>3. Advance("native", catch, n, 1, NoShadow, e)
      BY <1>11, <2>2, <2>3, <2>7, <3>1, <3>2 DEF Raise
    <3>4. PICK d : d = Cleaned(program, t, Caught(b))
      OBVIOUS
    <3>5. r.pc = catch /\ r.m = d
      BY <1>13, <2>5, <2>7, <3>1, <3>4
    <3>6. catch \in Positions(program) /\ t > 0
      <4>1. t \in DOMAIN program.tries /\ catch \in Positions(program)
        BY <1>2, <1>11, <2>7, <3>1, CatchIsTry
      <4>2. DOMAIN program.tries = 1..Len(program.tries) /\ Len(program.tries) \in Nat
        BY <1>2 DEF WellFormed
      <4> QED  BY <4>1, <4>2
    <3>7. \A at \in Gone(program, t) : at >= s /\ at \in DOMAIN b.mem
      <4>1. DOMAIN b.mem = DOMAIN interpreter.mem
        BY <1>4, <1>17 DEF SystemFunction, SetInternalException
      <4> QED  BY <1>1, <1>5, <4>1, GoneIsHere DEF GoTogether
    <3>8. AlikeFrom(x, b, s)
      BY <1>6, <2>3 DEF AlikeFrom
    <3>9. AlikeFrom(c, d, s) => mode' # "apart"
      <4>1. SUFFICES ASSUME AlikeFrom(c, d, s) PROVE mode' # "apart"
        OBVIOUS
      <4>2. d.sp = s
        <5>1. Full(Caught(b)) /\ Caught(b).sp = b.sp
          BY <1>6, ExceptionCaught DEF AlikeFrom
        <5> QED  BY <1>7, <3>4, <5>1, FrameCleaned DEF IsCleaned
      <4>3. SameState(n, d)
        BY <1>5, <3>2, <4>1, <4>2, ReloadedState
      <4>4. SameEnd(catch, n, d)
        BY <3>6 DEF SameEnd, Positions
      <4>5. "native" # "apart"
        OBVIOUS
      <4> QED  BY <1>10, <1>14, <2>4, <3>3, <3>5, <4>3, <4>4, <4>5, StaysTogetherIn
    <3>10. CASE LocalCatchNeedsCleanup(program, t)
      <4>1. c = Cleaned(program, t, Caught(x))
        BY <3>2, <3>10 DEF CatchLocalException
      <4>2. AlikeFrom(c, d, s)
        BY <3>4, <3>7, <3>8, <4>1, CleanedAlike
      <4> QED  BY <3>9, <4>2
    <3>11. CASE ~LocalCatchNeedsCleanup(program, t)
      <4>1. c = Caught(x)
        BY <3>2, <3>11 DEF CatchLocalException
      <4>2. CASE \A v \in program.objects : v.declared = 0 => LoadVar(native, v.at) = 0
        <5>1. \A at \in Gone(program, t) : View(native)[at] = 0
          BY <1>1, <1>11, <2>7, <3>11, <4>2, NothingKept
        <5>2. x.mem = View(native) /\ b.mem = interpreter.mem
          <6>1. f.mem = View(native)
            BY <1>4, <1>5, FlushFull
          <6>2. a.mem = f.mem /\ b.mem = interpreter.mem
            BY <1>4, <1>5, <1>17 DEF SystemFunction, SetInternalException, AlikeFrom, Full, IsMachine
          <6> QED  BY <2>3, <6>1, <6>2
        <5>3. \A at \in Gone(program, t) : at >= s /\ at \in DOMAIN b.mem /\ x.mem[at] = 0
          BY <3>7, <5>1, <5>2
        <5>4. 0 \notin DOMAIN b.mem /\ \A y \in DOMAIN b.mem : b.mem[y] \in Int
          BY <1>5, <5>2
        <5>5. AlikeFrom(c, d, s)
          BY <3>4, <3>8, <4>1, <5>3, <5>4, NothingToClean
        <5> QED  BY <3>9, <5>5
      <4>3. CASE \E v \in program.objects : v.declared = 0 /\ LoadVar(native, v.at) # 0
        <5>1. /\ pc' = catch /\ from'.mode = "native" /\ from'.to = "native"
              /\ from'.pc = pc /\ from'.m = native
          BY <1>1, <3>3 DEF Advance
        <5>2. program' = program
          BY DEF Follow, FollowTo
        <5> QED  BY <1>11, <3>1, <3>6, <3>11, <4>3, <5>1, <5>2
                 DEF TemporaryKept, WasNative
      <4> QED  BY <4>2, <4>3
    <3> QED  BY <3>10, <3>11
  <2> QED  BY <2>6, <2>7
<1> QED  BY <1>16, <1>17

\* An allocation for an application's type, natively and in the interpreter.
LEMMA AllocationStep ==
  ASSUME ControlInv, FunctionTypeOK, GoTogether, RunAllocForApplication, Follow
  PROVE  mode' # "apart" \/ StaleAfterAlloc'
<1>1. mode = "native" /\ Here.op = "AllocApp"
  BY Zenon DEF RunAllocForApplication, IsNative
<1>2. /\ WellFormed(program) /\ pc \in Positions(program) /\ pc \in Nat
      /\ Op(program, pc) = "AllocApp" /\ Here = program.code[pc]
  BY <1>1, Setting DEF Here
<1>3. PICK kind \in Events(Here) :
        LET m == ReloadCachedLocals(
                   AllocateForApplication(Here, FlushCachedLocals(native), kind))
            event == [NoEvent EXCEPT !.kind = kind]
        IN  CASE kind = "raises" -> Raise(pc + 1, [m EXCEPT !.local = FALSE], event)
              [] kind = "request" -> LeavesAfterAlloc(m, event)
              [] kind = "none" -> GoOn(pc + 1, m, 1)
  BY Zenon DEF RunAllocForApplication
<1>4. PICK f, a, b, m, s :
        /\ f = FlushCachedLocals(native) /\ a = AllocateForApplication(Here, f, kind)
        /\ b = AllocateForApplication(Here, interpreter, kind)
        /\ m = ReloadCachedLocals(a) /\ s = interpreter.sp
  OBVIOUS
<1>5. /\ AlikeFrom(f, interpreter, s) /\ s \in Int /\ s <= s + 1 /\ s + 1 \in Int
      /\ interpreter.exc = "none" /\ Full(interpreter) /\ Full(native)
      /\ 0 \notin DOMAIN interpreter.mem /\ DOMAIN native.mem = DOMAIN interpreter.mem
      /\ native.sp = s /\ s \in DOMAIN interpreter.mem
  <2>1. native.sp \in DOMAIN native.mem
    BY <1>1 DEF GoTogether, WayIsKnown
  <2> QED  BY <1>1, <1>4, <2>1, AtBoundary
<1>6. /\ AlikeFrom(a, b, s) /\ a.sp = f.sp + 1
      /\ a.exc = IF kind = "raises" THEN "SetException" ELSE f.exc
  <2>1. PICK u, i : u = interpreter /\ i = Here
    OBVIOUS
  <2>2. AlikeFrom(f, u, u.sp) /\ u.sp \in DOMAIN u.mem /\ 0 \notin DOMAIN u.mem
    BY <1>4, <1>5, <2>1
  <2>3. /\ AlikeFrom(AllocateForApplication(i, f, kind),
                     AllocateForApplication(i, u, kind), u.sp)
        /\ AllocateForApplication(i, f, kind).sp = f.sp + 1
        /\ AllocateForApplication(i, f, kind).exc =
             IF kind = "raises" THEN "SetException" ELSE f.exc
    BY <2>2, AllocatedAlike
  <2> QED  BY <1>4, <2>1, <2>3
<1>7. b.sp = s + 1 /\ a.exc = b.exc /\ f.exc = "none"
  BY <1>4, <1>5, <1>6 DEF AlikeFrom
<1>8. PICK r : r = InterpretOne(program, pc, interpreter, kind)
  OBVIOUS
<1>9. r = InterpretedCatch(program, pc, b)
  BY <1>2, <1>4, <1>8, BoundariesAt
<1>10. r = InterpretMany(program, pc, interpreter, 1, kind)
  BY <1>8, OneInterpreted
<1>11. PICK t : t = CatchTry(program, pc + 1)
  OBVIOUS
<1>13. /\ b.exc = "none" => r.pc = pc + 1 /\ r.m = b
       /\ b.exc # "none" /\ t = 0 => r.pc = 0 /\ r.m = b
       /\ b.exc # "none" /\ t # 0 =>
            r.pc = program.tries[t].catch /\ r.m = Cleaned(program, t, Caught(b))
  BY <1>2, <1>9, <1>11, CaughtBehind
<1>14. Together /\ mode \in {"native", "interpreter"}
  BY <1>1 DEF GoTogether
<1>15. Full(m) /\ View(m) = a.mem /\ m.mem = a.mem
       /\ m.sp = a.sp /\ m.object = a.object /\ m.exc = a.exc
  BY <1>4, <1>6, ReloadFull DEF AlikeFrom
<1>16. PICK e : e = [NoEvent EXCEPT !.kind = kind]
  OBVIOUS
<1>17. e.kind = kind /\ NoEvent.kind = "none"
  BY <1>16 DEF NoEvent
<1>18. kind \in {"none", "request", "raises"}
  BY <1>1 DEF Events, CallOps
<1>19. CASE kind = "none"
  <2>1. Advance("native", pc + 1, m, 1, NoShadow, NoEvent)
    BY <1>3, <1>4, <1>19 DEF GoOn
  <2>2. r.pc = pc + 1 /\ r.m = b
    BY <1>6, <1>7, <1>13, <1>19
  <2>3. SameState(m, b)
    BY <1>4, <1>5, <1>6, <1>7, ReloadedState
  <2>4. SameEnd(pc + 1, m, b)
    BY <1>2 DEF SameEnd
  <2>5. kind = NoEvent.kind
    BY <1>17, <1>19
  <2> QED  BY <1>10, <1>14, <2>1, <2>2, <2>3, <2>4, <2>5, StaysTogetherIn
<1>20. CASE kind = "request"
  <2>1. LeavesAfterAlloc(m, e)
    BY <1>3, <1>4, <1>16, <1>20
  <2>2. PICK p \in IF Here.kind = "plain"
                   THEN Positions(program) \ {pc, Len(program.code)} ELSE {pc} :
          Advance("interpreter", p + 1, Interpreted(m), 1, NoShadow, e)
    BY <2>1, Zenon DEF LeavesAfterAlloc
  <2>3. CASE Here.kind = "plain"
    <3>1. from'.mode = "native" /\ from'.pc = pc /\ from'.event = e
      BY <1>1, <2>2 DEF Advance
    <3>2. program' = program
      BY DEF Follow, FollowTo
    <3>3. At(from.pc)' = Here
      BY <3>1, <3>2 DEF At, Here
    <3> QED  BY <1>1, <1>17, <1>20, <2>3, <3>1, <3>3 DEF StaleAfterAlloc, LastCall
  <2>4. CASE Here.kind # "plain"
    <3>1. PICK l : l = Interpreted(m)
      OBVIOUS
    <3>2. Advance("interpreter", pc + 1, l, 1, NoShadow, e)
      BY <2>2, <2>4, <3>1
    <3>3. AlikeFrom(l, b, s) /\ l.reg = NoRegisters
      BY <1>6, <1>15, <3>1, LeftAlike
    <3>4. SameState(l, b)
      BY <1>5, <1>7, <3>3, LeftState
    <3>5. SameEnd(pc + 1, l, b)
      BY <1>2 DEF SameEnd
    <3>6. r.pc = pc + 1 /\ r.m = b
      BY <1>6, <1>7, <1>13, <1>20
    <3>7. "interpreter" # "apart"
      OBVIOUS
    <3> QED  BY <1>10, <1>14, <1>17, <3>2, <3>4, <3>5, <3>6, <3>7, StaysTogetherIn
  <2> QED  BY <2>3, <2>4
<1>21. CASE kind = "raises"
  <2>1. PICK x : x = [m EXCEPT !.local = FALSE]
    OBVIOUS
  <2>2. Raise(pc + 1, x, e)
    BY <1>3, <1>4, <1>16, <1>21, <2>1
  <2>3. /\ Full(x) /\ View(x) = a.mem /\ x.mem = a.mem /\ x.local = FALSE
        /\ x.sp = a.sp /\ x.object = a.object /\ x.exc = a.exc
    BY <1>15, <2>1, LocalSet
  <2>4. b.exc # "none" /\ x.exc # "none"
    BY <1>6, <1>7, <1>21, <2>3
  <2>5. PICK l : l = Interpreted(x)
    OBVIOUS
  <2>6. AlikeFrom(l, b, s) /\ l.reg = NoRegisters
    BY <1>6, <2>3, <2>5, LeftAlike
  <2>7. CASE t = 0
    <3>1. Advance("done", 0, l, 1, NoShadow, e)
      BY <1>11, <2>2, <2>5, <2>7 DEF Raise
    <3>2. SameState(l, b)
      BY <1>5, <1>7, <2>6, LeftState
    <3>3. SameEnd(0, l, b)
      BY <2>4, <2>6 DEF SameEnd, AlikeFrom
    <3>4. r.pc = 0 /\ r.m = b
      BY <1>13, <2>4, <2>7
    <3>5. "done" # "apart"
      OBVIOUS
    <3> QED  BY <1>10, <1>14, <1>17, <3>1, <3>2, <3>3, <3>4, <3>5, StaysTogetherIn
  <2>8. CASE t # 0
    <3>1. PICK catch, c, d : /\ catch = program.tries[t].catch
                             /\ c = Cleaned(program, t, Caught(l))
                             /\ d = Cleaned(program, t, Caught(b))
      OBVIOUS
    <3>2. Advance("interpreter", catch, c, 1, NoShadow, e)
      BY <1>11, <2>2, <2>3, <2>5, <2>8, <3>1 DEF Raise
    <3>3. r.pc = catch /\ r.m = d
      BY <1>13, <2>4, <2>8, <3>1
    <3>4. catch \in Positions(program)
      BY <1>2, <1>11, <2>8, <3>1, CatchIsTry
    <3>5. \A at \in Gone(program, t) : at >= s /\ at \in DOMAIN b.mem
      <4>1. DOMAIN b.mem = DOMAIN interpreter.mem
        BY <1>4, <1>5, AllocatedAlike
      <4> QED  BY <1>1, <1>5, <4>1, GoneIsHere DEF GoTogether
    <3>6. AlikeFrom(c, d, s)
      BY <2>6, <3>1, <3>5, CleanedAlike
    <3>7. d.sp = s + 1 /\ c.reg = NoRegisters
      <4>1. Full(Caught(b)) /\ Caught(b).sp = b.sp /\ Full(Caught(l)) /\ Caught(l).reg = l.reg
        BY <2>6, ExceptionCaught DEF AlikeFrom
      <4> QED  BY <1>7, <2>6, <3>1, <4>1, FrameCleaned DEF IsCleaned, SameRegisters
    <3>8. SameState(c, d)
      BY <1>5, <3>6, <3>7, LeftState
    <3>9. SameEnd(catch, c, d)
      BY <3>4 DEF SameEnd, Positions
    <3>10. "interpreter" # "apart"
      OBVIOUS
    <3> QED  BY <1>10, <1>14, <1>17, <3>2, <3>3, <3>8, <3>9, <3>10, StaysTogetherIn
  <2> QED  BY <2>7, <2>8
<1> QED  BY <1>18, <1>19, <1>20, <1>21

-----------------------------------------------------------------------------
(* Shortcuts, calls of system functions and allocations in every behaviour. *)

\* Floats computed together (EmitPackedFloatBinary and -Immediate) and a handle
\* copied in one step (RefCopyFusionSpan, FastRefCopyScriptObject) leave the program
\* where the interpreter comes, one instruction after the other, and in the same
\* state, whatever the function and its values are.
THEOREM ShortcutStepsAgree ==
  Spec /\ []FunctionTypeOK /\ []WayIsKnown =>
    [][(RunPackedFloats \/ RunCopiedHandle) /\ Follow => mode' # "apart"]_codeVars
<1>1. ASSUME ControlInv, FunctionTypeOK, Together, WayIsKnown, [Next]_codeVars
      PROVE  [(RunPackedFloats \/ RunCopiedHandle) /\ Follow => mode' # "apart"]_codeVars
  <2>1. GoTogether
    BY <1>1 DEF GoTogether
  <2> QED  BY <1>1, <2>1, PackedFloatsStep, CopiedHandleStep
<1> QED  BY <1>1, ControlInvariant, StaysTogetherUntilApart, PTL DEF Spec

\* A system call brings native code where the interpreter comes: behind the call,
\* into the handler of the try block around it, by CatchLocalException with or
\* without the cleaning of the frame, or out of the function with the exception.
\* The one difference is a temporary that the catch without cleaning does not drop.
THEOREM SystemCallsAgree ==
  Spec /\ []FunctionTypeOK /\ []WayIsKnown =>
    [][RunSystemCall /\ Follow => mode' # "apart" \/ TemporaryKept']_codeVars
<1>1. ASSUME ControlInv, FunctionTypeOK, Together, WayIsKnown, [Next]_codeVars
      PROVE  [RunSystemCall /\ Follow => mode' # "apart" \/ TemporaryKept']_codeVars
  <2>1. GoTogether
    BY <1>1 DEF GoTogether
  <2> QED  BY <1>1, <2>1, SystemCallStep
<1> QED  BY <1>1, ControlInvariant, StaysTogetherUntilApart, PTL DEF Spec

\* The allocation of an application's object brings native code where the
\* interpreter comes, with the object or with the exception. The one difference is
\* a suspension asked for in an allocation without constructor, behind which the
\* interpreter goes on somewhere else (AllocateForApplication).
THEOREM AllocationsAgree ==
  Spec /\ []FunctionTypeOK /\ []WayIsKnown =>
    [][RunAllocForApplication /\ Follow => mode' # "apart" \/ StaleAfterAlloc']_codeVars
<1>1. ASSUME ControlInv, FunctionTypeOK, Together, WayIsKnown, [Next]_codeVars
      PROVE  [RunAllocForApplication /\ Follow => mode' # "apart" \/ StaleAfterAlloc']_codeVars
  <2>1. GoTogether
    BY <1>1 DEF GoTogether
  <2> QED  BY <1>1, <2>1, AllocationStep
<1> QED  BY <1>1, ControlInvariant, StaysTogetherUntilApart, PTL DEF Spec
=============================================================================
