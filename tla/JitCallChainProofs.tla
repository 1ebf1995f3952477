------------------------- MODULE JitCallChainProofs -------------------------
(***************************************************************************)
(* The inductive invariant of JitCallChain.  First facts about the state   *)
(* under it, and what the kinds of step the actions are made of do to its  *)
(* two halves: the machine's (VMInv) and the activations' (NativeInv).     *)
(* An inlined body leaves both alone until it returns or calls (BodyOK).   *)
(* Then each action preserves it, and the safety properties follow for     *)
(* every script, every bound and every set of compiled functions, and so   *)
(* does what no step may do to the frames under a system function.         *)
(***************************************************************************)
EXTENDS JitCallChain, TLAPS, SequenceTheorems, WellFoundedInduction

\* A set of numbers up to n that is not empty has a greatest element.
LEMMA MaxExists ==
    ASSUME NEW n \in Nat, NEW S \in SUBSET (0..n), S # {}
    PROVE  Max(S) \in S /\ \A y \in S : Max(S) >= y
<1> DEFINE T == {t \in Nat : \E x \in S : t = n - x}
<1>1. PICK s \in S : TRUE
  OBVIOUS
<1>2. n - s \in T
  <2>1. s \in 0..n
    OBVIOUS
  <2> QED
    BY <2>1
<1>3. T \subseteq Nat /\ T # {}
  BY <1>2
<1>4. PICK t \in T : \A y \in T : ~(<<y, t>> \in OpToRel(<, Nat))
  <2> HIDE DEF T
  <2> QED
    BY <1>3, WFMin, NatLessThanWellFounded
<1>5. \A y \in T : t <= y
  <2>1. SUFFICES ASSUME NEW y \in T PROVE ~(y < t)
    OBVIOUS
  <2>2. y \in Nat /\ t \in Nat
    BY <1>3
  <2>3. <<y, t>> \in Nat \X Nat /\ <<y, t>>[1] = y /\ <<y, t>>[2] = t
    BY <2>2
  <2>4. y < t => <<y, t>> \in OpToRel(<, Nat)
    BY <2>3, Zenon DEF OpToRel
  <2> QED
    BY <1>4, <2>4, Zenon
<1>6. PICK x \in S : t = n - x
  OBVIOUS
<1>7. \A y \in S : n - y \in T
  OBVIOUS
<1>8. \A y \in S : x >= y
  <2> SUFFICES ASSUME NEW y \in S PROVE x >= y
    OBVIOUS
  <2>1. t <= n - y
    BY <1>5, <1>7
  <2> HIDE DEF T
  <2>2. x \in 0..n /\ y \in 0..n
    OBVIOUS
  <2> QED
    BY <1>6, <2>1, <2>2
<1> QED
  BY <1>8 DEF Max

LEMMA Between ==
    ASSUME NEW a \in Nat, NEW b \in Nat, NEW c \in Nat, a < b, b < c
    PROVE  b \in 1..c - 1
OBVIOUS

\* The first n elements of a sequence.
LEMMA PrefixFacts ==
    ASSUME NEW S, NEW s \in Seq(S), NEW n \in 0..Len(s)
    PROVE  /\ SubSeq(s, 1, n) \in Seq(S)
           /\ Len(SubSeq(s, 1, n)) = n
           /\ \A i \in 1..n : SubSeq(s, 1, n)[i] = s[i]
<1>1. Len(s) \in Nat /\ n \in Nat
  BY LenProperties
<1>2. \A i \in 1..n : s[i] \in S
  BY <1>1, ElementOfSeq
<1> QED
  BY <1>1, <1>2, SubSeqProperties, SMT

LEMMA FrontFacts ==
    ASSUME NEW S, NEW s \in Seq(S), s # <<>>
    PROVE  /\ Front(s) \in Seq(S)
           /\ Len(Front(s)) = Len(s) - 1
           /\ \A i \in 1..Len(s) - 1 : Front(s)[i] = s[i]
<1>1. Len(s) - 1 \in 0..Len(s)
  BY EmptySeq
<1> QED
  BY <1>1, PrefixFacts DEF Front

-----------------------------------------------------------------------------
(* Frames and unwinding.                                                   *)

Frames == Frame \cup {Marker}

\* A frame of a script function whose position is an instruction of it.
Live(frame) == frame.fn # NoFn /\ frame.pc \in 1..Len(Code[frame.fn])

LEMMA FrameFacts ==
    ASSUME NEW frame \in Frames, Live(frame)
    PROVE  frame \in Frame
BY DEF Frames, Live, Marker, Frame

LEMMA MarkerFacts == Marker \in Frames /\ Marker.fn = NoFn
BY DEF Frames, Marker

\* Any position a catch handler sends a frame to is an instruction.
LEMMA CatchPosFacts ==
    ASSUME NEW frame \in Frame, Covering(frame) # {}
    PROVE  /\ Max(Covering(frame)) \in Covering(frame)
           /\ CatchPos(frame) \in 1..Len(Code[frame.fn])
<1>1. frame.fn \in Fn /\ frame.fn # NoFn
  BY FnAssumption DEF Frame
<1>2. Len(Handlers[frame.fn]) \in Nat
  BY <1>1, HandlerAssumption, LenProperties
<1>3. Covering(frame) \in SUBSET (1..Len(Handlers[frame.fn]))
  BY <1>1 DEF Covering
<1>4. Max(Covering(frame)) \in Covering(frame)
  <2>1. Covering(frame) \in SUBSET (0..Len(Handlers[frame.fn]))
    BY <1>2, <1>3
  <2> QED
    BY <1>2, <2>1, MaxExists
<1> QED
  BY <1>1, <1>3, <1>4, HandlerAssumption DEF CatchPos

\* The base of the innermost execution is its marker: the topmost one.
LEMMA BaseFacts ==
    ASSUME NEW s \in Seq(Frames), NEW b \in 0..Len(s),
           b > 0 => s[b].fn = NoFn,
           \A j \in b + 1..Len(s) : s[j].fn # NoFn
    PROVE  Base(s) = b
<1> DEFINE M == {0} \cup Markers(s)
<1>1. Len(s) \in Nat
  BY LenProperties
<1>2. M \in SUBSET (0..Len(s)) /\ b \in M
  BY <1>1 DEF Markers
<1>3. \A y \in M : y <= b
  BY <1>1 DEF Markers
<1>4. Max(M) \in M /\ Max(M) >= b
  BY <1>1, <1>2, MaxExists
<1> QED
  BY <1>1, <1>2, <1>3, <1>4 DEF Base

\* Unwinding stops at a frame above the base, leaves everything under that
\* frame as it was, and may move that frame to a catch block of its function.
LEMMA UnwoundFacts ==
    ASSUME NEW s \in Seq(Frames), NEW b \in Nat, b < Len(s),
           b > 0 => s[b].fn = NoFn,
           \A j \in b + 1..Len(s) : Live(s[j])
    PROVE  LET u == Unwound(s) IN
           /\ u \in Seq(Frames)
           /\ Len(u) \in b + 1..Len(s)
           /\ \A j \in 1..Len(u) - 1 : u[j] = s[j]
           /\ u[Len(u)].fn = s[Len(u)].fn
           /\ Live(u[Len(u)])
<1>1. Len(s) \in Nat /\ b \in 0..Len(s)
  BY LenProperties
<1>2. \A j \in b + 1..Len(s) : s[j].fn # NoFn /\ s[j] \in Frame
  BY <1>1, FrameFacts, ElementOfSeq DEF Live
<1>3. Base(s) = b
  BY <1>1, <1>2, BaseFacts
<1>4. CASE Catchers(s) = {}
  <2>1. b + 1 \in 0..Len(s)
    BY <1>1
  <2>2. Unwound(s) = SubSeq(s, 1, b + 1)
    BY <1>3, <1>4 DEF Unwound
  <2> QED
    BY <1>1, <2>1, <2>2, PrefixFacts
<1>5. CASE Catchers(s) # {}
  <2> DEFINE i == Max(Catchers(s))
             t == SubSeq(s, 1, i)
             e == [s[i] EXCEPT !.pc = CatchPos(s[i])]
  <2>1. Catchers(s) \in SUBSET (0..Len(s))
    BY <1>1, <1>3 DEF Catchers
  <2>2. i \in Catchers(s)
    BY <1>1, <1>5, <2>1, MaxExists
  <2>3. i \in b + 1..Len(s) /\ Covering(s[i]) # {}
    BY <1>3, <2>2 DEF Catchers
  <2>4. s[i] \in Frame /\ CatchPos(s[i]) \in 1..Len(Code[s[i].fn])
    BY <1>2, <2>3, CatchPosFacts
  <2>5. e \in Frame /\ e.fn = s[i].fn /\ e.pc = CatchPos(s[i])
    BY <2>4 DEF Frame
  <2> HIDE DEF i
  <2>6. t \in Seq(Frames) /\ Len(t) = i /\ \A j \in 1..i : t[j] = s[j]
    <3>1. i \in 0..Len(s)
      BY <1>1, <2>3
    <3> QED
      BY <3>1, PrefixFacts
  <2>7. Unwound(s) = [t EXCEPT ![i].pc = CatchPos(s[i])]
    BY <1>5 DEF Unwound, i
  <2>8. CatchPos(s[i]) = e.pc /\ t[i] = s[i] /\ [s[i] EXCEPT !.pc = e.pc] = e
    BY <2>3, <2>4, <2>5, <2>6
  <2>9. Unwound(s) = [t EXCEPT ![i] = e]
    BY <2>3, <2>6, <2>7, <2>8
  <2>10. e \in Frames /\ i \in 1..Len(t)
    BY <1>1, <2>3, <2>5, <2>6 DEF Frames
  <2> HIDE DEF t, e
  <2>11. /\ Unwound(s) \in Seq(Frames)
         /\ Len(Unwound(s)) = i
         /\ \A j \in 1..i : Unwound(s)[j] = IF j = i THEN e ELSE t[j]
    BY <2>6, <2>9, <2>10, ExceptSeq
  <2>12. Live(e) /\ e.fn = s[i].fn
    BY <2>4, <2>5, <1>2, <2>3 DEF Live
  <2> QED
    BY <1>1, <2>3, <2>6, <2>11, <2>12
<1> QED
  BY <1>4, <1>5

-----------------------------------------------------------------------------
(* The two halves of the inductive invariant.                              *)

Statuses == {"uninitialized", "prepared", "active", "suspended", "finished",
             "exception"}

VMInv ==
    /\ host \in Seq(HostAct)
    /\ callStack \in Seq(Frames)
    /\ status \in Statuses
    /\ StackShape /\ HostShape /\ StatusShape

NativeInv ==
    /\ native \in Seq(Activation)
    /\ \A i \in 1..Len(native) : ActivationShape(i)
    /\ StacksAligned /\ RunsInOwnFrame /\ CatchesHere

FlagsOK ==
    doProcessSuspend \in BOOLEAN /\ doSuspend \in BOOLEAN
    /\ willBeCaught \in BOOLEAN

\* What every action is shown to preserve on its own; ExceptionIsFlagged and
\* the inlined bodies, the rest of the invariant, are shown for all of them
\* together.
CoreInv == VMInv /\ NativeInv /\ FlagsOK

BodyOK == body \in Seq(Frame) /\ BodyShape

LEMMA InvHalves == InductiveInv <=> CoreInv /\ ExceptionIsFlagged /\ BodyOK
BY DEF InductiveInv, CoreInv, VMInv, NativeInv, FlagsOK, BodyOK, JitTypeOK,
       Frames, Statuses

LEMMA HostFacts ==
    ASSUME VMInv
    PROVE  /\ Len(host) \in Nat
           /\ \A i \in 1..Len(host) :
                host[i].kind \in {"exec", "sys"} /\ host[i].depth \in Nat
           /\ Depth \in Nat
           /\ \A j \in 1..Depth : callStack[j] \in Frames
           /\ host # <<>> => Len(host) > 0
<1>1. \A i \in 1..Len(host) : host[i] \in HostAct
  BY ElementOfSeq DEF VMInv
<1>2. \A j \in 1..Depth : callStack[j] \in Frames
  BY ElementOfSeq DEF VMInv, Depth
<1> QED
  BY <1>1, <1>2, LenProperties, EmptySeq DEF VMInv, HostAct, Depth

\* The parts of HostShape, going up the C++ stack.
LEMMA HostOrder ==
    ASSUME VMInv
    PROVE  /\ \A i, j \in 1..Len(host) : i < j => host[i].depth < host[j].depth
           /\ \A k \in 1..Len(host) - 1 :
                /\ host[k + 1].kind # host[k].kind
                /\ host[k + 1].kind = "exec" =>
                     host[k + 1].depth = host[k].depth + 1
<1>1. Len(host) \in Nat
  BY HostFacts
<1>2. ASSUME NEW k \in 1..Len(host) - 1
      PROVE  /\ host[k + 1].kind # host[k].kind
             /\ host[k + 1].kind = "exec" =>
                  host[k + 1].depth = host[k].depth + 1
  <2>1. k + 1 \in 2..Len(host) /\ (k + 1) - 1 = k
    BY <1>1, <1>2
  <2>2. /\ host[k + 1].kind # host[(k + 1) - 1].kind
        /\ host[k + 1].kind = "exec" =>
             host[k + 1].depth = host[(k + 1) - 1].depth + 1
    BY <2>1, Zenon DEF VMInv, HostShape
  <2> QED
    BY <2>1, <2>2
<1> QED
  BY <1>2 DEF VMInv, HostShape

LEMMA NativeFacts ==
    ASSUME NativeInv
    PROVE  /\ Len(native) \in Nat
           /\ \A i \in 1..Len(native) :
                /\ native[i] \in Activation
                /\ native[i].depth \in Nat /\ native[i].level \in Nat
                /\ native[i].fn \in Fn
           /\ native # <<>> => Len(native) > 0
<1>1. \A i \in 1..Len(native) : native[i] \in Activation
  BY ElementOfSeq DEF NativeInv
<1> QED
  BY <1>1, LenProperties, EmptySeq DEF NativeInv, Activation

\* While Execute runs and has not finished, the frames above its floor are
\* live and the floor is the base of the stack.
LEMMA ExecuteFacts ==
    ASSUME VMInv, InExecute
    PROVE  /\ Len(host) > 0
           /\ Last(host).depth \in 0..Depth
           /\ Last(host).depth > 0 => callStack[Last(host).depth].fn = NoFn
           /\ \A j \in Last(host).depth + 1..Depth : Live(callStack[j])
           /\ Base(callStack) = Last(host).depth
           /\ status # "finished" =>
                /\ Depth > Last(host).depth
                /\ Live(Current) /\ Current \in Frame
<1> DEFINE d == Last(host).depth
<1>1. /\ Len(host) \in Nat /\ Len(host) > 0 /\ Depth \in Nat
      /\ Last(host).kind = "exec" /\ d \in Nat
      /\ \A i \in 1..Len(host) :
            host[i].kind \in {"exec", "sys"} /\ host[i].depth \in Nat
  BY HostFacts DEF InExecute, Last
<1>2. d \in 0..Depth /\ (status # "finished" => Depth > d)
  BY <1>1 DEF VMInv, StatusShape, LiveAbove
<1>3. \A i \in 1..Len(host) :
        host[i].kind = "sys" => host[i].depth + 1 <= d /\ i < Len(host)
  BY <1>1 DEF VMInv, HostShape, Last
<1>4. d > 0 => callStack[d].fn = NoFn
  <2>1. SUFFICES ASSUME d > 0 PROVE callStack[d].fn = NoFn
    OBVIOUS
  <2>2. Len(host) > 1
    BY <1>1, <2>1 DEF VMInv, HostShape, Last
  <2>3. host[Len(host) - 1].kind = "sys" /\ d = host[Len(host) - 1].depth + 1
    BY <1>1, <2>2 DEF VMInv, HostShape, Last
  <2> QED
    BY <1>1, <1>2, <2>1, <2>2, <2>3 DEF VMInv, StackShape
<1>5. \A j \in d + 1..Depth : Live(callStack[j])
  <2>1. SUFFICES ASSUME NEW j \in d + 1..Depth PROVE Live(callStack[j])
    OBVIOUS
  <2>2. j \in 1..Depth
    BY <1>1, <1>2, <2>1
  <2>3. ~\E i \in 1..Len(host) : host[i].kind = "sys" /\ j = host[i].depth + 1
    BY <1>2, <1>3, <2>1
  <2> QED
    BY <2>2, <2>3 DEF VMInv, StackShape, Live
<1>6. Base(callStack) = d
  BY <1>1, <1>2, <1>4, <1>5, BaseFacts DEF VMInv, Depth, Live
<1>7. status # "finished" => Live(Current) /\ Current \in Frame
  BY <1>1, <1>2, <1>5, FrameFacts, HostFacts DEF Current
<1> QED
  BY <1>1, <1>2, <1>4, <1>5, <1>6, <1>7

\* A step of the running execution leaves the frames under its floor alone
\* and live frames above it.
LEMMA ExecutionStep ==
    ASSUME VMInv, InExecute, host' = host,
           callStack' \in Seq(Frames), status' \in Statuses,
           \A j \in 1..Last(host).depth : callStack'[j] = callStack[j],
           \A j \in Last(host).depth + 1..Len(callStack') : Live(callStack'[j]),
           \/ status' = "finished" /\ Len(callStack') = Last(host).depth
           \/ /\ status' \in {"active", "suspended", "exception"}
              /\ Len(callStack') > Last(host).depth
    PROVE  VMInv'
<1> DEFINE d == Last(host).depth
<1>1. /\ Len(host) \in Nat /\ Len(host) > 0 /\ d \in Nat /\ d <= Depth
      /\ Last(host).kind = "exec"
      /\ \A i \in 1..Len(host) :
            host[i].kind \in {"exec", "sys"} /\ host[i].depth \in Nat
  BY HostFacts, ExecuteFacts DEF InExecute, Last
<1>2. \A i \in 1..Len(host) :
        host[i].kind = "sys" => host[i].depth + 1 <= d
  BY <1>1, HostOrder DEF Last
<1>3. Depth' \in Nat /\ Depth' >= d /\ Depth \in Nat
  BY <1>1, LenProperties, HostFacts DEF Depth
<1>4. StackShape'
  BY <1>1, <1>2, <1>3, SMTT(30) DEF VMInv, StackShape, Depth, Live
<1>5. HostShape'
  <2>1. ASSUME NEW i \in 1..Len(host), host[i].kind = "sys"
        PROVE  /\ host[i].depth \in 1..Depth'
               /\ AtSys(callStack'[host[i].depth])
    <3>1. host[i].depth \in 1..Depth /\ AtSys(callStack[host[i].depth])
      BY <2>1 DEF VMInv, HostShape
    <3>2. host[i].depth \in 1..d
      BY <1>1, <1>2, <2>1, <3>1
    <3>3. callStack'[host[i].depth] = callStack[host[i].depth]
      BY <3>2
    <3> QED
      BY <1>1, <1>3, <3>1, <3>2, <3>3
  <2> QED
    BY <2>1 DEF VMInv, HostShape, AtSys
<1>6. StatusShape'
  BY <1>1 DEF StatusShape, InExecute, InSys, LiveAbove, Depth
<1> QED
  BY <1>4, <1>5, <1>6 DEF VMInv

-----------------------------------------------------------------------------
(* The activations.                                                        *)

\* With control in generated code Execute is running, and every activation
\* under a jit one stands for a frame under its frame.
LEMMA InNativeFacts ==
    ASSUME VMInv, NativeInv, InNative
    PROVE  /\ Len(native) > 0 /\ Len(native) \in Nat
           /\ Top \in Activation /\ Top = native[Len(native)]
           /\ InExecute /\ Top.level = Len(host)
           /\ Last(host).depth < Top.depth /\ Top.depth <= Depth
           /\ Top.kind = "jit" =>
                \A i \in 1..Len(native) - 1 : native[i].depth < Top.depth
<1>1. /\ Len(native) > 0 /\ Len(native) \in Nat
      /\ Top = native[Len(native)] /\ Top \in Activation
  BY NativeFacts DEF InNative, Top, Last
<1>2. ActivationShape(Len(native)) /\ Top.level = Len(host)
  BY <1>1 DEF NativeInv, InNative
<1>3. /\ Len(host) \in Nat /\ Top.level \in 1..Len(host)
      /\ host[Top.level].kind = "exec" /\ host[Top.level].depth < Top.depth
      /\ Top.depth <= Depth
  BY <1>1, <1>2, HostFacts DEF ActivationShape
<1>4. InExecute /\ Last(host).depth < Top.depth
  BY <1>2, <1>3, EmptySeq DEF InExecute, Last
<1>5. Top.kind = "jit" =>
        \A i \in 1..Len(native) - 1 : native[i].depth < Top.depth
  BY <1>1 DEF NativeInv, StacksAligned
<1> QED
  BY <1>1, <1>2, <1>3, <1>4, <1>5

\* With control in the interpreter the activations belong to executions that
\* a system function interrupted; their frames are under the floor.
LEMMA InterpreterFacts ==
    ASSUME VMInv, NativeInv, InExecute, ~InNative,
           NEW i \in 1..Len(native)
    PROVE  /\ native[i].depth < Last(host).depth
           /\ native[i].level < Len(host) /\ native[i].level < Len(host) - 1
<1> DEFINE n == Len(native)
           t == native[n]
<1>1. /\ n \in Nat /\ n > 0 /\ n \in 1..n /\ Len(host) \in Nat
      /\ native[i].depth \in Nat /\ native[i].level \in Nat
      /\ t.depth \in Nat /\ t.level \in Nat
      /\ \A k \in 1..Len(host) : host[k].depth \in Nat
  BY NativeFacts, HostFacts
<1>2. native # <<>>
  BY <1>1, EmptySeq
<1>3. ActivationShape(n) /\ t.level \in 1..Len(host) /\ t.level < Len(host)
  BY <1>1, <1>2 DEF NativeInv, ActivationShape, InNative, Top, Last
<1>4. /\ host[t.level].kind = "exec" /\ t.depth = host[t.level + 1].depth
      /\ host[t.level + 1].kind # "exec"
  <2>1. t.level \in 1..Len(host) - 1 /\ IsLead(n)
    BY <1>1, <1>3 DEF IsLead
  <2>2. host[t.level].kind = "exec" /\ t.depth = host[t.level + 1].depth
    BY <1>3, <2>1 DEF ActivationShape
  <2> QED
    BY <2>1, <2>2, HostOrder
<1>5. Last(host).kind = "exec" /\ t.level + 1 < Len(host)
  BY <1>1, <1>3, <1>4 DEF InExecute, Last
<1>6. t.depth < Last(host).depth
  <2>1. host[t.level + 1].depth < host[Len(host)].depth
    <3>1. t.level + 1 \in 1..Len(host) /\ Len(host) \in 1..Len(host)
      BY <1>1, <1>3, <1>5
    <3> QED
      BY <1>5, <3>1, HostOrder
  <2> QED
    BY <1>4, <2>1 DEF Last
<1>7. native[i].level <= t.level /\ native[i].depth <= t.depth
  <2>1. CASE i = n
    BY <1>1, <2>1
  <2>2. CASE i < n
    <3>1. /\ native[i].level <= t.level
          /\ native[i].depth = t.depth \/ native[i].depth < t.depth
      BY <1>1, <2>2 DEF NativeInv, StacksAligned
    <3> QED
      BY <1>1, <3>1
  <2> QED
    BY <1>1, <2>1, <2>2
<1>8. Last(host).depth \in Nat
  BY <1>1, <1>5 DEF Last
<1> QED
  BY <1>1, <1>3, <1>5, <1>6, <1>7, <1>8

\* The first L activations of the C++ stack are all that is left of it.
KeepsHost(L) ==
    /\ L \in 0..Len(host) /\ Len(host') = L
    /\ \A i \in 1..L : host'[i] = host[i]

\* The order of activations, and nothing else, of StacksAligned.
Before(a, b, next) ==
    /\ a.level <= b.level
    /\ IF b.kind = "chain" /\ next THEN a.depth = b.depth ELSE a.depth < b.depth

LEMMA AlignedFacts ==
    ASSUME NativeInv
    PROVE  \A i, j \in 1..Len(native) :
                i < j => Before(native[i], native[j], j = i + 1)
BY DEF NativeInv, StacksAligned, Before

\* Activations under the n-th one keep their shape when a step leaves them,
\* their frames and the level above them alone.
LEMMA KeptBelow ==
    ASSUME VMInv, NativeInv, NEW L \in Nat, KeepsHost(L),
           NEW n \in 1..Len(native), native[n].level <= L,
           native' \in Seq(Activation), n <= Len(native'),
           \A k \in 1..n - 1 : native'[k] = native[k],
           native'[n].level = native[n].level,
           \A k \in 1..n - 1 :
                /\ native[k].depth <= Depth'
                /\ callStack'[native[k].depth] = callStack[native[k].depth]
    PROVE  \A i \in 1..n - 1 : ActivationShape(i)'
<1> SUFFICES ASSUME NEW i \in 1..n - 1
             PROVE  ActivationShape(i)'
  OBVIOUS
<1>1. /\ Len(native) \in Nat /\ Len(native') \in Nat /\ i \in 1..Len(native)
      /\ i < Len(native) /\ i < Len(native')
  BY LenProperties, NativeFacts
<1>2. ActivationShape(i)
  BY <1>1 DEF NativeInv
<1>3. IsLead(i)' = IsLead(i)
  BY <1>1 DEF IsLead
<1>4. native'[i] = native[i] /\ (i > 1 => native'[i - 1] = native[i - 1])
  BY <1>1
<1>5. native[i].level \in 1..L /\ Len(host) \in Nat
  <2>1. native[i].level <= native[n].level
    BY <1>1, AlignedFacts DEF Before
  <2> QED
    BY <1>1, <1>2, <2>1, NativeFacts, HostFacts DEF ActivationShape
<1>6. /\ host'[native[i].level] = host[native[i].level]
      /\ native[i].level < L =>
            /\ native[i].level < Len(host)
            /\ host'[native[i].level + 1] = host[native[i].level + 1]
  BY <1>5 DEF KeepsHost
<1>7. Len(host') = L
  BY DEF KeepsHost
<1> QED
  BY <1>1, <1>2, <1>3, <1>4, <1>5, <1>6, <1>7 DEF ActivationShape, OwnFrame

LEMMA AlignedStep ==
    ASSUME \A i \in 1..Len(native') : ActivationShape(i)',
           \A i, j \in 1..Len(native') :
                i < j => Before(native'[i], native'[j], j = i + 1)
    PROVE  StacksAligned'
BY DEF StacksAligned, Before, ActivationShape

\* Leaving generated code: the first m activations remain, and the innermost
\* of them waits or belongs to an interrupted execution.
LEMMA LeaveStep ==
    ASSUME VMInv, NativeInv, NEW L \in Nat, KeepsHost(L),
           NEW m \in 0..Len(native) - 1, native' = SubSeq(native, 1, m),
           native[m + 1].level = L,
           \A k \in 1..m :
                /\ native[k].depth <= Depth'
                /\ callStack'[native[k].depth] = callStack[native[k].depth]
    PROVE  NativeInv'
<1> DEFINE n == Len(native)
<1>1. /\ n \in Nat /\ n > 0 /\ m \in 0..n /\ m \in Nat /\ m < n
      /\ native \in Seq(Activation)
      /\ Len(host) \in Nat /\ L <= Len(host) /\ Len(host') = L
  BY NativeFacts, HostFacts DEF NativeInv, KeepsHost
<1>2. /\ native' \in Seq(Activation) /\ Len(native') = m
      /\ \A k \in 1..m : native'[k] = native[k]
  BY <1>1, PrefixFacts
<1>3. ASSUME m > 0
      PROVE  /\ m \in 1..n /\ m \in 1..Len(native')
             /\ ActivationShape(m) /\ native'[m] = native[m]
             /\ native[m].level = L =>
                    native[m].state = "wait" \/ native[m].kind = "chain"
             /\ native[m].level < L => IsLead(m)
             /\ m > 1 => native'[m - 1] = native[m - 1]
             /\ native[m].level \in 1..L
  <2>1. m \in 1..n /\ m \in 1..m
    BY <1>1, <1>3
  <2>2. native[m].level \in Nat
    BY <2>1, NativeFacts
  <2>3. native[m].level = L => ~IsLead(m)
    BY <1>1 DEF IsLead
  <2>4. native[m].level < L => IsLead(m)
    BY <1>1, <1>3, <2>2, AlignedFacts DEF IsLead, Before
  <2>5. ActivationShape(m)
    BY <2>1 DEF NativeInv
  <2>6. m > 1 => native'[m - 1] = native[m - 1]
    BY <1>1, <1>2
  <2>7. native[m].level <= native[m + 1].level
    <3>1. m \in 1..n /\ m + 1 \in 1..n /\ m < m + 1
      BY <1>1, <1>3
    <3> QED
      BY <3>1, AlignedFacts DEF Before
  <2>8. native[m].level \in 1..L
    BY <1>1, <2>2, <2>5, <2>7 DEF ActivationShape
  <2> QED
    BY <1>2, <2>1, <2>3, <2>4, <2>5, <2>6, <2>8 DEF ActivationShape
<1>4. ASSUME NEW i \in 1..m
      PROVE  ActivationShape(i)'
  <2>1. CASE i < m
    <3>1. /\ m \in 1..Len(native) /\ i \in 1..m - 1 /\ m <= Len(native')
          /\ \A k \in 1..m - 1 :
                /\ native'[k] = native[k]
                /\ native[k].depth <= Depth'
                /\ callStack'[native[k].depth] = callStack[native[k].depth]
          /\ native'[m].level = native[m].level
      BY <1>1, <1>2, <2>1, SMTT(30)
    <3>2. native[m].level <= L
      BY <1>1, <1>3, <3>1
    <3> QED
      BY <1>1, <1>2, <3>1, <3>2, KeptBelow
  <2>2. CASE i = m
    <3>1. m > 0
      BY <1>1, <2>2
    <3>2. /\ native[m].depth <= Depth'
          /\ callStack'[native[m].depth] = callStack[native[m].depth]
      BY <2>2
    <3>3. native[m].level \in 1..L /\ IsLead(m)'
      BY <1>2, <1>3, <3>1 DEF IsLead
    <3>4. /\ host'[native[m].level] = host[native[m].level]
          /\ native[m].level < L =>
                /\ native[m].level < Len(host)
                /\ host'[native[m].level + 1] = host[native[m].level + 1]
      BY <1>1, <3>3 DEF KeepsHost
    <3>5. ActivationShape(m)'
      BY <1>1, <1>3, <3>1, <3>2, <3>3, <3>4 DEF ActivationShape, OwnFrame
    <3> QED
      BY <2>2, <3>5
  <2> QED
    BY <1>1, <2>1, <2>2
<1>5. StacksAligned'
  <2>1. ASSUME NEW i \in 1..m, NEW k \in 1..m, i < k
        PROVE  Before(native'[i], native'[k], k = i + 1)
    <3>1. i \in 1..n /\ k \in 1..n
      BY <1>1
    <3> QED
      BY <1>2, <2>1, <3>1, AlignedFacts
  <2> QED
    BY <1>2, <1>4, <2>1, AlignedStep
<1>6. RunsInOwnFrame' /\ CatchesHere'
  <2>1. native' # <<>> => m > 0 /\ Top' = native[m]
    BY <1>1, <1>2, EmptySeq DEF Top, Last
  <2>2. ASSUME InNative'
        PROVE  m > 0 /\ native[m].level = L /\ Top' = native[m]
    BY <1>1, <2>1, <2>2 DEF InNative
  <2>3. ~InJit("run")' /\ ~InJit("catch")'
    BY <1>3, <2>2 DEF InJit, ActivationShape
  <2> QED
    BY <2>3 DEF RunsInOwnFrame, CatchesHere
<1> QED
  BY <1>2, <1>4, <1>5, <1>6 DEF NativeInv

\* Control goes to the m-th activation x, in its frame: it goes on, or turns
\* to its catch block.
LEMMA LandStep ==
    ASSUME VMInv, NativeInv, NEW L \in Nat, KeepsHost(L),
           NEW m \in 1..Len(native), NEW x \in Activation,
           native[m].level = L, native[m].kind = "jit",
           x.kind = "jit", x.fn = native[m].fn, x.level = native[m].level,
           x.depth = native[m].depth, x.at \in 1..Len(Code[x.fn]),
           native' \in Seq(Activation), Len(native') = m, native'[m] = x,
           \A k \in 1..m - 1 : native'[k] = native[k],
           \A j \in 1..x.depth - 1 : callStack'[j] = callStack[j],
           Depth' = x.depth, Current'.fn = x.fn,
           \/ x.state = "run" /\ status' = "active"
           \/ /\ x.state = "catch" /\ status' = "exception" /\ willBeCaught'
              /\ Covering(Current') = Covering([fn |-> x.fn, pc |-> x.at])
              /\ Covering(Current') # {}
    PROVE  NativeInv'
<1>1. /\ m \in Nat /\ Len(native) \in Nat /\ x.depth \in Nat
      /\ x.level = Len(host') /\ x.level \in 1..Len(host') /\ x.level <= L
      /\ host'[x.level] = host[x.level]
      /\ host[x.level].kind = "exec" /\ host[x.level].depth < x.depth
  <2>1. ActivationShape(m)
    BY DEF NativeInv
  <2> QED
    BY <2>1, NativeFacts DEF ActivationShape, KeepsHost
<1>2. ASSUME NEW k \in 1..m - 1
      PROVE  /\ native[k].depth <= Depth'
             /\ callStack'[native[k].depth] = callStack[native[k].depth]
  <2>1. k \in 1..Len(native) /\ k < m
    BY <1>1
  <2>2. native[k].depth < x.depth
    BY <2>1, AlignedFacts DEF Before
  <2>3. native[k].depth \in Nat /\ native[k].depth > 0
    <3>1. ActivationShape(k) /\ native[k].depth \in Nat
      BY <2>1, NativeFacts DEF NativeInv
    <3> QED
      BY <3>1, HostFacts DEF ActivationShape
  <2>4. native[k].depth \in 1..x.depth - 1
    BY <1>1, <2>2, <2>3
  <2> QED
    BY <1>1, <2>2, <2>3, <2>4
<1>3. ASSUME NEW i \in 1..m
      PROVE  ActivationShape(i)'
  <2>1. CASE i < m
    <3>1. i \in 1..m - 1 /\ m <= Len(native') /\ native'[m].level = native[m].level
          /\ native[m].level <= L
      BY <1>1, <2>1
    <3> QED
      BY <1>2, <3>1, KeptBelow
  <2>2. CASE i = m
    <3>1. native'[i] = x /\ IsLead(i)'
      BY <2>2 DEF IsLead
    <3> QED
      BY <1>1, <3>1 DEF ActivationShape
  <2> QED
    BY <1>1, <2>1, <2>2
<1>4. StacksAligned'
  <2>1. ASSUME NEW i \in 1..m, NEW k \in 1..m, i < k
        PROVE  Before(native'[i], native'[k], k = i + 1)
    <3>1. Before(native[i], native[k], k = i + 1)
      <4>1. i \in 1..Len(native) /\ k \in 1..Len(native)
        BY <1>1
      <4> QED
        BY <2>1, <4>1, AlignedFacts, Zenon
    <3>2. i \in 1..m - 1 /\ native'[i] = native[i]
      BY <1>1, <2>1
    <3>3. CASE k = m
      BY <3>1, <3>2, <3>3 DEF Before
    <3>4. CASE k # m
      <4>1. k \in 1..m - 1 /\ native'[k] = native[k]
        BY <1>1, <3>4
      <4> QED
        BY <3>1, <3>2, <4>1
    <3> QED
      BY <3>3, <3>4
  <2> QED
    BY <1>3, <2>1, AlignedStep
<1>5. Top' = x
  BY DEF Top, Last
<1>6. RunsInOwnFrame' /\ CatchesHere'
  BY <1>5 DEF RunsInOwnFrame, CatchesHere, InJit
<1> QED
  BY <1>3, <1>4, <1>6 DEF NativeInv

LEMMA ReplaceStep ==
    ASSUME VMInv, NativeInv, InNative, Top.kind = "jit", host' = host,
           NEW x \in Activation,
           x.kind = "jit", x.fn = Top.fn, x.level = Top.level,
           x.depth = Top.depth, x.at \in 1..Len(Code[x.fn]),
           native' = [native EXCEPT ![Len(native)] = x],
           \A j \in 1..Top.depth - 1 : callStack'[j] = callStack[j],
           Depth' = Top.depth, Current'.fn = x.fn,
           \/ x.state = "run" /\ status' = "active"
           \/ /\ x.state = "catch" /\ status' = "exception" /\ willBeCaught'
              /\ Covering(Current') = Covering([fn |-> x.fn, pc |-> x.at])
              /\ Covering(Current') # {}
    PROVE  NativeInv'
<1> DEFINE m == Len(native)
<1>1. /\ m \in 1..m /\ Top = native[m] /\ native \in Seq(Activation)
      /\ native[m].level = Len(host) /\ m \in Nat
  BY InNativeFacts DEF NativeInv
<1>2. /\ native' \in Seq(Activation) /\ Len(native') = m
      /\ \A k \in 1..m : native'[k] = IF k = m THEN x ELSE native[k]
  BY <1>1, ExceptSeq
<1>3. native'[m] = x /\ \A k \in 1..m - 1 : k \in 1..m /\ k # m
  <2> HIDE DEF m
  <2>1. native'[m] = x
    BY <1>1, <1>2, Zenon
  <2> QED
    BY <1>1, <2>1
<1>4. \A k \in 1..m - 1 : native'[k] = native[k]
  BY <1>2, <1>3, Zenon
<1>5. Len(host) \in Nat /\ KeepsHost(Len(host))
  BY HostFacts DEF KeepsHost
<1> HIDE DEF m
<1> QED
  BY <1>1, <1>2, <1>3, <1>4, <1>5, LandStep

\* A new activation x on top, over activations that keep their places.
LEMMA GrowStep ==
    ASSUME VMInv, NativeInv, host' = host, NEW n \in Nat, n = Len(native),
           NEW base \in Seq(Activation),
           NEW x \in Activation, native' = Append(base, x),
           Len(base) = n, x.level = Len(host),
           \A k \in 1..n :
                /\ base[k].level = native[k].level
                /\ base[k].depth = native[k].depth
                /\ base[k].kind = native[k].kind
                /\ Before(native[k], x, k = n),
           \A k \in 1..n - 1 :
                /\ base[k] = native[k] /\ native[k].depth <= Depth'
                /\ callStack'[native[k].depth] = callStack[native[k].depth],
           n > 0 => ActivationShape(n)', ActivationShape(n + 1)',
           x.kind = "jit" =>
                /\ x.state = "run" /\ status' = "active"
                /\ Depth' = x.depth /\ Current'.fn = x.fn,
           x.kind = "chain" => x.state = "run"
    PROVE  NativeInv'
<1>1. /\ native' \in Seq(Activation) /\ Len(native') = n + 1
      /\ \A k \in 1..n : native'[k] = base[k]
      /\ native'[n + 1] = x
  BY AppendProperties
<1>2. ASSUME NEW i \in 1..n + 1
      PROVE  ActivationShape(i)'
  <2>1. CASE i < n
    <3>1. n \in 1..Len(native) /\ i \in 1..n - 1 /\ n <= Len(native')
          /\ native'[n].level = native[n].level
          /\ \A k \in 1..n - 1 : native'[k] = native[k]
      BY <1>1, <2>1
    <3>2. Len(host) \in Nat /\ KeepsHost(Len(host))
      BY HostFacts DEF KeepsHost
    <3>3. native[n].level <= Len(host)
      <4>1. ActivationShape(n)
        BY <3>1 DEF NativeInv
      <4>2. native[n].level \in 1..Len(host)
        BY <4>1, Zenon DEF ActivationShape
      <4> QED
        BY <3>2, <4>2
    <3> QED
      BY <1>1, <3>1, <3>2, <3>3, KeptBelow
  <2>2. CASE i = n
    BY <2>2
  <2>3. CASE i = n + 1
    BY <2>3
  <2> QED
    BY <2>1, <2>2, <2>3
<1>3. StacksAligned'
  <2>1. ASSUME NEW i \in 1..n + 1, NEW k \in 1..n + 1, i < k
        PROVE  Before(native'[i], native'[k], k = i + 1)
    <3>1. i \in 1..n /\ native'[i] = base[i]
      BY <1>1, <2>1
    <3>2. CASE k \in 1..n
      <4>1. Before(native[i], native[k], k = i + 1)
        BY <2>1, <3>1, <3>2, AlignedFacts
      <4> QED
        BY <1>1, <3>1, <3>2, <4>1 DEF Before
    <3>3. CASE k = n + 1
      <4>1. Before(native[i], x, i = n) /\ (k = i + 1 <=> i = n)
        BY <3>1, <3>3
      <4> QED
        BY <1>1, <3>1, <3>3, <4>1 DEF Before
    <3> QED
      BY <3>2, <3>3
  <2> QED
    BY <1>1, <1>2, <2>1, AlignedStep
<1>4. Top' = x
  BY <1>1 DEF Top, Last
<1>5. RunsInOwnFrame' /\ CatchesHere'
  BY <1>4 DEF RunsInOwnFrame, CatchesHere, InJit, Activation
<1> QED
  BY <1>1, <1>2, <1>3, <1>5 DEF NativeInv

\* A step of the interpreter moves frames above all activations.
LEMMA InterpreterStep ==
    ASSUME VMInv, NativeInv, InExecute, ~InNative,
           host' = host, native' = native,
           \A j \in 1..Last(host).depth : callStack'[j] = callStack[j],
           Depth' \in Nat, Depth' >= Last(host).depth
    PROVE  NativeInv'
<1>1. ASSUME NEW i \in 1..Len(native)
      PROVE  ActivationShape(i)'
  <2>1. /\ ActivationShape(i) /\ native[i].depth < Last(host).depth
        /\ native[i].depth \in Nat /\ Last(host).depth \in Nat
        /\ native[i].level \in 1..Len(host)
    BY InterpreterFacts, NativeFacts, ExecuteFacts, HostFacts
       DEF NativeInv, ActivationShape
  <2>2. native[i].depth > 0
    BY <2>1, HostFacts DEF ActivationShape
  <2>3. /\ callStack'[native[i].depth] = callStack[native[i].depth]
        /\ native[i].depth <= Depth'
    BY <2>1, <2>2
  <2>4. IsLead(i)' = IsLead(i)
    BY DEF IsLead
  <2> QED
    BY <2>1, <2>3, <2>4 DEF ActivationShape, OwnFrame
<1>2. StacksAligned' /\ ~InNative'
  BY DEF NativeInv, StacksAligned, InNative, Top
<1> QED
  BY <1>1, <1>2 DEF NativeInv, RunsInOwnFrame, CatchesHere, InJit

-----------------------------------------------------------------------------
(* What the instructions do to the call stack.                             *)

LEMMA CodeFacts ==
    ASSUME NEW f \in Fn
    PROVE  /\ 1 \in 1..Len(Code[f])
           /\ \A p \in 1..Len(Code[f]) :
                /\ Code[f][p].fn \in Fn
                /\ Code[f][p].op # "ret" => p + 1 \in 1..Len(Code[f])
                /\ Code[f][p].op = "br" => Code[f][p].to \in 1..Len(Code[f])
<1>1. Code[f] \in Seq(Instr) /\ Code[f] # <<>>
  BY CodeAssumption
<1>2. Len(Code[f]) \in Nat /\ Len(Code[f]) > 0
  BY <1>1, EmptySeq
<1>3. \A p \in 1..Len(Code[f]) : Code[f][p] \in Instr
  BY <1>1, ElementOfSeq
<1>4. ASSUME NEW p \in 1..Len(Code[f])
      PROVE  /\ Code[f][p].fn \in Fn
             /\ Code[f][p].op # "ret" => p + 1 \in 1..Len(Code[f])
             /\ Code[f][p].op = "br" => Code[f][p].to \in 1..Len(Code[f])
  <2>1. Code[f][p].fn \in Fn
    BY <1>3 DEF Instr
  <2>2. /\ Code[f][p].op # "ret" => p < Len(Code[f])
        /\ Code[f][p].op = "br" => Code[f][p].to \in 1..Len(Code[f])
    BY CodeAssumption, Zenon
  <2> QED
    BY <1>2, <2>1, <2>2
<1> QED
  BY <1>2, <1>4

LEMMA EntryFacts ==
    ASSUME NEW g \in Fn
    PROVE  Entry(g) \in Frames /\ Live(Entry(g)) /\ Entry(g).fn = g
BY CodeFacts, FnAssumption DEF Entry, Frames, Frame, Live

LEMMA AtPcFacts ==
    ASSUME callStack \in Seq(Frames), Depth > 0, Current \in Frame, NEW p \in Nat
    PROVE  /\ AtPc(p) \in Seq(Frames) /\ Len(AtPc(p)) = Depth /\ Depth \in Nat
           /\ \A j \in 1..Depth - 1 : AtPc(p)[j] = callStack[j]
           /\ AtPc(p)[Depth] = [fn |-> Current.fn, pc |-> p]
<1> DEFINE e == [Current EXCEPT !.pc = p]
<1>1. Depth \in Nat /\ Depth \in 1..Len(callStack)
  BY LenProperties DEF Depth
<1>2. e = [fn |-> Current.fn, pc |-> p] /\ e \in Frames
  BY DEF Frame, Frames
<1>3. AtPc(p) = [callStack EXCEPT ![Depth] = e]
  BY <1>1 DEF AtPc, Current
<1> HIDE DEF e
<1>4. /\ AtPc(p) \in Seq(Frames)
      /\ Len(AtPc(p)) = Len(callStack)
      /\ \A j \in 1..Len(callStack) :
            AtPc(p)[j] = IF j = Depth THEN e ELSE callStack[j]
  BY <1>1, <1>2, <1>3, ExceptSeq
<1> QED
  BY <1>1, <1>2, <1>4 DEF Depth

\* The frame of the executing function, with its floor.
LEMMA RunningFacts ==
    ASSUME VMInv, InExecute, status # "finished"
    PROVE  /\ callStack \in Seq(Frames) /\ Depth \in Nat /\ Depth > 0
           /\ Current \in Frame /\ Current.fn \in Fn
           /\ Current.pc \in 1..Len(Code[Current.fn]) /\ Current.pc \in Nat
           /\ Last(host).depth \in 0..Depth - 1
           /\ \A j \in Last(host).depth + 1..Depth : Live(callStack[j])
<1>1. Current \in Frame /\ Live(Current) /\ Last(host).depth \in 0..Depth
      /\ Depth > Last(host).depth
  BY ExecuteFacts
<1> QED
  BY <1>1, HostFacts, ExecuteFacts DEF VMInv, Frame, Live

LEMMA SameVM ==
    ASSUME VMInv, FlagsOK, UNCHANGED vmVars
    PROVE  VMInv' /\ FlagsOK' /\ Depth' = Depth /\ Current' = Current
<1> USE DEF vmVars
<1>1. Depth' = Depth /\ Current' = Current /\ FlagsOK'
  BY DEF Depth, Current, FlagsOK
<1>2. StackShape' /\ HostShape'
  BY <1>1 DEF VMInv, StackShape, HostShape
<1>3. StatusShape'
  BY <1>1 DEF VMInv, StatusShape, LiveAbove, InExecute, InSys, NestOpen
<1> QED
  BY <1>1, <1>2, <1>3 DEF VMInv

LEMMA StayStep ==
    ASSUME VMInv, InExecute, status # "finished",
           callStack' = callStack, host' = host,
           status' \in {"active", "suspended", "exception"}
    PROVE  VMInv' /\ Depth' = Depth /\ Current' = Current
<1>1. status' \in Statuses /\ Len(callStack') = Depth
  BY DEF Statuses, Depth
<1> QED
  BY <1>1, RunningFacts, ExecutionStep DEF Depth, Current

LEMMA MoveStep ==
    ASSUME VMInv, InExecute, status # "finished",
           NEW p \in 1..Len(Code[Current.fn]),
           callStack' = AtPc(p), host' = host,
           status' \in {"active", "suspended", "exception"}
    PROVE  /\ VMInv' /\ Depth' = Depth
           /\ Current' = [fn |-> Current.fn, pc |-> p]
           /\ callStack'[Depth] = [fn |-> Current.fn, pc |-> p]
           /\ \A j \in 1..Depth - 1 : callStack'[j] = callStack[j]
<1>1. p \in Nat
  BY RunningFacts, CodeFacts
<1>2. /\ callStack' \in Seq(Frames) /\ Depth' = Depth
      /\ \A j \in 1..Depth - 1 : callStack'[j] = callStack[j]
      /\ callStack'[Depth] = [fn |-> Current.fn, pc |-> p]
      /\ Len(callStack') = Depth
  BY <1>1, RunningFacts, AtPcFacts DEF Depth
<1>3. Live(callStack'[Depth])
  BY <1>2, RunningFacts, FnAssumption DEF Live
<1>4. \A j \in Last(host).depth + 1..Depth : Live(callStack'[j])
  BY <1>2, <1>3, RunningFacts
<1>5. \A j \in 1..Last(host).depth : callStack'[j] = callStack[j]
  BY <1>2, RunningFacts
<1>6. status' \in Statuses
  BY DEF Statuses
<1>7. VMInv'
  BY <1>2, <1>4, <1>5, <1>6, RunningFacts, ExecutionStep
<1> QED
  BY <1>2, <1>7 DEF Current

\* A call: the caller's frame gets its return position, the callee is above.
LEMMA PushStep ==
    ASSUME VMInv, InExecute, status # "finished", NEW g \in Fn,
           NEW p \in 1..Len(Code[Current.fn]),
           callStack' = Append(AtPc(p), Entry(g)), host' = host,
           status' \in {"active", "suspended", "exception"}
    PROVE  /\ VMInv' /\ Depth' = Depth + 1
           /\ Current' = Entry(g)
           /\ callStack'[Depth] = [fn |-> Current.fn, pc |-> p]
           /\ \A j \in 1..Depth - 1 : callStack'[j] = callStack[j]
<1> DEFINE t == AtPc(p)
<1>1. p \in Nat
  BY RunningFacts, CodeFacts
<1>2. /\ t \in Seq(Frames) /\ Len(t) = Depth
      /\ \A j \in 1..Depth - 1 : t[j] = callStack[j]
      /\ t[Depth] = [fn |-> Current.fn, pc |-> p]
      /\ Entry(g) \in Frames /\ Live(Entry(g))
  BY <1>1, RunningFacts, AtPcFacts, EntryFacts
<1> HIDE DEF t
<1>3. /\ callStack' \in Seq(Frames) /\ Len(callStack') = Depth + 1
      /\ \A j \in 1..Depth : callStack'[j] = t[j]
      /\ callStack'[Depth + 1] = Entry(g)
  <2>1. callStack' = Append(t, Entry(g))
    BY DEF t
  <2> QED
    BY <1>2, <2>1, AppendProperties
<1>4. /\ callStack'[Depth] = [fn |-> Current.fn, pc |-> p]
      /\ \A j \in 1..Depth - 1 : callStack'[j] = callStack[j]
  BY <1>2, <1>3, RunningFacts
<1>d. /\ Last(host).depth \in 0..Depth - 1 /\ Depth \in Nat
      /\ \A j \in Last(host).depth + 1..Depth : Live(callStack[j])
  BY RunningFacts
<1>5. Live(callStack'[Depth])
  BY <1>4, RunningFacts, FnAssumption DEF Live
<1>6. \A j \in Last(host).depth + 1..Depth + 1 : Live(callStack'[j])
  <2>1. SUFFICES ASSUME NEW j \in Last(host).depth + 1..Depth + 1
                 PROVE  Live(callStack'[j])
    OBVIOUS
  <2>2. j = Depth + 1 \/ j = Depth \/ j \in 1..Depth - 1
    BY <1>d
  <2> QED
    BY <1>2, <1>3, <1>4, <1>5, <1>d, <2>2
<1>7. \A j \in 1..Last(host).depth : callStack'[j] = callStack[j]
  <2>1. \A j \in 1..Last(host).depth : j \in 1..Depth - 1
    BY <1>d
  <2> QED
    BY <1>4, <2>1, Zenon
<1>8. status' \in Statuses
  BY DEF Statuses
<1>9. VMInv'
  BY <1>3, <1>6, <1>7, <1>8, RunningFacts, ExecutionStep
<1> QED
  BY <1>3, <1>4, <1>9 DEF Depth, Current

\* A return: the frame goes, and with the first frame the execution ends.
LEMMA PopStep ==
    ASSUME VMInv, InExecute, status = "active",
           callStack' = Front(callStack), host' = host,
           status' = IF IsOutermost(callStack) THEN "finished" ELSE status
    PROVE  /\ VMInv' /\ Depth' = Depth - 1
           /\ \A j \in 1..Depth - 1 : callStack'[j] = callStack[j]
<1> DEFINE d == Last(host).depth
<1>1. callStack # <<>>
  BY RunningFacts, EmptySeq DEF Depth
<1>2. /\ callStack' \in Seq(Frames) /\ Len(callStack') = Depth - 1
      /\ \A j \in 1..Depth - 1 : callStack'[j] = callStack[j]
  BY <1>1, RunningFacts, FrontFacts DEF Depth
<1>3. IsOutermost(callStack) <=> Depth = d + 1
  <2>1. CASE Depth = d + 1
    BY <2>1, ExecuteFacts, RunningFacts DEF IsOutermost, Depth
  <2>2. CASE Depth # d + 1
    <3>1. Depth - 1 \in d + 1..Depth
      BY <2>2, RunningFacts
    <3>2. callStack[Depth - 1].fn # NoFn
      BY <3>1, RunningFacts DEF Live
    <3> QED
      BY <2>2, <3>1, <3>2, RunningFacts DEF IsOutermost, Depth
  <2> QED
    BY <2>1, <2>2
<1>4. status' \in Statuses
  BY DEF Statuses
<1>5. /\ \A j \in 1..d : callStack'[j] = callStack[j]
      /\ \A j \in d + 1..Len(callStack') : Live(callStack'[j])
      /\ \/ status' = "finished" /\ Len(callStack') = d
         \/ /\ status' \in {"active", "suspended", "exception"}
            /\ Len(callStack') > d
  BY <1>2, <1>3, RunningFacts
<1>6. VMInv'
  BY <1>2, <1>4, <1>5, ExecutionStep
<1> QED
  BY <1>2, <1>6 DEF Depth

\* Unwinding after an exception.
LEMMA UnwindStep ==
    ASSUME VMInv, InExecute, status # "finished",
           callStack' = Unwound(callStack), host' = host,
           status' \in {"active", "suspended", "exception"}
    PROVE  /\ VMInv' /\ Depth' \in Nat /\ Depth' > Last(host).depth
           /\ \A j \in 1..Last(host).depth : callStack'[j] = callStack[j]
<1> DEFINE d == Last(host).depth
<1>1. /\ callStack' \in Seq(Frames)
      /\ Len(callStack') \in d + 1..Depth
      /\ \A j \in 1..Len(callStack') - 1 : callStack'[j] = callStack[j]
      /\ Live(callStack'[Len(callStack')])
  <2>1. d \in Nat /\ d < Len(callStack) /\ (d > 0 => callStack[d].fn = NoFn)
        /\ \A j \in d + 1..Len(callStack) : Live(callStack[j])
    BY RunningFacts, ExecuteFacts DEF Depth
  <2> QED
    BY <2>1, RunningFacts, UnwoundFacts DEF Depth
<1>2. \A j \in d + 1..Len(callStack') : Live(callStack'[j])
  BY <1>1, RunningFacts, SMTT(30)
<1>3. \A j \in 1..d : callStack'[j] = callStack[j]
  BY <1>1, RunningFacts, SMTT(30)
<1>4. status' \in Statuses
  BY DEF Statuses
<1>5. VMInv'
  BY <1>1, <1>2, <1>3, <1>4, RunningFacts, ExecutionStep
<1> QED
  BY <1>1, <1>3, <1>5, RunningFacts DEF Depth

\* Whatever a call of a script function does, the caller's frame is left with
\* the return position; the callee is on top unless the stack overflowed.
LEMMA CallStep ==
    ASSUME VMInv, FlagsOK, InExecute, status = "active", host' = host,
           NEW g \in Fn, NEW p \in 1..Len(Code[Current.fn]), NEW room,
           CallScriptFunction(AtPc(p), g, room)
    PROVE  /\ VMInv' /\ FlagsOK'
           /\ callStack'[Depth] = [fn |-> Current.fn, pc |-> p]
           /\ \A j \in 1..Depth - 1 : callStack'[j] = callStack[j]
           /\ Depth' = Depth \/ Depth' = Depth + 1
           /\ status' = "active" => Depth' = Depth + 1 /\ Current' = Entry(g)
<1>1. CASE Raise(AtPc(p))
  <2>1. /\ callStack' = AtPc(p) /\ status' = "exception" /\ FlagsOK'
    BY <1>1 DEF Raise, FlagsOK, FindExceptionTryCatch
  <2> QED
    BY <2>1, MoveStep
<1>2. CASE Raise(Append(AtPc(p), Entry(g)))
  <2>1. /\ callStack' = Append(AtPc(p), Entry(g))
        /\ status' = "exception" /\ FlagsOK'
    BY <1>2 DEF Raise, FlagsOK, FindExceptionTryCatch
  <2> QED
    BY <2>1, PushStep
<1>3. CASE /\ callStack' = Append(AtPc(p), Entry(g))
           /\ SuspendIfAsked
           /\ UNCHANGED <<doProcessSuspend, doSuspend, willBeCaught>>
  <2>1. status' \in {"active", "suspended"} /\ FlagsOK'
    BY <1>3 DEF SuspendIfAsked, FlagsOK
  <2> QED
    BY <1>3, <2>1, PushStep
<1> QED
  BY <1>1, <1>2, <1>3 DEF CallScriptFunction

-----------------------------------------------------------------------------
(* Steps of the interpreter.                                               *)

\* The interpreter's steps that leave the C++ stack alone only touch frames
\* at or above the current one.
LEMMA AboveFloor ==
    ASSUME VMInv, NativeInv, InExecute, ~InNative, status # "finished",
           host' = host, native' = native, VMInv',
           Depth' >= Depth - 1,
           \A j \in 1..Depth - 1 : callStack'[j] = callStack[j]
    PROVE  NativeInv'
<1>1. Last(host).depth \in 0..Depth - 1 /\ Depth \in Nat /\ Depth' \in Nat
  BY RunningFacts, HostFacts, LenProperties DEF VMInv, Depth
<1>2. \A j \in 1..Last(host).depth : callStack'[j] = callStack[j]
  BY <1>1
<1> QED
  BY <1>1, <1>2, InterpreterStep

LEMMA AtFacts ==
    ASSUME VMInv, NEW ops, At(ops)
    PROVE  /\ InExecute /\ status = "active" /\ status # "finished"
           /\ Current.fn \in Fn /\ Depth \in Nat
           /\ LET i == Code[Current.fn][Current.pc] IN
              /\ i.op \in ops /\ i.fn \in Fn
              /\ i.op # "ret" => Current.pc + 1 \in 1..Len(Code[Current.fn])
              /\ i.op = "br" => i.to \in 1..Len(Code[Current.fn])
<1>1. InExecute /\ status = "active" /\ status # "finished"
      /\ Code[Current.fn][Current.pc].op \in ops
  BY DEF At, Running
<1> QED
  BY <1>1, RunningFacts, CodeFacts

\* A system function is called from the current frame.
LEMMA EnterSysStep ==
    ASSUME VMInv, InExecute, status = "active", status' = "active",
           host' = Append(host, [kind |-> "sys", depth |-> Depth]),
           callStack' \in Seq(Frames), Depth' = Depth,
           \A j \in 1..Depth - 1 : callStack'[j] = callStack[j],
           Live(callStack'[Depth]), AtSys(callStack'[Depth])
    PROVE  VMInv'
<1> DEFINE x == [kind |-> "sys", depth |-> Depth]
           n == Len(host)
<1>1. /\ Depth \in Nat /\ Depth > 0 /\ n \in Nat /\ n > 0
      /\ Last(host).depth \in 0..Depth - 1 /\ Last(host) = host[n]
      /\ host[n].kind = "exec" /\ Live(callStack[Depth])
  BY RunningFacts, ExecuteFacts, SMTT(30) DEF InExecute, Last
<1>2. /\ host' \in Seq(HostAct) /\ Len(host') = n + 1
      /\ \A i \in 1..n : host'[i] = host[i]
      /\ host'[n + 1] = x /\ x.kind = "sys" /\ x.depth = Depth
  BY <1>1, AppendProperties DEF VMInv, HostAct
<1>3. \A i \in 1..n : host[i].depth \in Nat /\ host[i].depth < Depth
  <2>1. SUFFICES ASSUME NEW i \in 1..n
                 PROVE  host[i].depth \in Nat /\ host[i].depth < Depth
    OBVIOUS
  <2>2. i = n \/ host[i].depth < host[n].depth
    BY <1>1, HostOrder
  <2> QED
    BY <1>1, <2>2, HostFacts
<1>4. StackShape'
  <2>1. SUFFICES ASSUME NEW j \in 1..Depth
                 PROVE  /\ callStack'[j].fn # NoFn =>
                             callStack'[j].pc \in 1..Len(Code[callStack'[j].fn])
                        /\ callStack'[j].fn = NoFn <=>
                             \E i \in 1..n + 1 :
                                host'[i].kind = "sys" /\ j = host'[i].depth + 1
    BY <1>2 DEF StackShape
  <2>2. (\E i \in 1..n + 1 : host'[i].kind = "sys" /\ j = host'[i].depth + 1)
        <=> (\E i \in 1..n : host[i].kind = "sys" /\ j = host[i].depth + 1)
    <3>1. ASSUME NEW i \in 1..n + 1, host'[i].kind = "sys", j = host'[i].depth + 1
          PROVE  i \in 1..n
      <4>1. i # n + 1
        BY <1>1, <1>2, <3>1
      <4> QED
        BY <1>1, <4>1
    <3>2. \A i \in 1..n : i \in 1..n + 1 /\ host'[i] = host[i]
      BY <1>1, <1>2
    <3> QED
      BY <3>1, <3>2, Zenon
  <2>3. CASE j # Depth
    <3>1. j \in 1..Depth - 1 /\ callStack'[j] = callStack[j]
      BY <1>1, <2>3
    <3> QED
      BY <2>2, <3>1, Zenon DEF VMInv, StackShape
  <2>4. CASE j = Depth
    <3>1. j \in 1..Depth /\ callStack[j].fn # NoFn
      BY <1>1, <2>4 DEF Live
    <3>2. ~\E i \in 1..n : host[i].kind = "sys" /\ j = host[i].depth + 1
      BY <3>1, ZenonT(60) DEF VMInv, StackShape
    <3> QED
      BY <2>2, <2>4, <3>2 DEF Live
  <2> QED
    BY <2>3, <2>4
<1>5. HostShape'
  <2>1. host' # <<>> /\ host'[1] = [kind |-> "exec", depth |-> 0]
    BY <1>1, <1>2, EmptySeq DEF VMInv, HostShape
  <2>2. ASSUME NEW i \in 2..n + 1
        PROVE  /\ host'[i].kind # host'[i - 1].kind
               /\ host'[i].kind = "exec" => host'[i].depth = host'[i - 1].depth + 1
    <3>1. CASE i = n + 1
      BY <1>1, <1>2, <3>1
    <3>2. CASE i # n + 1
      <4>1. /\ i \in 2..n /\ i - 1 \in 1..n /\ i \in 1..n
            /\ host'[i] = host[i] /\ host'[i - 1] = host[i - 1]
        BY <1>1, <1>2, <3>2
      <4> QED
        BY <4>1 DEF VMInv, HostShape
    <3> QED
      BY <3>1, <3>2
  <2>3. ASSUME NEW i \in 1..n + 1, NEW k \in 1..n + 1, i < k
        PROVE  host'[i].depth < host'[k].depth
    <3>1. i \in 1..n /\ host'[i] = host[i]
      BY <1>1, <1>2, <2>3
    <3>2. CASE k = n + 1
      BY <1>2, <1>3, <3>1, <3>2
    <3>3. CASE k # n + 1
      <4>1. k \in 1..n /\ host'[k] = host[k]
        BY <1>1, <1>2, <3>3
      <4> QED
        BY <2>3, <3>1, <4>1, HostOrder
    <3> QED
      BY <3>2, <3>3
  <2>4. ASSUME NEW i \in 1..n + 1, host'[i].kind = "sys"
        PROVE  host'[i].depth \in 1..Depth /\ AtSys(callStack'[host'[i].depth])
    <3>1. CASE i = n + 1
      BY <1>1, <1>2, <3>1
    <3>2. CASE i # n + 1
      <4>1. i \in 1..n /\ host'[i] = host[i]
        BY <1>1, <1>2, <3>2
      <4>2. host[i].depth \in 1..Depth /\ AtSys(callStack[host[i].depth])
        BY <2>4, <4>1 DEF VMInv, HostShape
      <4>3. host[i].depth \in 1..Depth - 1
        BY <1>1, <1>3, <4>1, <4>2
      <4> QED
        BY <4>1, <4>2, <4>3
    <3> QED
      BY <3>1, <3>2
  <2> QED
    BY <1>2, <2>1, <2>2, <2>3, <2>4 DEF HostShape, AtSys
<1>6. StatusShape'
  <2>1. Last(host)' = x /\ host' # <<>>
    BY <1>1, <1>2, EmptySeq DEF Last
  <2> QED
    BY <1>1, <1>2, <2>1 DEF StatusShape, InExecute, InSys, NestOpen
<1>7. status' \in Statuses
  BY DEF Statuses
<1> QED
  BY <1>2, <1>4, <1>5, <1>6, <1>7 DEF VMInv

\* Called by the interpreter, it finds no activation at this level.
LEMMA SysFromInterpreter ==
    ASSUME VMInv, NativeInv, InExecute, ~InNative, native' = native,
           callStack' = callStack,
           host' = Append(host, [kind |-> "sys", depth |-> Depth])
    PROVE  NativeInv'
<1> DEFINE n == Len(host)
<1>1. n \in Nat /\ Depth \in Nat /\ host \in Seq(HostAct)
  BY HostFacts DEF VMInv
<1>2. /\ Len(host') = n + 1 /\ \A i \in 1..n : host'[i] = host[i]
  BY <1>1, AppendProperties DEF HostAct
<1>3. ASSUME NEW i \in 1..Len(native)
      PROVE  ActivationShape(i)' /\ native[i].level < n /\ ActivationShape(i)
  <2>1. /\ ActivationShape(i) /\ native[i].level < n
        /\ native[i].level \in 1..n
    BY <1>1, InterpreterFacts DEF NativeInv, ActivationShape
  <2>2. /\ host'[native[i].level] = host[native[i].level]
        /\ host'[native[i].level + 1] = host[native[i].level + 1]
        /\ native[i].level \in 1..Len(host')
    BY <1>1, <1>2, <2>1
  <2>3. IsLead(i)' = IsLead(i) /\ Depth' = Depth
    BY DEF IsLead, Depth
  <2> QED
    BY <1>1, <1>2, <2>1, <2>2, <2>3 DEF ActivationShape, OwnFrame
<1>4. StacksAligned'
  <2>1. \A i, j \in 1..Len(native') :
            i < j => Before(native'[i], native'[j], j = i + 1)
    BY AlignedFacts
  <2> QED
    BY <1>3, <2>1, AlignedStep
<1>5. ~InNative'
  <2>1. SUFFICES ASSUME native # <<>> PROVE native[Len(native)].level # n + 1
    BY <1>2 DEF InNative, Top, Last
  <2>2. Len(native) \in 1..Len(native)
    BY <2>1, NativeFacts
  <2> QED
    BY <1>1, <1>3, <2>2, NativeFacts
<1> QED
  BY <1>3, <1>4, <1>5 DEF NativeInv, RunsInOwnFrame, CatchesHere, InJit

-----------------------------------------------------------------------------
(* Steps of generated code.                                                *)

\* The activation that generated code is in, and its instruction.
LEMMA InJitFacts ==
    ASSUME VMInv, NativeInv, NEW st, InJit(st)
    PROVE  /\ InNative /\ Top.kind = "jit" /\ Top.state = st
           /\ InExecute /\ native # <<>> /\ Len(native) > 0
           /\ Top \in Activation /\ Top.fn \in Fn /\ Top.depth \in Nat
           /\ Top.level = Len(host) /\ Depth \in Nat
           /\ Top.at \in 1..Len(Code[Top.fn])
           /\ I.fn \in Fn
           /\ I.op # "ret" => Top.at + 1 \in 1..Len(Code[Top.fn])
           /\ I.op = "br" => I.to \in 1..Len(Code[Top.fn])
           /\ st = "run" =>
                /\ status = "active" /\ Depth = Top.depth /\ Current.fn = Top.fn
<1>1. InNative /\ Top.kind = "jit" /\ Top.state = st /\ native # <<>>
  BY DEF InJit, InNative
<1>2. Len(native) \in 1..Len(native) /\ Top = native[Len(native)]
  BY <1>1, InNativeFacts
<1>3. Top.at \in 1..Len(Code[Top.fn])
  BY <1>2 DEF NativeInv, ActivationShape
<1>4. Top.fn \in Fn /\ Top.depth \in Nat
  BY <1>2, NativeFacts
<1>5. st = "run" =>
        status = "active" /\ Depth = Top.depth /\ Current.fn = Top.fn
  BY DEF NativeInv, RunsInOwnFrame
<1> QED
  BY <1>1, <1>3, <1>4, <1>5, InNativeFacts, HostFacts, CodeFacts DEF I

LEMMA ExitStep ==
    ASSUME VMInv, NativeInv, InNative, Top.kind = "jit", host' = host,
           native' = Front(native), Depth' \in Nat, Depth' >= Top.depth - 1,
           \A j \in 1..Top.depth - 1 : callStack'[j] = callStack[j]
    PROVE  NativeInv'
<1> DEFINE m == Len(native) - 1
<1>1. /\ m \in 0..Len(native) - 1 /\ Top = native[m + 1]
      /\ native[m + 1].level = Len(host) /\ native' = SubSeq(native, 1, m)
      /\ Top.depth \in Nat /\ Len(native) \in Nat
  BY InNativeFacts, NativeFacts DEF Front
<1>2. ASSUME NEW k \in 1..m
      PROVE  /\ native[k].depth <= Depth'
             /\ callStack'[native[k].depth] = callStack[native[k].depth]
  <2>1. /\ k \in 1..Len(native) /\ native[k].depth \in Nat
        /\ native[k].depth < Top.depth
    BY <1>1, InNativeFacts, NativeFacts
  <2>2. native[k].depth > 0
    BY <2>1, HostFacts, SMTT(30) DEF NativeInv, ActivationShape
  <2> QED
    BY <1>1, <2>1, <2>2, SMTT(30)
<1>3. Len(host) \in Nat /\ KeepsHost(Len(host))
  BY HostFacts DEF KeepsHost
<1> HIDE DEF m
<1> QED
  BY <1>1, <1>2, <1>3, LeaveStep

\* The ways an action updates the top activation.
LEMMA UpdateFacts ==
    ASSUME NativeInv, native # <<>>, NEW p \in Nat,
           NEW st \in {"run", "wait", "catch"}
    PROVE  LET n == Len(native)
               x == [Top EXCEPT !.at = p, !.state = st]
           IN  /\ x \in Activation /\ x.kind = Top.kind /\ x.fn = Top.fn
               /\ x.depth = Top.depth /\ x.level = Top.level
               /\ x.at = p /\ x.state = st
               /\ [native EXCEPT ![n].at = p, ![n].state = st] =
                    [native EXCEPT ![n] = x]
               /\ Top.state = st =>
                    [native EXCEPT ![n].at = p] = [native EXCEPT ![n] = x]
               /\ Top.at = p =>
                    [native EXCEPT ![n].state = st] = [native EXCEPT ![n] = x]
<1> DEFINE n == Len(native)
           x == [Top EXCEPT !.at = p, !.state = st]
<1>1. /\ n \in 1..n /\ Top = native[n] /\ Top \in Activation
      /\ native \in Seq(Activation)
  BY NativeFacts DEF NativeInv, Top, Last
<1>2. /\ x \in Activation /\ x.kind = Top.kind /\ x.fn = Top.fn
      /\ x.depth = Top.depth /\ x.level = Top.level
      /\ x.at = p /\ x.state = st
  BY <1>1 DEF Activation
<1>3. /\ [native EXCEPT ![n].at = p, ![n].state = st] = [native EXCEPT ![n] = x]
  BY <1>1
<1>4. Top.state = st => [Top EXCEPT !.at = p] = x
  BY <1>1 DEF Activation
<1>5. Top.at = p => [Top EXCEPT !.state = st] = x
  BY <1>1 DEF Activation
<1>6. /\ [native EXCEPT ![n].at = p] = [native EXCEPT ![n] = [Top EXCEPT !.at = p]]
      /\ [native EXCEPT ![n].state = st] =
            [native EXCEPT ![n] = [Top EXCEPT !.state = st]]
  BY <1>1
<1> QED
  BY <1>2, <1>3, <1>4, <1>5, <1>6, Zenon

\* The running function goes on at p with its frame on top.
LEMMA GoOnStep ==
    ASSUME VMInv, NativeInv, InJit("run"), host' = host,
           NEW p \in 1..Len(Code[Top.fn]), GoTo(p),
           Depth' = Depth, Current'.fn = Current.fn, status' = "active",
           \A j \in 1..Depth - 1 : callStack'[j] = callStack[j]
    PROVE  NativeInv'
<1> DEFINE x == [Top EXCEPT !.at = p, !.state = "run"]
<1>1. /\ InNative /\ Top.kind = "jit" /\ Top.state = "run" /\ native # <<>>
      /\ Top.fn \in Fn /\ Depth = Top.depth /\ Current.fn = Top.fn
  BY InJitFacts
<1>2. p \in Nat
  BY <1>1, CodeFacts
<1>3. /\ x \in Activation /\ x.kind = "jit" /\ x.fn = Top.fn
      /\ x.depth = Top.depth /\ x.level = Top.level
      /\ x.at = p /\ x.state = "run"
      /\ native' = [native EXCEPT ![Len(native)] = x]
  BY <1>1, <1>2, UpdateFacts DEF GoTo
<1> HIDE DEF x
<1> QED
  BY <1>1, <1>3, ReplaceStep

\* The activations with the running function waiting at p.
LEMMA WaitingFacts ==
    ASSUME NativeInv, native # <<>>, NEW p \in Nat
    PROVE  \E w \in Activation, base \in Seq(Activation) :
            /\ base = [native EXCEPT ![Len(native)].at = p,
                                     ![Len(native)].state = "wait"]
            /\ Len(base) = Len(native) /\ base[Len(native)] = w
            /\ \A k \in 1..Len(native) - 1 : base[k] = native[k]
            /\ w.kind = Top.kind /\ w.fn = Top.fn /\ w.depth = Top.depth
            /\ w.level = Top.level /\ w.at = p /\ w.state = "wait"
<1> DEFINE n == Len(native)
           w == [Top EXCEPT !.at = p, !.state = "wait"]
           base == [native EXCEPT ![n] = w]
<1>1. n \in 1..n /\ n \in Nat /\ native \in Seq(Activation)
  BY NativeFacts DEF NativeInv
<1>2. /\ w \in Activation /\ w.kind = Top.kind /\ w.fn = Top.fn
      /\ w.depth = Top.depth /\ w.level = Top.level /\ w.at = p
      /\ w.state = "wait"
      /\ base = [native EXCEPT ![n].at = p, ![n].state = "wait"]
  BY UpdateFacts
<1> HIDE DEF w
<1>3. /\ base \in Seq(Activation) /\ Len(base) = n
      /\ \A k \in 1..n : base[k] = IF k = n THEN w ELSE native[k]
  BY <1>1, <1>2, ExceptSeq
<1>4. base[n] = w
  BY <1>1, <1>3, Zenon
<1>5. \A k \in 1..n - 1 : k \in 1..n /\ k # n
  BY <1>1
<1>6. \A k \in 1..n - 1 : base[k] = native[k]
  BY <1>3, <1>5, Zenon
<1> HIDE DEF base, n
<1> QED
  BY <1>2, <1>3, <1>4, <1>6, Zenon DEF n

\* The running function waits at p, with its frame there, under a new
\* activation x: of the callee, or of the loop that resumes the callee.
LEMMA WaitAndGrow ==
    ASSUME VMInv, NativeInv, VMInv', InJit("run"), host' = host,
           NEW n \in Nat, n = Len(native), NEW w \in Activation,
           NEW base \in Seq(Activation), NEW x \in Activation,
           Len(base) = n, base[n] = w, \A k \in 1..n - 1 : base[k] = native[k],
           w.kind = Top.kind, w.fn = Top.fn, w.depth = Top.depth,
           w.level = Top.level, w.at \in 1..Len(Code[Top.fn]), w.state = "wait",
           native' = Append(base, x),
           callStack'[Depth] = [fn |-> Top.fn, pc |-> w.at],
           \A j \in 1..Depth - 1 : callStack'[j] = callStack[j],
           Depth' >= Depth, x.level = Len(host), x.state = "run",
           x.at \in 1..Len(Code[x.fn]),
           x.kind = "chain" => x.depth = Depth,
           x.kind = "jit" =>
                /\ status' = "active" /\ Current'.fn = x.fn
                /\ x.depth = Depth + 1 /\ Depth' = x.depth
    PROVE  NativeInv'
<1>1. /\ InNative /\ Top.kind = "jit" /\ Top.fn \in Fn
      /\ Depth = Top.depth /\ Depth \in Nat /\ Top.level = Len(host)
      /\ n \in 1..n /\ Top = native[n] /\ n > 0
      /\ x.depth \in Nat /\ x.kind \in {"jit", "chain"}
  BY InJitFacts, InNativeFacts DEF Activation
<1>2. /\ native' \in Seq(Activation) /\ Len(native') = n + 1
      /\ native'[n + 1] = x /\ \A k \in 1..n : native'[k] = base[k]
  BY AppendProperties
<1>3. native'[n] = w
  BY <1>1, <1>2
<1>4. /\ ActivationShape(n) /\ Len(host) \in Nat /\ Depth' \in Nat
  BY <1>1, HostFacts, LenProperties DEF NativeInv, VMInv, Depth
<1>5. /\ Len(host) \in 1..Len(host) /\ host[Len(host)].kind = "exec"
      /\ host[Len(host)].depth < Depth /\ host[Len(host)].depth \in Nat
  BY <1>1, <1>4, HostFacts DEF ActivationShape
<1>6. ASSUME NEW k \in 1..n - 1
      PROVE  /\ native[k].depth < Depth /\ native[k].depth <= Depth'
             /\ native[k].level <= Len(host)
             /\ callStack'[native[k].depth] = callStack[native[k].depth]
  <2>1. k \in 1..Len(native) /\ k \in 1..Len(native) - 1
    BY <1>1
  <2>2. /\ native[k].depth \in Nat /\ native[k].depth < Depth
        /\ ActivationShape(k)
    BY <1>1, <2>1, InNativeFacts, NativeFacts DEF NativeInv
  <2>3. /\ native[k].level \in 1..Len(host)
        /\ host[native[k].level].depth < native[k].depth
    BY <2>2 DEF ActivationShape
  <2>4. host[native[k].level].depth \in Nat
    BY <2>3, HostFacts
  <2>5. native[k].depth \in 1..Depth - 1
    BY <1>1, <2>2, <2>3, <2>4, Between, Zenon
  <2>6. native[k].level <= Len(host)
    BY <1>4, <2>3
  <2> QED
    BY <1>1, <1>4, <2>2, <2>5, <2>6, SMTT(30)
<1>7. ActivationShape(n)'
  <2>1. native'[n + 1].level = native'[n].level /\ n # Len(native')
    BY <1>1, <1>2, <1>3
  <2>2. ~IsLead(n)'
    BY <2>1 DEF IsLead
  <2>3. Depth <= Depth'
    BY <1>1, <1>4
  <2> QED
    BY <1>1, <1>3, <1>5, <2>2, <2>3, SMTT(30) DEF ActivationShape, OwnFrame
<1>8. ActivationShape(n + 1)'
  <2>1. n + 1 > 1 /\ (n + 1) - 1 = n /\ IsLead(n + 1)'
    BY <1>1, <1>2 DEF IsLead
  <2>2. x.depth <= Depth' /\ host[Len(host)].depth < x.depth
    BY <1>1, <1>4, <1>5
  <2> QED
    BY <1>1, <1>2, <1>3, <1>4, <1>5, <2>1, <2>2, SMTT(90) DEF ActivationShape
<1>9. ASSUME NEW k \in 1..n
      PROVE  /\ base[k].level = native[k].level
             /\ base[k].depth = native[k].depth
             /\ base[k].kind = native[k].kind
             /\ Before(native[k], x, k = n)
  <2>1. CASE k = n
    BY <1>1, <1>4, <2>1, SMTT(30) DEF Before
  <2>2. CASE k # n
    <3>1. k \in 1..n - 1 /\ native[k].depth \in Nat
      BY <1>1, <2>2, NativeFacts
    <3>2. native[k].depth < x.depth
      BY <1>1, <1>6, <3>1, SMTT(30)
    <3> QED
      BY <1>6, <2>2, <3>1, <3>2 DEF Before
  <2> QED
    BY <2>1, <2>2
<1> QED
  BY <1>6, <1>7, <1>8, <1>9, GrowStep

LEMMA WaitStep ==
    ASSUME VMInv, NativeInv, VMInv', InJit("run"), host' = host,
           Top.at + 1 \in 1..Len(Code[Top.fn]), NEW x \in Activation,
           native' = Append(Waiting, x),
           callStack'[Depth] = [fn |-> Top.fn, pc |-> Top.at + 1],
           \A j \in 1..Depth - 1 : callStack'[j] = callStack[j],
           Depth' >= Depth, x.level = Len(host), x.state = "run",
           x.at \in 1..Len(Code[x.fn]),
           x.kind = "chain" => x.depth = Depth,
           x.kind = "jit" =>
                /\ status' = "active" /\ Current'.fn = x.fn
                /\ x.depth = Depth + 1 /\ Depth' = x.depth
    PROVE  NativeInv'
<1>1. native # <<>> /\ Top.fn \in Fn
  BY InJitFacts
<1>2. Top.at + 1 \in Nat
  BY <1>1, CodeFacts
<1>3. PICK w \in Activation, base \in Seq(Activation) :
            /\ base = Waiting
            /\ Len(base) = Len(native) /\ base[Len(native)] = w
            /\ \A k \in 1..Len(native) - 1 : base[k] = native[k]
            /\ w.kind = Top.kind /\ w.fn = Top.fn /\ w.depth = Top.depth
            /\ w.level = Top.level /\ w.at = Top.at + 1 /\ w.state = "wait"
  BY <1>1, <1>2, WaitingFacts, Zenon DEF Waiting
<1>4. PICK n \in Nat : n = Len(native)
  BY NativeFacts
<1>5. /\ Len(base) = n /\ base[n] = w
      /\ \A k \in 1..n - 1 : base[k] = native[k]
      /\ native' = Append(base, x) /\ w.at \in 1..Len(Code[Top.fn])
      /\ callStack'[Depth] = [fn |-> Top.fn, pc |-> w.at]
  BY <1>3, <1>4, Zenon
<1> QED
  BY <1>3, <1>4, <1>5, WaitAndGrow

\* The callee is entered in generated code ...
LEMMA EnterStep ==
    ASSUME VMInv, NativeInv, VMInv', InJit("run"), host' = host, NEW g \in Fn,
           Top.at + 1 \in 1..Len(Code[Top.fn]), EnterCallee(g),
           callStack'[Depth] = [fn |-> Top.fn, pc |-> Top.at + 1],
           \A j \in 1..Depth - 1 : callStack'[j] = callStack[j],
           status' = "active", Depth' = Depth + 1, Current' = Entry(g)
    PROVE  NativeInv'
<1> DEFINE x == Jit(g, 1, Depth + 1)
<1>1. Depth \in Nat /\ Len(host) \in Nat
  BY HostFacts
<1>2. /\ x \in Activation /\ x.kind = "jit" /\ x.level = Len(host)
      /\ x.state = "run" /\ x.at = 1 /\ x.fn = g /\ x.depth = Depth + 1
      /\ native' = Append(Waiting, x)
  BY <1>1 DEF Jit, Activation, EnterCallee
<1>3. x.at \in 1..Len(Code[x.fn]) /\ Current'.fn = x.fn
  BY <1>2, CodeFacts, EntryFacts
<1> HIDE DEF x
<1>4. Depth' >= Depth /\ Depth' = x.depth /\ x.kind # "chain"
  BY <1>1, <1>2
<1> QED
  BY <1>2, <1>3, <1>4, WaitStep

\* ... or left to the loop that resumes it, or everything leaves.
LEMMA ResumeStep ==
    ASSUME VMInv, NativeInv, VMInv', InJit("run"), host' = host,
           Top.at + 1 \in 1..Len(Code[Top.fn]), ResumeJitCallChain \/ Exit,
           callStack'[Depth] = [fn |-> Top.fn, pc |-> Top.at + 1],
           \A j \in 1..Depth - 1 : callStack'[j] = callStack[j],
           Depth' = Depth \/ Depth' = Depth + 1
    PROVE  NativeInv'
<1>1. /\ InNative /\ Top.kind = "jit" /\ Top \in Activation /\ Depth \in Nat
      /\ Top.level = Len(host) /\ Top.at \in 1..Len(Code[Top.fn])
      /\ Depth = Top.depth /\ Depth' \in Nat /\ Depth' >= Depth
  BY InJitFacts
<1>2. CASE Exit
  BY <1>1, <1>2, ExitStep DEF Exit
<1>3. CASE ~Exit
  <2> DEFINE x == [Top EXCEPT !.kind = "chain", !.state = "run"]
  <2>1. /\ x \in Activation /\ x.kind = "chain" /\ x.level = Top.level
        /\ x.state = "run" /\ x.at = Top.at /\ x.fn = Top.fn
        /\ x.depth = Top.depth
    BY <1>1 DEF Activation
  <2>2. native' = Append(Waiting, x)
    BY <1>3 DEF ResumeJitCallChain
  <2>3. /\ x.at \in 1..Len(Code[x.fn]) /\ x.level = Len(host)
        /\ x.depth = Depth /\ x.kind # "jit"
    BY <1>1, <2>1
  <2> HIDE DEF x
  <2> QED
    BY <1>1, <2>1, <2>2, <2>3, WaitStep
<1> QED
  BY <1>2, <1>3

\* PrepareScriptCall is the interpreter's call with the caller at its return
\* position.
LEMMA PrepareFacts ==
    ASSUME VMInv, NativeInv, FlagsOK, InJit("run"), I.op # "ret", host' = host,
           NEW room \in BOOLEAN, PrepareScriptCall(I.fn, room)
    PROVE  /\ VMInv' /\ FlagsOK'
           /\ Top.at + 1 \in 1..Len(Code[Top.fn]) /\ I.fn \in Fn
           /\ callStack'[Depth] = [fn |-> Top.fn, pc |-> Top.at + 1]
           /\ \A j \in 1..Depth - 1 : callStack'[j] = callStack[j]
           /\ Depth' = Depth \/ Depth' = Depth + 1
           /\ status' = "active" =>
                Depth' = Depth + 1 /\ Current' = Entry(I.fn)
<1> DEFINE p == Top.at + 1
<1>1. /\ InExecute /\ status = "active" /\ Depth \in Nat
      /\ Current.fn = Top.fn /\ I.fn \in Fn /\ p \in 1..Len(Code[Top.fn])
  BY InJitFacts
<1>2. p \in 1..Len(Code[Current.fn])
  BY <1>1
<1>3. Len(AtPc(p)) = Depth
  <2>1. callStack \in Seq(Frames) /\ Depth > 0 /\ Current \in Frame
    BY <1>1, RunningFacts
  <2>2. p \in Nat
    BY <1>1, InJitFacts, CodeFacts
  <2> QED
    BY <2>1, <2>2, AtPcFacts
<1>4. MaxFrames \in Nat
  BY BoundAssumption
<1>5. CallScriptFunction(AtPc(p), I.fn, room)
  <2>1. CASE Depth > MaxFrames
    BY <1>3, <2>1 DEF PrepareScriptCall, CallScriptFunction
  <2>2. CASE ~(Depth > MaxFrames)
    <3>1. Len(AtPc(p)) <= MaxFrames
      BY <1>1, <1>3, <1>4, <2>2
    <3> QED
      BY <2>2, <3>1, Zenon DEF PrepareScriptCall, CallScriptFunction
  <2> QED
    BY <2>1, <2>2
<1> HIDE DEF p
<1>6. /\ VMInv' /\ FlagsOK'
      /\ callStack'[Depth] = [fn |-> Current.fn, pc |-> p]
      /\ \A j \in 1..Depth - 1 : callStack'[j] = callStack[j]
      /\ Depth' = Depth \/ Depth' = Depth + 1
      /\ status' = "active" => Depth' = Depth + 1 /\ Current' = Entry(I.fn)
  BY <1>1, <1>2, <1>5, CallStep
<1> QED
  BY <1>1, <1>6, Zenon DEF p

-----------------------------------------------------------------------------
(* System functions and nested executions.                                 *)

LEMMA SysFacts ==
    ASSUME VMInv, InSys
    PROVE  /\ Len(host) \in Nat /\ Len(host) > 1 /\ Last(host) = host[Len(host)]
           /\ Depth \in Nat /\ Last(host).kind = "sys"
           /\ Last(host).depth \in 1..Depth
           /\ AtSys(callStack[Last(host).depth])
           /\ Live(callStack[Last(host).depth])
           /\ callStack \in Seq(Frames)
           /\ \A i \in 1..Len(host) - 1 : host[i].depth < Last(host).depth
           /\ \A j \in Last(host).depth + 2..Depth : Live(callStack[j])
           /\ Depth > Last(host).depth =>
                callStack[Last(host).depth + 1].fn = NoFn
<1> DEFINE n == Len(host)
           d == Last(host).depth
<1>1. /\ n \in Nat /\ n > 0 /\ Last(host) = host[n] /\ host[n].kind = "sys"
      /\ Depth \in Nat /\ callStack \in Seq(Frames) /\ host # <<>>
      /\ \A i \in 1..n : host[i].depth \in Nat
  BY HostFacts DEF InSys, Last, VMInv
<1>2. n > 1
  BY <1>1 DEF VMInv, HostShape
<1>3. d \in 1..Depth /\ AtSys(callStack[d])
  BY <1>1 DEF VMInv, HostShape
<1>4. Live(callStack[d])
  BY <1>3 DEF VMInv, StackShape, AtSys, Live
<1>5. \A i \in 1..n - 1 : host[i].depth < d
  BY <1>1, HostOrder
<1>6. \A j \in d + 2..Depth : Live(callStack[j])
  <2>1. SUFFICES ASSUME NEW j \in d + 2..Depth PROVE Live(callStack[j])
    OBVIOUS
  <2>2. j \in 1..Depth
    BY <1>1, <1>3
  <2>3. ~\E i \in 1..n : host[i].kind = "sys" /\ j = host[i].depth + 1
    <3>1. SUFFICES ASSUME NEW i \in 1..n PROVE j # host[i].depth + 1
      OBVIOUS
    <3>2. host[i].depth <= d /\ host[i].depth \in Nat /\ d \in Nat
      BY <1>1, <1>3, <1>5
    <3> QED
      BY <2>1, <3>2
  <2>4. callStack[j].fn # NoFn
    BY <2>2, <2>3, Zenon DEF VMInv, StackShape
  <2> QED
    BY <2>2, <2>4 DEF VMInv, StackShape, Live
<1>7. Depth > d => callStack[d + 1].fn = NoFn
  <2>1. SUFFICES ASSUME Depth > d PROVE callStack[d + 1].fn = NoFn
    OBVIOUS
  <2>2. d + 1 \in 1..Depth /\ n \in 1..n
    BY <1>1, <1>3, <2>1
  <2> QED
    BY <1>1, <2>2, Zenon DEF VMInv, StackShape
<1> QED
  BY <1>1, <1>2, <1>3, <1>4, <1>5, <1>6, <1>7

\* The activations while a system function runs: the calling one on top, if
\* it was called by generated code; all others are under its caller's frame.
LEMMA SysNativeFacts ==
    ASSUME VMInv, NativeInv, InSys, NEW i \in 1..Len(native)
    PROVE  /\ native[i].level \in 1..Len(host) - 1
           /\ native[i].depth \in 1..Last(host).depth
           /\ ~InNative
           /\ (~CalledFromNative \/ (i < Len(native) /\ native[i].level < Len(host) - 1))
                => /\ native[i].level < Len(host) - 1
                   /\ native[i].depth < Last(host).depth
<1> DEFINE n == Len(native)
           t == native[n]
           h == Len(host)
           d == Last(host).depth
<1>1. /\ n \in Nat /\ n \in 1..n /\ h \in Nat /\ h > 1 /\ d \in Nat
      /\ Last(host) = host[h] /\ Last(host).kind = "sys"
      /\ \A k \in 1..n : native[k].depth \in Nat /\ native[k].level \in Nat
      /\ \A k \in 1..h : host[k].depth \in Nat
      /\ \A k \in 1..h - 1 : host[k].depth < d
  BY NativeFacts, SysFacts, HostFacts
<1>2. native # <<>> /\ Top = t
  BY <1>1, EmptySeq DEF Top, Last
<1>3. /\ t.level \in 1..h /\ host[t.level].kind = "exec" /\ ActivationShape(n)
  BY <1>1 DEF NativeInv, ActivationShape
<1>4. t.level \in 1..h - 1
  BY <1>1, <1>3
<1>5. t.depth = host[t.level + 1].depth
  <2>1. IsLead(n) /\ t.level < h
    BY <1>1, <1>4 DEF IsLead
  <2> QED
    BY <1>3, <2>1 DEF ActivationShape
<1>6. t.depth <= d /\ (t.level < h - 1 => t.depth < d)
  <2>1. CASE t.level = h - 1
    <3>1. t.level + 1 = h /\ ~(t.level < h - 1)
      BY <1>1, <2>1
    <3>2. t.depth = d
      BY <1>1, <1>5, <3>1
    <3> QED
      BY <1>1, <3>1, <3>2
  <2>2. CASE t.level # h - 1
    <3>1. t.level + 1 \in 1..h - 1
      BY <1>1, <1>4, <2>2
    <3>2. host[t.level + 1].depth < d
      BY <1>1, <3>1, Zenon
    <3>3. t.depth \in Nat /\ d \in Nat /\ t.depth < d
      BY <1>1, <1>5, <3>2
    <3> QED
      BY <3>3
  <2> QED
    BY <2>1, <2>2
<1>7. ~CalledFromNative => t.level < h - 1
  BY <1>1, <1>2, <1>4 DEF CalledFromNative
<1>8. i # n => native[i].level <= t.level /\ native[i].depth <= t.depth
  <2>1. SUFFICES ASSUME i # n
                 PROVE  native[i].level <= t.level /\ native[i].depth <= t.depth
    OBVIOUS
  <2>2. i < n /\ Before(native[i], t, n = i + 1)
    BY <1>1, <2>1, AlignedFacts
  <2> QED
    BY <1>1, <2>2 DEF Before
<1>9. native[i].level \in 1..h /\ native[i].depth > 0
  <2>1. ActivationShape(i)
    BY DEF NativeInv
  <2>2. native[i].level \in 1..h /\ host[native[i].level].depth < native[i].depth
    BY <2>1 DEF ActivationShape
  <2> QED
    BY <1>1, <2>2
<1>10. i < n /\ native[i].level < h - 1 => native[i].depth < d
  <2>1. SUFFICES ASSUME i < n, native[i].level < h - 1
                 PROVE  native[i].depth < d
    OBVIOUS
  <2>2. Before(native[i], t, n = i + 1)
    BY <1>1, <2>1, AlignedFacts
  <2>3. native[i].depth < t.depth \/ native[i].level = t.level
    <3>1. CASE t.kind = "chain" /\ n = i + 1
      <4>1. native[n - 1].level = t.level /\ n - 1 = i
        BY <1>1, <1>3, <3>1 DEF ActivationShape
      <4> QED
        BY <4>1
    <3>2. CASE ~(t.kind = "chain" /\ n = i + 1)
      BY <2>2, <3>2 DEF Before
    <3> QED
      BY <3>1, <3>2
  <2> QED
    BY <1>1, <1>6, <1>8, <2>1, <2>3
<1>11. ~InNative
  BY <1>1, <1>2, <1>4 DEF InNative
<1> QED
  BY <1>1, <1>4, <1>6, <1>7, <1>8, <1>9, <1>10, <1>11

\* While a system function runs, what it does above its caller's frame leaves
\* the activations alone; L is how many C++ activations stay.
LEMMA SysStep ==
    ASSUME VMInv, NativeInv, InSys, native' = native, NEW L \in Nat,
           host' = host \/ (L = Len(host) /\ Len(host') = L + 1
                            /\ \A i \in 1..L : host'[i] = host[i]),
           \A j \in 1..Last(host).depth : callStack'[j] = callStack[j],
           Depth' \in Nat, Depth' >= Last(host).depth
    PROVE  NativeInv'
<1> DEFINE h == Len(host)
<1>1. /\ h \in Nat /\ h > 1 /\ Last(host).depth \in Nat
      /\ \A k \in 1..h : host'[k] = host[k]
      /\ Len(host') \in {h, h + 1}
  BY SysFacts
<1>2. ASSUME NEW i \in 1..Len(native)
      PROVE  ActivationShape(i)' /\ native[i].level < Len(host')
  <2>1. /\ native[i].level \in 1..h - 1
        /\ native[i].depth \in 1..Last(host).depth
        /\ ActivationShape(i)
    BY SysNativeFacts DEF NativeInv
  <2>2. /\ host'[native[i].level] = host[native[i].level]
        /\ host'[native[i].level + 1] = host[native[i].level + 1]
        /\ native[i].level \in 1..Len(host') /\ native[i].level < Len(host)
        /\ native[i].level < Len(host')
    <3>1. native[i].level \in 1..h /\ native[i].level + 1 \in 1..h
      BY <1>1, <2>1
    <3> HIDE DEF h
    <3>2. /\ host'[native[i].level] = host[native[i].level]
          /\ host'[native[i].level + 1] = host[native[i].level + 1]
      BY <1>1, <3>1
    <3>3. /\ native[i].level \in 1..Len(host') /\ native[i].level < h
          /\ native[i].level < Len(host')
      BY <1>1, <2>1
    <3> QED
      BY <3>2, <3>3 DEF h
  <2>3. /\ callStack'[native[i].depth] = callStack[native[i].depth]
        /\ native[i].depth <= Depth' /\ IsLead(i)' = IsLead(i)
    BY <1>1, <2>1 DEF IsLead
  <2> QED
    BY <2>1, <2>2, <2>3 DEF ActivationShape, OwnFrame
<1>3. StacksAligned'
  <2>1. \A i, j \in 1..Len(native') :
            i < j => Before(native'[i], native'[j], j = i + 1)
    BY AlignedFacts
  <2> QED
    BY <1>2, <2>1, AlignedStep
<1>4. ~InNative'
  <2>1. SUFFICES ASSUME native # <<>> PROVE native[Len(native)].level # Len(host')
    BY DEF InNative, Top, Last
  <2>2. Len(native) \in 1..Len(native)
    BY <2>1, NativeFacts
  <2> QED
    BY <1>1, <1>2, <2>2, NativeFacts
<1> QED
  BY <1>2, <1>3, <1>4 DEF NativeInv, RunsInOwnFrame, CatchesHere, InJit

\* A system function returns and the frame of its caller goes on at p.
LEMMA LeaveSysStep ==
    ASSUME VMInv, InSys, ~NestOpen, host' = Front(host),
           NEW p \in 1..Len(Code[Current.fn]), callStack' = AtPc(p),
           status' \in {"active", "suspended", "exception"}
    PROVE  /\ VMInv' /\ Depth' = Depth
           /\ Current' = [fn |-> Current.fn, pc |-> p]
           /\ \A j \in 1..Depth - 1 : callStack'[j] = callStack[j]
           /\ KeepsHost(Len(host) - 1)
<1>n. PICK h \in Nat : h = Len(host)
  BY HostFacts
<1>1. /\ h > 1 /\ Last(host) = host[h] /\ host[h].kind = "sys"
      /\ Depth \in Nat /\ host[h].depth \in 1..Depth
      /\ callStack \in Seq(Frames)
      /\ Live(callStack[host[h].depth])
      /\ \A i \in 1..h - 1 : host[i].depth < host[h].depth
      /\ \A i \in 1..h : host[i].depth \in Nat
  BY <1>n, SysFacts, HostFacts
<1>2. host[h].depth = Depth /\ Depth > 0
  BY <1>1 DEF NestOpen
<1>3. /\ Current = callStack[Depth] /\ Live(Current) /\ Current \in Frame
      /\ Current.fn \in Fn /\ p \in Nat
  <2>1. Current = callStack[Depth] /\ Live(Current) /\ Current \in Frame
    BY <1>1, <1>2, FrameFacts, HostFacts DEF Current
  <2>2. Current.fn \in Fn
    BY <2>1 DEF Frame
  <2> QED
    BY <2>1, <2>2, CodeFacts
<1>4. /\ callStack' \in Seq(Frames) /\ Len(callStack') = Depth
      /\ \A j \in 1..Depth - 1 : callStack'[j] = callStack[j]
      /\ callStack'[Depth] = [fn |-> Current.fn, pc |-> p]
  BY <1>1, <1>2, <1>3, AtPcFacts
<1>5. Depth' = Depth /\ Current' = callStack'[Depth]
  BY <1>4 DEF Depth, Current
<1>6. /\ host' \in Seq(HostAct) /\ Len(host') = h - 1
      /\ \A i \in 1..h - 1 : host'[i] = host[i]
  <2>1. host # <<>> /\ host \in Seq(HostAct)
    BY DEF InSys, VMInv
  <2> QED
    BY <1>n, <2>1, FrontFacts
<1>7. Live(callStack'[Depth])
  BY <1>3, <1>4, FnAssumption DEF Live
<1>8. StackShape'
  <2>1. SUFFICES ASSUME NEW j \in 1..Depth
                 PROVE  /\ callStack'[j].fn # NoFn =>
                             callStack'[j].pc \in 1..Len(Code[callStack'[j].fn])
                        /\ callStack'[j].fn = NoFn <=>
                             \E i \in 1..h - 1 :
                                host[i].kind = "sys" /\ j = host[i].depth + 1
    BY <1>5, <1>6 DEF StackShape
  <2>2. (\E i \in 1..h - 1 : host[i].kind = "sys" /\ j = host[i].depth + 1)
        <=> (\E i \in 1..h : host[i].kind = "sys" /\ j = host[i].depth + 1)
    <3>1. ASSUME NEW i \in 1..h, j = host[i].depth + 1
          PROVE  i \in 1..h - 1
      BY <1>1, <1>2, <3>1
    <3>2. \A i \in 1..h - 1 : i \in 1..h
      OBVIOUS
    <3> QED
      BY <3>1, <3>2, Zenon
  <2>3. /\ callStack[j].fn # NoFn =>
             callStack[j].pc \in 1..Len(Code[callStack[j].fn])
        /\ callStack[j].fn = NoFn <=>
             \E i \in 1..h : host[i].kind = "sys" /\ j = host[i].depth + 1
    BY <1>n, <2>1, Zenon DEF VMInv, StackShape
  <2>4. CASE j # Depth
    <3>1. j \in 1..Depth - 1 /\ callStack'[j] = callStack[j]
      BY <1>1, <1>4, <2>4
    <3> QED
      BY <2>2, <2>3, <3>1, Zenon
  <2>5. CASE j = Depth
    <3>1. ~\E i \in 1..h : host[i].kind = "sys" /\ j = host[i].depth + 1
      BY <1>3, <2>3, <2>5 DEF Live
    <3> QED
      BY <1>7, <2>2, <2>5, <3>1 DEF Live
  <2> QED
    BY <2>4, <2>5
<1>9. HostShape'
  <2>1. ASSUME NEW i \in 1..h - 1, host[i].kind = "sys"
        PROVE  /\ host[i].depth \in 1..Depth
               /\ AtSys(callStack'[host[i].depth])
    <3>1. i \in 1..Len(host)
      BY <1>n
    <3>2. host[i].depth \in 1..Depth /\ AtSys(callStack[host[i].depth])
      BY <2>1, <3>1 DEF VMInv, HostShape
    <3>3. host[i].depth < Depth
      BY <1>1, <1>2
    <3>4. callStack'[host[i].depth] = callStack[host[i].depth]
      BY <1>1, <1>4, <3>2, <3>3
    <3> QED
      BY <3>2, <3>4
  <2>2. /\ host'[1] = [kind |-> "exec", depth |-> 0]
        /\ \A i \in 2..h - 1 :
            /\ host'[i].kind # host'[i - 1].kind
            /\ host'[i].kind = "exec" => host'[i].depth = host'[i - 1].depth + 1
        /\ \A i, j \in 1..h - 1 : i < j => host'[i].depth < host'[j].depth
    <3>1. /\ 1 \in 1..h - 1 /\ host # <<>>
          /\ \A i \in 1..h - 1 : i \in 1..Len(host)
          /\ \A i \in 2..h - 1 :
                i \in 1..h - 1 /\ i - 1 \in 1..h - 1 /\ i \in 2..Len(host)
      BY <1>n, <1>1 DEF InSys
    <3> QED
      BY <1>6, <3>1, Zenon DEF VMInv, HostShape
  <2>3. \A i \in 1..Len(host') :
            host'[i].kind = "sys" =>
                host'[i].depth \in 1..Depth' /\ AtSys(callStack'[host'[i].depth])
    BY <1>5, <1>6, <2>1
  <2>4. host' # <<>> => host'[1] = [kind |-> "exec", depth |-> 0]
    BY <2>2
  <2> QED
    BY <1>6, <2>2, <2>3, <2>4, Zenon DEF HostShape, AtSys
<1>10. StatusShape'
  <2>1. host' # <<>> /\ Last(host)' = host[h - 1] /\ host[h - 1].kind = "exec"
    <3>1. h - 1 \in 1..h - 1 /\ h - 1 \in 1..Len(host) - 1 /\ (h - 1) + 1 = h
      BY <1>n, <1>1
    <3>2. host[h - 1].kind # host[h].kind
      BY <3>1, HostOrder
    <3>3. host[h - 1].kind \in {"exec", "sys"}
      BY <1>n, <3>1, HostFacts
    <3> QED
      BY <1>1, <1>6, <3>1, <3>2, <3>3, EmptySeq DEF Last
  <2>2. host[h - 1].depth < Depth
    BY <1>1, <1>2
  <2> QED
    BY <1>5, <2>1, <2>2 DEF StatusShape, LiveAbove, InExecute, InSys
<1>11. status' \in Statuses
  BY DEF Statuses
<1>12. KeepsHost(Len(host) - 1)
  BY <1>n, <1>1, <1>6 DEF KeepsHost
<1> QED
  BY <1>4, <1>5, <1>6, <1>8, <1>9, <1>10, <1>11, <1>12 DEF VMInv

\* Execute returns, with the frames above its floor gone or left as they are.
LEMMA LeaveExecuteStep ==
    ASSUME VMInv, InExecute, host' = Front(host), callStack' \in Seq(Frames),
           \A j \in 1..Last(host).depth : callStack'[j] = callStack[j],
           \A j \in Last(host).depth + 1..Len(callStack') : Live(callStack'[j]),
           \/ status' = "finished" /\ Len(callStack') = Last(host).depth
           \/ /\ status' \in {"suspended", "exception"}
              /\ Len(callStack') > Last(host).depth
    PROVE  /\ VMInv' /\ KeepsHost(Len(host) - 1)
           /\ InSys' => NestOpen'
<1>n. PICK h \in Nat : h = Len(host)
  BY HostFacts
<1>d. PICK d \in Nat : d = Last(host).depth
  BY ExecuteFacts
<1>1. /\ h > 0 /\ Last(host) = host[h] /\ host[h].kind = "exec" /\ host[h].depth = d
      /\ Depth \in Nat /\ d <= Depth /\ Depth' = Len(callStack') /\ Depth' \in Nat
      /\ Depth' >= d /\ host # <<>> /\ host \in Seq(HostAct)
      /\ \A i \in 1..h : host[i].depth \in Nat
      /\ \A i \in 1..h - 1 : host[i].depth < d
  <2>1. /\ h > 0 /\ Last(host) = host[h] /\ host[h].kind = "exec"
        /\ host[h].depth = d /\ Depth \in Nat /\ d <= Depth
        /\ \A i \in 1..h : host[i].depth \in Nat
    BY <1>n, <1>d, ExecuteFacts, HostFacts DEF InExecute, Last
  <2>2. \A i \in 1..h - 1 : host[i].depth < d
    BY <1>n, <2>1, HostOrder
  <2>3. Depth' = Len(callStack') /\ Depth' \in Nat /\ Depth' >= d
    BY <1>d, LenProperties DEF Depth
  <2> QED
    BY <2>1, <2>2, <2>3 DEF InExecute, VMInv
<1>2. /\ host' \in Seq(HostAct) /\ Len(host') = h - 1
      /\ \A i \in 1..h - 1 : host'[i] = host[i]
  BY <1>n, <1>1, FrontFacts
<1>3. \A i \in 1..h : host[i].kind = "sys" => i \in 1..h - 1 /\ host[i].depth < d
  BY <1>1
<1>4. StackShape'
  <2>1. SUFFICES ASSUME NEW j \in 1..Depth'
                 PROVE  /\ callStack'[j].fn # NoFn =>
                             callStack'[j].pc \in 1..Len(Code[callStack'[j].fn])
                        /\ callStack'[j].fn = NoFn <=>
                             \E i \in 1..h - 1 :
                                host[i].kind = "sys" /\ j = host[i].depth + 1
    BY <1>2, SMTT(30) DEF StackShape
  <2>2. CASE j <= d
    <3>1. j \in 1..Depth /\ callStack'[j] = callStack[j]
      BY <1>d, <1>1, <2>2
    <3>2. /\ callStack[j].fn # NoFn =>
               callStack[j].pc \in 1..Len(Code[callStack[j].fn])
          /\ callStack[j].fn = NoFn <=>
               \E i \in 1..h : host[i].kind = "sys" /\ j = host[i].depth + 1
      BY <1>n, <3>1, Zenon DEF VMInv, StackShape
    <3>3. \A i \in 1..h - 1 : i \in 1..h
      OBVIOUS
    <3> QED
      BY <1>3, <3>1, <3>2, <3>3, Zenon
  <2>3. CASE j > d
    <3>1. Live(callStack'[j])
      BY <1>d, <1>1, <2>3
    <3>2. ASSUME NEW i \in 1..h - 1 PROVE j # host[i].depth + 1
      <4>1. host[i].depth < d /\ host[i].depth \in Nat
        BY <1>1
      <4> QED
        BY <1>1, <2>3, <4>1
    <3> QED
      BY <3>1, <3>2 DEF Live
  <2> QED
    BY <1>1, <2>2, <2>3
<1>5. HostShape'
  <2>1. ASSUME NEW i \in 1..h - 1, host[i].kind = "sys"
        PROVE  /\ host[i].depth \in 1..Depth'
               /\ AtSys(callStack'[host[i].depth])
    <3>1. i \in 1..Len(host)
      BY <1>n
    <3>2. host[i].depth \in 1..Depth /\ AtSys(callStack[host[i].depth])
      BY <2>1, <3>1 DEF VMInv, HostShape
    <3>3. host[i].depth \in 1..d /\ host[i].depth \in 1..Depth'
      BY <1>1, <3>2
    <3>4. callStack'[host[i].depth] = callStack[host[i].depth]
      BY <1>d, <3>3
    <3> QED
      BY <3>2, <3>3, <3>4
  <2>2. /\ h > 1 => host'[1] = [kind |-> "exec", depth |-> 0]
        /\ \A i \in 2..h - 1 :
            /\ host'[i].kind # host'[i - 1].kind
            /\ host'[i].kind = "exec" => host'[i].depth = host'[i - 1].depth + 1
        /\ \A i, j \in 1..h - 1 : i < j => host'[i].depth < host'[j].depth
    <3>1. /\ h > 1 => 1 \in 1..h - 1
          /\ \A i \in 1..h - 1 : i \in 1..Len(host)
          /\ \A i \in 2..h - 1 :
                i \in 1..h - 1 /\ i - 1 \in 1..h - 1 /\ i \in 2..Len(host)
      BY <1>n
    <3> QED
      BY <1>1, <1>2, <3>1, Zenon DEF VMInv, HostShape
  <2>3. host' # <<>> => h > 1
    BY <1>1, <1>2, EmptySeq
  <2>4. \A i \in 1..Len(host') :
            host'[i].kind = "sys" =>
                host'[i].depth \in 1..Depth' /\ AtSys(callStack'[host'[i].depth])
    BY <1>1, <1>2, <2>1
  <2> QED
    BY <1>2, <2>2, <2>3, <2>4, Zenon DEF HostShape, AtSys
<1>6. StatusShape' /\ (InSys' => NestOpen')
  <2>1. CASE h = 1
    <3>1. host' = <<>> /\ d = 0
      BY <1>1, <1>2, <2>1, EmptySeq DEF VMInv, HostShape
    <3> QED
      BY <1>1, <3>1, <1>d DEF StatusShape, LiveAbove, InExecute, InSys
  <2>2. CASE h # 1
    <3>1. /\ h - 1 \in 1..h - 1 /\ h - 1 \in 1..Len(host) - 1 /\ (h - 1) + 1 = h
          /\ h - 1 \in 1..Len(host)
      BY <1>n, <1>1, <2>2
    <3>2. host[h - 1].kind # "exec" /\ d = host[h - 1].depth + 1
      BY <1>1, <3>1, HostOrder
    <3>3. host[h - 1].kind \in {"exec", "sys"} /\ host[h - 1].depth \in Nat
      BY <3>1, HostFacts
    <3>4. host' # <<>> /\ Last(host)' = host[h - 1]
      BY <1>1, <1>2, <3>1, EmptySeq DEF Last
    <3>5. Depth' > host[h - 1].depth
      BY <1>1, <3>2, <3>3
    <3> QED
      BY <1>1, <1>d, <3>2, <3>3, <3>4, <3>5
         DEF StatusShape, LiveAbove, InExecute, InSys, NestOpen
  <2> QED
    BY <2>1, <2>2
<1>7. status' \in Statuses
  BY DEF Statuses
<1>8. KeepsHost(Len(host) - 1)
  BY <1>n, <1>1, <1>2 DEF KeepsHost
<1> QED
  BY <1>2, <1>4, <1>5, <1>6, <1>7, <1>8 DEF VMInv

\* Execute begins above the marker of the nested execution, or at the bottom.
LEMMA EnterExecuteStep ==
    ASSUME VMInv, host = <<>> \/ (InSys /\ NestOpen),
           status \in {"prepared", "suspended"},
           host' = Append(host, [kind |-> "exec", depth |-> Base(callStack)]),
           callStack' = callStack, status' \in {"active", "suspended"}
    PROVE  VMInv' /\ Len(host') = Len(host) + 1
           /\ (\A i \in 1..Len(host) : host'[i] = host[i])
<1>n. PICK h \in Nat : h = Len(host)
  BY HostFacts
<1>b. PICK b \in Nat : /\ b = Base(callStack) /\ b < Depth
                       /\ h = 0 => b = 0
                       /\ h > 0 => host[h].kind = "sys" /\ b = host[h].depth + 1
  <2>1. CASE host = <<>>
    <3>1. Depth > 0 /\ Depth \in Nat /\ callStack \in Seq(Frames) /\ h = 0
      BY <1>n, <2>1, HostFacts DEF VMInv, StatusShape, LiveAbove
    <3>2. \A j \in 1..Depth : callStack[j].fn # NoFn
      BY <1>n, <3>1 DEF VMInv, StackShape
    <3>3. Base(callStack) = 0
      <4>1. 0 \in 0..Len(callStack) /\ \A j \in 0 + 1..Len(callStack) : callStack[j].fn # NoFn
        BY <3>1, <3>2 DEF Depth
      <4> QED
        BY <3>1, <4>1, BaseFacts
    <3> QED
      BY <3>1, <3>3
  <2>2. CASE InSys /\ NestOpen
    <3> DEFINE d == Last(host).depth
    <3>1. /\ h > 0 /\ Last(host) = host[h] /\ host[h].kind = "sys"
          /\ d \in 1..Depth /\ Depth \in Nat /\ callStack \in Seq(Frames)
          /\ \A j \in d + 2..Depth : Live(callStack[j])
          /\ callStack[d + 1].fn = NoFn
      BY <1>n, <2>2, SysFacts DEF NestOpen
    <3>2. Depth > d + 1
      BY <2>2, <3>1 DEF VMInv, StatusShape, LiveAbove
    <3>3. d + 1 \in 0..Len(callStack)
          /\ \A j \in (d + 1) + 1..Len(callStack) : callStack[j].fn # NoFn
      BY <3>1, <3>2 DEF Depth, Live
    <3>4. Base(callStack) = d + 1
      BY <3>1, <3>3, BaseFacts
    <3> QED
      BY <3>1, <3>2, <3>4
  <2> QED
    BY <2>1, <2>2
<1> DEFINE x == [kind |-> "exec", depth |-> b]
<1>1. /\ host \in Seq(HostAct) /\ x \in HostAct /\ host' = Append(host, x)
      /\ Depth' = Depth /\ Depth \in Nat /\ x.kind = "exec" /\ x.depth = b
      /\ \A i \in 1..h : host[i].depth \in Nat
  BY <1>n, <1>b, HostFacts DEF VMInv, HostAct, Depth
<1> HIDE DEF x
<1>2. /\ host' \in Seq(HostAct) /\ Len(host') = h + 1
      /\ \A i \in 1..h : host'[i] = host[i]
      /\ host'[h + 1] = x /\ Last(host') = x /\ host' # <<>>
  <2>1. /\ host' \in Seq(HostAct) /\ Len(host') = h + 1
        /\ \A i \in 1..h : host'[i] = host[i]
        /\ host'[h + 1] = x
    BY <1>n, <1>1, AppendProperties
  <2> QED
    BY <1>n, <2>1, EmptySeq DEF Last
<1>3. StackShape'
  <2>1. SUFFICES ASSUME NEW j \in 1..Depth
                 PROVE  /\ callStack[j].fn # NoFn =>
                             callStack[j].pc \in 1..Len(Code[callStack[j].fn])
                        /\ callStack[j].fn = NoFn <=>
                             \E i \in 1..h + 1 :
                                host'[i].kind = "sys" /\ j = host'[i].depth + 1
    BY <1>1, <1>2 DEF StackShape
  <2>2. (\E i \in 1..h + 1 : host'[i].kind = "sys" /\ j = host'[i].depth + 1)
        <=> (\E i \in 1..h : host[i].kind = "sys" /\ j = host[i].depth + 1)
    <3>1. ASSUME NEW i \in 1..h + 1, host'[i].kind = "sys"
          PROVE  i \in 1..h
      <4>1. i # h + 1
        BY <1>1, <1>2, <3>1
      <4> QED
        BY <4>1
    <3>2. \A i \in 1..h : i \in 1..h + 1 /\ host'[i] = host[i]
      BY <1>2
    <3> QED
      BY <3>1, <3>2, Zenon
  <2> QED
    BY <1>n, <2>1, <2>2, Zenon DEF VMInv, StackShape
<1>4. HostShape'
  <2>1. host'[1] = [kind |-> "exec", depth |-> 0]
    <3>1. CASE h = 0
      BY <1>b, <1>2, <3>1 DEF x
    <3>2. CASE h > 0
      BY <1>n, <1>2, <3>2, EmptySeq DEF VMInv, HostShape
    <3> QED
      BY <3>1, <3>2
  <2>2. ASSUME NEW i \in 2..h + 1
        PROVE  /\ host'[i].kind # host'[i - 1].kind
               /\ host'[i].kind = "exec" => host'[i].depth = host'[i - 1].depth + 1
    <3>1. CASE i = h + 1
      BY <1>b, <1>1, <1>2, <3>1
    <3>2. CASE i # h + 1
      <4>1. /\ i \in 2..Len(host) /\ i - 1 \in 1..h /\ i \in 1..h
            /\ host'[i] = host[i] /\ host'[i - 1] = host[i - 1]
        BY <1>n, <1>2, <3>2
      <4> QED
        BY <4>1 DEF VMInv, HostShape
    <3> QED
      BY <3>1, <3>2
  <2>3. ASSUME NEW i \in 1..h + 1, NEW k \in 1..h + 1, i < k
        PROVE  host'[i].depth < host'[k].depth
    <3>1. i \in 1..h /\ host'[i] = host[i]
      BY <1>2, <2>3
    <3>2. CASE k = h + 1
      <4>1. i = h \/ host[i].depth < host[h].depth
        BY <1>n, <3>1, HostOrder
      <4>2. host[i].depth \in Nat /\ host[h].depth \in Nat /\ h > 0
        BY <1>1, <3>1
      <4>3. host[i].depth < b
        BY <1>b, <4>1, <4>2
      <4> QED
        BY <1>1, <1>2, <3>1, <3>2, <4>3
    <3>3. CASE k # h + 1
      <4>1. k \in 1..h /\ host'[k] = host[k]
        BY <1>2, <3>3
      <4> QED
        BY <1>n, <2>3, <3>1, <4>1, HostOrder
    <3> QED
      BY <3>2, <3>3
  <2>4. ASSUME NEW i \in 1..Len(host'), host'[i].kind = "sys"
        PROVE  host'[i].depth \in 1..Depth' /\ AtSys(callStack'[host'[i].depth])
    <3>1. i \in 1..Len(host) /\ host'[i] = host[i]
      BY <1>n, <1>1, <1>2, <2>4
    <3> QED
      BY <1>1, <2>4, <3>1 DEF VMInv, HostShape, AtSys
  <2> QED
    BY <1>2, <2>1, <2>2, <2>3, <2>4 DEF HostShape, AtSys
<1>5. StatusShape'
  <2>1. Last(host)' = x
    BY <1>2
  <2> QED
    BY <1>b, <1>1, <1>2, <2>1 DEF StatusShape, LiveAbove, InExecute, InSys
<1>6. status' \in Statuses
  BY DEF Statuses
<1> QED
  BY <1>n, <1>1, <1>2, <1>3, <1>4, <1>5, <1>6 DEF VMInv

\* With nothing on the C++ stack there is no activation.
LEMMA NoHostNoNative ==
    ASSUME NativeInv, host = <<>>
    PROVE  native = <<>>
<1>1. SUFFICES ASSUME native # <<>> PROVE FALSE
  OBVIOUS
<1>2. 1 \in 1..Len(native)
  BY <1>1, NativeFacts
<1> QED
  BY <1>2 DEF NativeInv, ActivationShape

LEMMA NoNative ==
    ASSUME native' = <<>>
    PROVE  NativeInv'
BY EmptySeq DEF NativeInv, StacksAligned, RunsInOwnFrame, CatchesHere, InJit, InNative

-----------------------------------------------------------------------------
(* The interpreter.                                                        *)

LEMMA InterpretPreserves ==
    ASSUME InductiveInv, InterpretStep
    PROVE  CoreInv'
<1> USE DEF CoreInv
<1>1. ~InNative /\ native' = native /\ VMInv /\ NativeInv /\ FlagsOK
  BY InvHalves DEF InterpretStep
<1>2. CASE Step
  <2>1. At({"entry", "op", "div"}) /\ host' = host /\ FlagsOK'
        /\ callStack' = AtPc(Current.pc + 1) /\ status' = status
    BY <1>1, <1>2 DEF Step, FlagsOK, Flags
  <2>2. InExecute /\ Depth \in Nat /\ status = "active"
        /\ Current.pc + 1 \in 1..Len(Code[Current.fn])
    BY <1>1, <2>1, AtFacts
  <2>3. VMInv' /\ Depth' = Depth
        /\ \A j \in 1..Depth - 1 : callStack'[j] = callStack[j]
    BY <1>1, <2>1, <2>2, MoveStep
  <2> QED
    BY <1>1, <2>1, <2>2, <2>3, AboveFloor
<1>3. CASE Branch
  <2>1. PICK p \in {Current.pc + 1, Code[Current.fn][Current.pc].to} :
            callStack' = AtPc(p)
    BY <1>3 DEF Branch
  <2>2. At({"br"}) /\ host' = host /\ FlagsOK' /\ status' = status
    BY <1>1, <1>3 DEF Branch, FlagsOK, Flags
  <2>3. p \in 1..Len(Code[Current.fn]) /\ InExecute /\ Depth \in Nat
        /\ status = "active"
    BY <1>1, <2>1, <2>2, AtFacts
  <2>4. VMInv' /\ Depth' = Depth
        /\ \A j \in 1..Depth - 1 : callStack'[j] = callStack[j]
    BY <1>1, <2>1, <2>2, <2>3, MoveStep
  <2> QED
    BY <1>1, <2>2, <2>3, <2>4, AboveFloor
<1>4. CASE Throw
  <2>1. At({"div"}) /\ host' = host /\ callStack' = callStack
        /\ status' = "exception" /\ FlagsOK'
    BY <1>1, <1>4 DEF Throw, Raise, FlagsOK, FindExceptionTryCatch
  <2>2. InExecute /\ Depth \in Nat /\ status = "active"
    BY <1>1, <2>1, AtFacts
  <2>3. VMInv' /\ Depth' = Depth
    BY <1>1, <2>1, <2>2, StayStep
  <2> QED
    BY <1>1, <2>1, <2>2, <2>3, AboveFloor
<1>5. CASE SuspendPoint
  <2>1. At({"suspend"}) /\ host' = host /\ callStack' = AtPc(Current.pc + 1)
        /\ FlagsOK' /\ SuspendIfAsked
    BY <1>1, <1>5 DEF SuspendPoint, FlagsOK, Flags
  <2>2. InExecute /\ Depth \in Nat /\ status = "active"
        /\ Current.pc + 1 \in 1..Len(Code[Current.fn])
    BY <1>1, <2>1, AtFacts
  <2>3. status' \in {"active", "suspended"}
    BY <2>1, <2>2 DEF SuspendIfAsked
  <2>4. VMInv' /\ Depth' = Depth
        /\ \A j \in 1..Depth - 1 : callStack'[j] = callStack[j]
    BY <1>1, <2>1, <2>2, <2>3, MoveStep
  <2> QED
    BY <1>1, <2>1, <2>2, <2>4, AboveFloor
<1>6. CASE Call
  <2>1. PICK room \in BOOLEAN :
            CallScriptFunction(AtPc(Current.pc + 1),
                               Code[Current.fn][Current.pc].fn, room)
    BY <1>6 DEF Call
  <2>2. At(ScriptCalls) /\ host' = host
    BY <1>6 DEF Call
  <2>3. InExecute /\ Depth \in Nat /\ status = "active"
        /\ Current.pc + 1 \in 1..Len(Code[Current.fn])
        /\ Code[Current.fn][Current.pc].fn \in Fn
    BY <1>1, <2>2, AtFacts DEF ScriptCalls
  <2>4. VMInv' /\ FlagsOK' /\ (Depth' = Depth \/ Depth' = Depth + 1)
        /\ \A j \in 1..Depth - 1 : callStack'[j] = callStack[j]
    BY <1>1, <2>1, <2>2, <2>3, CallStep
  <2> QED
    BY <1>1, <2>2, <2>3, <2>4, AboveFloor
<1>7. CASE CallNull
  <2>1. At({"callptr", "method", "bound"}) /\ host' = host /\ callStack' = AtPc(Current.pc + 1)
        /\ status' = "exception" /\ FlagsOK'
    BY <1>1, <1>7 DEF CallNull, Raise, FlagsOK, FindExceptionTryCatch
  <2>2. InExecute /\ Depth \in Nat /\ status = "active"
        /\ Current.pc + 1 \in 1..Len(Code[Current.fn])
    BY <1>1, <2>1, AtFacts
  <2>3. VMInv' /\ Depth' = Depth
        /\ \A j \in 1..Depth - 1 : callStack'[j] = callStack[j]
    BY <1>1, <2>1, <2>2, MoveStep
  <2> QED
    BY <1>1, <2>1, <2>2, <2>3, AboveFloor
<1>8. CASE CallSys
  <2>1. /\ At(SystemCalls) /\ callStack' = callStack /\ status' = status /\ FlagsOK'
        /\ host' = Append(host, [kind |-> "sys", depth |-> Depth])
    BY <1>1, <1>8 DEF CallSys, FlagsOK, Flags
  <2>2. InExecute /\ Depth \in Nat /\ status = "active"
    BY <1>1, <2>1, AtFacts DEF SystemCalls
  <2>3. /\ callStack' \in Seq(Frames) /\ Depth' = Depth
        /\ Live(callStack'[Depth]) /\ AtSys(callStack'[Depth])
    <3>1. Live(Current) /\ AtSys(Current)
      BY <1>1, <2>1, <2>2, AtFacts, ExecuteFacts DEF AtSys, Live
    <3> QED
      BY <1>1, <2>1, <2>2, <3>1, RunningFacts DEF Depth, Current
  <2>4. VMInv'
    BY <1>1, <2>1, <2>2, <2>3, EnterSysStep
  <2>5. NativeInv'
    BY <1>1, <2>1, <2>2, SysFromInterpreter
  <2> QED
    BY <2>1, <2>4, <2>5
<1>9. CASE Ret
  <2>1. At({"ret"}) /\ host' = host /\ callStack' = Front(callStack) /\ FlagsOK'
        /\ status' = IF IsOutermost(callStack) THEN "finished" ELSE status
    BY <1>1, <1>9 DEF Ret, FlagsOK, Flags
  <2>2. InExecute /\ Depth \in Nat /\ status = "active"
    BY <1>1, <2>1, AtFacts
  <2>3. VMInv' /\ Depth' = Depth - 1
        /\ \A j \in 1..Depth - 1 : callStack'[j] = callStack[j]
    BY <1>1, <2>1, <2>2, PopStep
  <2> QED
    BY <1>1, <2>1, <2>2, <2>3, AboveFloor
<1>10. CASE ThiscallNull
  <2>1. At({"thiscall1"}) /\ host' = host /\ callStack' = AtPc(Current.pc + 1)
        /\ status' \in {"suspended", "exception"} /\ FlagsOK'
    BY <1>1, <1>10 DEF ThiscallNull, FlagsOK, FindExceptionTryCatch
  <2>2. InExecute /\ Depth \in Nat /\ status = "active"
        /\ Current.pc + 1 \in 1..Len(Code[Current.fn])
    BY <1>1, <2>1, AtFacts
  <2>3. VMInv' /\ Depth' = Depth
        /\ \A j \in 1..Depth - 1 : callStack'[j] = callStack[j]
    BY <1>1, <2>1, <2>2, MoveStep
  <2> QED
    BY <1>1, <2>1, <2>2, <2>3, AboveFloor
<1> QED
  BY <1>1, <1>2, <1>3, <1>4, <1>5, <1>6, <1>7, <1>8, <1>9, <1>10
     DEF InterpretStep, Interpret

-----------------------------------------------------------------------------
(* Generated code.                                                         *)

LEMMA NativeStepPreserves ==
    ASSUME InductiveInv, NativeStep \/ NativeBranch
    PROVE  CoreInv'
<1> USE DEF CoreInv
<1>1. VMInv /\ NativeInv /\ FlagsOK /\ InJit("run") /\ I.op # "ret"
      /\ UNCHANGED vmVars
  BY InvHalves DEF NativeStep, NativeBranch, InJitAt
<1>2. PICK p \in {Top.at + 1, I.to} : GoTo(p) /\ (p = I.to => I.op = "br" \/ p = Top.at + 1)
  BY DEF NativeStep, NativeBranch, InJitAt
<1>3. p \in 1..Len(Code[Top.fn]) /\ status = "active"
  <2>1. /\ Top.at + 1 \in 1..Len(Code[Top.fn]) /\ status = "active"
        /\ I.op = "br" => I.to \in 1..Len(Code[Top.fn])
    BY <1>1, InJitFacts
  <2> QED
    BY <1>2, <2>1
<1>4. VMInv' /\ FlagsOK' /\ Depth' = Depth /\ Current' = Current
  BY <1>1, SameVM
<1>5. NativeInv'
  BY <1>1, <1>2, <1>3, <1>4, GoOnStep DEF vmVars
<1> QED
  BY <1>4, <1>5

LEMMA NativeThrowPreserves ==
    ASSUME InductiveInv, NativeThrow
    PROVE  CoreInv'
<1> USE DEF CoreInv
<1> DEFINE frame == [fn |-> Top.fn, pc |-> Top.at]
           x == [Top EXCEPT !.at = Top.at, !.state = "catch"]
<1>1. /\ VMInv /\ NativeInv /\ FlagsOK /\ InJit("run") /\ host' = host
      /\ callStack' = AtPc(Top.at) /\ status' = "exception" /\ FlagsOK'
      /\ willBeCaught' = FindExceptionTryCatch(AtPc(Top.at))
  BY InvHalves DEF NativeThrow, InJitAt, Raise, FlagsOK, FindExceptionTryCatch
<1>2. /\ InNative /\ Top.kind = "jit" /\ Top.state = "run" /\ native # <<>>
      /\ InExecute /\ status = "active" /\ Depth = Top.depth /\ Depth \in Nat
      /\ Current.fn = Top.fn /\ Top.at \in 1..Len(Code[Top.fn])
      /\ Top.fn \in Fn
  BY <1>1, InJitFacts
<1>3. /\ VMInv' /\ Depth' = Depth /\ Current' = frame
      /\ callStack'[Depth] = frame
      /\ \A j \in 1..Depth - 1 : callStack'[j] = callStack[j]
  BY <1>1, <1>2, MoveStep
<1>4. CASE Covering(frame) # {}
  <2>1. Top.at \in Nat
    BY <1>2, CodeFacts
  <2>2. /\ x \in Activation /\ x.kind = "jit" /\ x.fn = Top.fn
        /\ x.depth = Top.depth /\ x.level = Top.level
        /\ x.at = Top.at /\ x.state = "catch"
        /\ [native EXCEPT ![Len(native)].state = "catch"] =
             [native EXCEPT ![Len(native)] = x]
    BY <1>1, <1>2, <2>1, UpdateFacts
  <2> HIDE DEF x
  <2>3. native' = [native EXCEPT ![Len(native)] = x]
    BY <1>4, <2>2 DEF NativeThrow
  <2>4. willBeCaught'
    <3>1. Depth \in 1..Len(callStack') /\ callStack'[Depth] = frame
      BY <1>1, <1>2, <1>3, RunningFacts DEF Depth
    <3> QED
      BY <1>1, <1>4, <3>1 DEF FindExceptionTryCatch
  <2>5. NativeInv'
    BY <1>1, <1>2, <1>3, <1>4, <2>2, <2>3, <2>4, ReplaceStep
  <2> QED
    BY <1>1, <1>3, <2>5
<1>5. CASE Covering(frame) = {}
  <2>1. native' = Front(native)
    BY <1>5 DEF NativeThrow, Exit
  <2>2. NativeInv'
    BY <1>1, <1>2, <1>3, <2>1, ExitStep
  <2> QED
    BY <1>1, <1>3, <2>2
<1> QED
  BY <1>4, <1>5

LEMMA NativeCatchPreserves ==
    ASSUME InductiveInv, NativeCatch
    PROVE  CoreInv'
<1> USE DEF CoreInv
<1> DEFINE frame == [fn |-> Top.fn, pc |-> Top.at]
           known == Handlers[Top.fn][Max(Covering(frame))]
           p == known.catch
           x == [Top EXCEPT !.at = p, !.state = "run"]
<1>1. /\ VMInv /\ NativeInv /\ FlagsOK /\ InJit("catch") /\ host' = host
      /\ FlagsOK' /\ callStack' = CleanStackAt(known)
      /\ status' = IF Catchers(callStack) = {} THEN status ELSE "active"
  BY InvHalves DEF NativeCatch, FlagsOK, Flags
<1>2. /\ InNative /\ Top.kind = "jit" /\ native # <<>>
      /\ InExecute /\ Depth \in Nat /\ Top.fn \in Fn
  BY <1>1, InJitFacts
<1>3. /\ status = "exception" /\ Depth = Top.depth /\ Current.fn = Top.fn
      /\ Covering(Current) = Covering(frame) /\ Covering(Current) # {}
  BY <1>1 DEF NativeInv, CatchesHere
<1>4. Current \in Frame /\ Live(Current) /\ Base(callStack) \in 0..Depth - 1
  BY <1>1, <1>2, <1>3, ExecuteFacts
<1>5. /\ Max(Covering(Current)) \in Covering(Current)
      /\ CatchPos(Current) \in 1..Len(Code[Current.fn])
  BY <1>3, <1>4, CatchPosFacts
<1>6. known = Handlers[Current.fn][Max(Covering(Current))]
  BY <1>3
<1>7. p \in 1..Len(Code[Top.fn]) /\ known.try <= Current.pc /\ Current.pc < p
  BY <1>3, <1>5, <1>6 DEF CatchPos, Covering
<1> HIDE DEF known
<1>8. callStack' = AtPc(p)
  BY <1>1, <1>3, <1>7 DEF CleanStackAt
<1>9. status' = "active"
  <2>1. Depth \in Catchers(callStack)
    <3>1. Depth \in Base(callStack) + 1..Len(callStack)
      BY <1>2, <1>4 DEF Depth
    <3>2. Covering(callStack[Depth]) # {}
      BY <1>3 DEF Current
    <3> QED
      BY <3>1, <3>2, Zenon DEF Catchers
  <2> QED
    BY <1>1, <2>1
<1>10. /\ VMInv' /\ Depth' = Depth /\ Current' = [fn |-> Top.fn, pc |-> p]
       /\ \A j \in 1..Depth - 1 : callStack'[j] = callStack[j]
  BY <1>1, <1>2, <1>3, <1>7, <1>8, <1>9, MoveStep
<1>11. Last(callStack') = Current'
  BY DEF Last, Current, Depth
<1>12. native' = [native EXCEPT ![Len(native)].at = p,
                                ![Len(native)].state = "run"]
  BY <1>1, <1>9, <1>10, <1>11 DEF NativeCatch, known
<1>13. p \in Nat
  BY <1>2, <1>7, CodeFacts
<1>u. NativeInv /\ native # <<>> /\ Top.kind = "jit"
  BY <1>1, <1>2
<1>x. /\ x \in Activation /\ x.kind = Top.kind /\ x.fn = Top.fn
      /\ x.depth = Top.depth /\ x.level = Top.level
      /\ x.at = p /\ x.state = "run"
      /\ [native EXCEPT ![Len(native)].at = p, ![Len(native)].state = "run"] =
           [native EXCEPT ![Len(native)] = x]
  BY <1>u, <1>13, UpdateFacts, ZenonT(60)
<1>14. /\ x \in Activation /\ x.kind = "jit" /\ x.fn = Top.fn
       /\ x.depth = Top.depth /\ x.level = Top.level
       /\ x.at = p /\ x.state = "run"
       /\ native' = [native EXCEPT ![Len(native)] = x]
  BY <1>u, <1>x, <1>12, ZenonT(60)
<1> HIDE DEF x, p
<1>15. NativeInv'
  BY <1>1, <1>2, <1>3, <1>7, <1>9, <1>10, <1>14, ReplaceStep
<1> QED
  BY <1>1, <1>10, <1>15

LEMMA NativeSuspendPreserves ==
    ASSUME InductiveInv, NativeSuspend
    PROVE  CoreInv'
<1> USE DEF CoreInv
<1>1. /\ VMInv /\ NativeInv /\ FlagsOK /\ InJit("run") /\ host' = host
      /\ FlagsOK' /\ I.op # "ret" /\ SuspendIfAsked
  BY InvHalves DEF NativeSuspend, InJitAt, FlagsOK, Flags
<1>2. /\ InNative /\ Top.kind = "jit" /\ InExecute /\ status = "active"
      /\ Depth = Top.depth /\ Depth \in Nat /\ Current.fn = Top.fn
      /\ Top.at + 1 \in 1..Len(Code[Top.fn])
  BY <1>1, InJitFacts
<1>3. status' \in {"active", "suspended"}
  BY <1>1, <1>2 DEF SuspendIfAsked
<1>4. /\ VMInv' /\ Depth' = Depth /\ Current'.fn = Current.fn
      /\ \A j \in 1..Depth - 1 : callStack'[j] = callStack[j]
  <2>1. CASE doProcessSuspend
    <3>1. callStack' = AtPc(Top.at + 1)
      BY <2>1 DEF NativeSuspend
    <3>2. /\ VMInv' /\ Depth' = Depth
          /\ Current' = [fn |-> Current.fn, pc |-> Top.at + 1]
          /\ \A j \in 1..Depth - 1 : callStack'[j] = callStack[j]
      BY <1>1, <1>2, <1>3, <3>1, MoveStep
    <3> QED
      BY <3>2
  <2>2. CASE ~doProcessSuspend
    <3>1. callStack' = callStack
      BY <2>2 DEF NativeSuspend
    <3> QED
      BY <1>1, <1>2, <1>3, <3>1, StayStep
  <2> QED
    BY <2>1, <2>2
<1>5. NativeInv'
  <2>1. CASE status' = "active"
    <3>1. GoTo(Top.at + 1)
      BY <2>1 DEF NativeSuspend
    <3> QED
      BY <1>1, <1>2, <1>4, <2>1, <3>1, GoOnStep
  <2>2. CASE status' # "active"
    <3>1. native' = Front(native)
      BY <2>2 DEF NativeSuspend, Exit
    <3> QED
      BY <1>1, <1>2, <1>4, <3>1, ExitStep
  <2> QED
    BY <2>1, <2>2
<1> QED
  BY <1>1, <1>4, <1>5

LEMMA NativeRetPreserves ==
    ASSUME InductiveInv, NativeRet
    PROVE  CoreInv'
<1> USE DEF CoreInv
<1>1. /\ VMInv /\ NativeInv /\ FlagsOK /\ InJit("run") /\ host' = host
      /\ FlagsOK' /\ native' = Front(native) /\ callStack' = Front(callStack)
      /\ status' = IF IsOutermost(callStack) THEN "finished" ELSE status
  BY InvHalves DEF NativeRet, InJitAt, FlagsOK, Flags, Exit
<1>2. /\ InNative /\ Top.kind = "jit" /\ InExecute /\ status = "active"
      /\ Depth = Top.depth /\ Depth \in Nat
  BY <1>1, InJitFacts
<1>3. /\ VMInv' /\ Depth' = Depth - 1
      /\ \A j \in 1..Depth - 1 : callStack'[j] = callStack[j]
  BY <1>1, <1>2, PopStep
<1>4. Depth' \in Nat
  BY <1>3, HostFacts, LenProperties DEF VMInv, Depth
<1>5. NativeInv'
  BY <1>1, <1>2, <1>3, <1>4, ExitStep
<1> QED
  BY <1>1, <1>3, <1>5

\* A call by the instruction under generated code, with a frame.
LEMMA CallHerePreserves ==
    ASSUME CoreInv, InJit("run"), I.op # "ret",
           CallScriptFunctionHere \/ CallPointerHere
    PROVE  CoreInv'
<1> USE DEF CoreInv
<1>1. /\ VMInv /\ NativeInv /\ FlagsOK /\ InJit("run") /\ host' = host
      /\ I.op # "ret"
  BY DEF CallScriptFunctionHere, CallPointerHere
<1>2. PICK room \in BOOLEAN : PrepareScriptCall(I.fn, room)
  BY DEF CallScriptFunctionHere, CallPointerHere
<1>3. /\ VMInv' /\ FlagsOK'
      /\ Top.at + 1 \in 1..Len(Code[Top.fn]) /\ I.fn \in Fn
      /\ callStack'[Depth] = [fn |-> Top.fn, pc |-> Top.at + 1]
      /\ \A j \in 1..Depth - 1 : callStack'[j] = callStack[j]
      /\ Depth' = Depth \/ Depth' = Depth + 1
      /\ status' = "active" => Depth' = Depth + 1 /\ Current' = Entry(I.fn)
  BY <1>1, <1>2, PrepareFacts
<1>4. \/ ResumeJitCallChain \/ Exit
      \/ status' = "active" /\ EnterCallee(I.fn)
  BY DEF CallScriptFunctionHere, CallPointerHere
<1>5. NativeInv'
  <2>1. CASE ResumeJitCallChain \/ Exit
    BY <1>1, <1>3, <2>1, ResumeStep
  <2>2. CASE status' = "active" /\ EnterCallee(I.fn)
    BY <1>1, <1>3, <2>2, EnterStep
  <2> QED
    BY <1>4, <2>1, <2>2
<1> QED
  BY <1>3, <1>5

LEMMA CallsPreserve ==
    ASSUME InductiveInv, FastCallSimpleScript \/ CallScript \/ CallFunctionPointer
    PROVE  CoreInv'
<1>1. CoreInv /\ InJit("run") /\ I.op # "ret"
      /\ (CallScriptFunctionHere \/ CallPointerHere)
  BY InvHalves DEF FastCallSimpleScript, CallScript, CallFunctionPointer, InJitAt
<1> QED
  BY <1>1, CallHerePreserves

LEMMA CallNativePreserves ==
    ASSUME InductiveInv, CallNative
    PROVE  CoreInv'
<1> USE DEF CoreInv
<1>1. /\ VMInv /\ NativeInv /\ FlagsOK /\ InJit("run") /\ host' = host
      /\ I.op # "ret" /\ FlagsOK' /\ status' = status /\ EnterCallee(I.fn)
      /\ callStack' = Append(AtPc(Top.at + 1), Entry(I.fn))
  BY InvHalves DEF CallNative, InJitAt, FlagsOK, Flags
<1>2. /\ InExecute /\ status = "active" /\ Current.fn = Top.fn /\ I.fn \in Fn
      /\ Top.at + 1 \in 1..Len(Code[Top.fn])
  BY <1>1, InJitFacts
<1>3. /\ VMInv' /\ Depth' = Depth + 1 /\ Current' = Entry(I.fn)
      /\ callStack'[Depth] = [fn |-> Current.fn, pc |-> Top.at + 1]
      /\ \A j \in 1..Depth - 1 : callStack'[j] = callStack[j]
  BY <1>1, <1>2, PushStep
<1>4. callStack'[Depth] = [fn |-> Top.fn, pc |-> Top.at + 1]
  BY <1>2, <1>3
<1>5. NativeInv'
  BY <1>1, <1>2, <1>3, <1>4, EnterStep
<1> QED
  BY <1>1, <1>3, <1>5

LEMMA CallNullPreserves ==
    ASSUME InductiveInv, CallFunctionPointerNull \/ NativeThiscallNull
    PROVE  CoreInv'
<1> USE DEF CoreInv
<1>1. /\ VMInv /\ NativeInv /\ FlagsOK /\ InJit("run") /\ host' = host
      /\ I.op # "ret" /\ FlagsOK' /\ status' = "exception"
      /\ native' = Front(native) /\ callStack' = AtPc(Top.at + 1)
  BY InvHalves
     DEF CallFunctionPointerNull, NativeThiscallNull, InJitAt, Raise, FlagsOK,
         FindExceptionTryCatch, Exit
<1>2. /\ InNative /\ Top.kind = "jit" /\ InExecute /\ status = "active"
      /\ Current.fn = Top.fn /\ Depth = Top.depth /\ Depth \in Nat
      /\ Top.at + 1 \in 1..Len(Code[Top.fn])
  BY <1>1, InJitFacts
<1>3. /\ VMInv' /\ Depth' = Depth
      /\ \A j \in 1..Depth - 1 : callStack'[j] = callStack[j]
  BY <1>1, <1>2, MoveStep
<1>4. NativeInv'
  BY <1>1, <1>2, <1>3, ExitStep
<1> QED
  BY <1>1, <1>3, <1>4

\* An activation is entered at the current frame, over activations that are
\* all below it: by the interpreter or by a chain loop.
LEMMA EnterHere ==
    ASSUME VMInv, NativeInv, FlagsOK, InExecute, status = "active",
           UNCHANGED vmVars,
           native' = Append(native, Jit(Current.fn, Current.pc, Depth)),
           \A k \in 1..Len(native) :
                native[k].depth < Depth /\ native[k].level <= Len(host),
           NEW n \in Nat, n = Len(native),
           n > 0 => \/ native[n].level < Len(host)
                    \/ native[n].level = Len(host) /\ native[n].kind = "chain"
    PROVE  NativeInv'
<1> DEFINE x == Jit(Current.fn, Current.pc, Depth)
<1>1. /\ host' = host /\ status' = "active" /\ native \in Seq(Activation)
      /\ Depth' = Depth /\ Current' = Current /\ callStack' = callStack
      /\ Len(host) \in Nat /\ Len(host) > 0 /\ host[Len(host)].kind = "exec"
  BY SameVM, ExecuteFacts, HostFacts DEF vmVars, NativeInv, InExecute, Last
<1>2. /\ Current.fn \in Fn /\ Current.pc \in 1..Len(Code[Current.fn])
      /\ Current.pc \in Nat /\ Depth \in Nat
      /\ host[Len(host)].depth \in 0..Depth - 1
  BY RunningFacts DEF Last
<1>3. /\ x \in Activation /\ x.kind = "jit" /\ x.level = Len(host)
      /\ x.state = "run" /\ x.at = Current.pc /\ x.fn = Current.fn
      /\ x.depth = Depth
  BY <1>1, <1>2 DEF Jit, Activation
<1>4. native' = Append(native, x)
  OBVIOUS
<1> HIDE DEF x
<1>5. /\ Len(native') = n + 1 /\ native'[n + 1] = x
      /\ \A k \in 1..n : native'[k] = native[k]
  BY <1>1, <1>3, <1>4, AppendProperties
<1>6. ASSUME NEW k \in 1..n
      PROVE  Before(native[k], x, k = n) /\ native[k].depth <= Depth'
  <2>1. native[k].depth \in Nat
    BY NativeFacts
  <2> QED
    BY <1>1, <1>2, <1>3, <2>1 DEF Before
<1>7. ActivationShape(n + 1)'
  <2>1. IsLead(n + 1)' /\ ~(Len(host) < Len(host)) /\ Len(host) \in 1..Len(host)
    BY <1>1, <1>5 DEF IsLead
  <2> QED
    BY <1>1, <1>2, <1>3, <1>5, <2>1 DEF ActivationShape
<1>8. n > 0 => ActivationShape(n)'
  <2>1. SUFFICES ASSUME n > 0 PROVE ActivationShape(n)'
    OBVIOUS
  <2>2. /\ ActivationShape(n) /\ native'[n] = native[n]
        /\ n > 1 => native'[n - 1] = native[n - 1]
    BY <1>5, <2>1 DEF NativeInv
  <2>3. native[n].level \in Nat /\ IsLead(n) /\ n # n + 1
    BY <2>1, NativeFacts DEF IsLead
  <2>4. CASE native[n].level < Len(host)
    <3>1. IsLead(n)'
      BY <1>1, <1>3, <1>5, <2>2, <2>3, <2>4 DEF IsLead
    <3> QED
      BY <1>1, <2>2, <2>3, <3>1 DEF ActivationShape, OwnFrame
  <2>5. CASE native[n].level = Len(host) /\ native[n].kind = "chain"
    <3>1. ~IsLead(n)'
      BY <1>3, <1>5, <2>2, <2>3, <2>5 DEF IsLead
    <3> QED
      BY <1>1, <2>2, <2>5, <3>1 DEF ActivationShape, OwnFrame
  <2> QED
    BY <2>1, <2>4, <2>5
<1>9. \A k \in 1..n - 1 :
        native[k].depth <= Depth' /\ k \in 1..n
  BY <1>6
<1> QED
  BY <1>1, <1>3, <1>4, <1>6, <1>7, <1>8, <1>9, GrowStep

LEMMA JitEntryPreserves ==
    ASSUME InductiveInv, JitEntry
    PROVE  CoreInv'
<1> USE DEF CoreInv
<1>1. /\ VMInv /\ NativeInv /\ FlagsOK /\ At({"entry"}) /\ ~InNative
      /\ UNCHANGED vmVars
      /\ native' = Append(native, Jit(Current.fn, Current.pc, Depth))
  BY InvHalves DEF JitEntry
<1>2. InExecute /\ status = "active" /\ Depth \in Nat
  BY <1>1, AtFacts
<1>3. Last(host).depth < Depth /\ Len(host) \in Nat /\ Last(host).depth \in Nat
  BY <1>1, <1>2, ExecuteFacts, HostFacts
<1>4. \A k \in 1..Len(native) :
        native[k].depth < Depth /\ native[k].level <= Len(host)
        /\ native[k].level < Len(host)
  <2>1. SUFFICES ASSUME NEW k \in 1..Len(native)
                 PROVE  /\ native[k].depth < Depth
                        /\ native[k].level <= Len(host)
                        /\ native[k].level < Len(host)
    OBVIOUS
  <2>2. /\ native[k].depth < Last(host).depth /\ native[k].level < Len(host)
        /\ native[k].depth \in Nat /\ native[k].level \in Nat
    BY <1>1, <1>2, InterpreterFacts, NativeFacts
  <2> QED
    BY <1>2, <1>3, <2>2
<1>5. PICK n \in Nat : n = Len(native)
  BY <1>1, NativeFacts
<1>6. n > 0 => native[n].level < Len(host)
  BY <1>4, <1>5
<1>7. NativeInv'
  BY <1>1, <1>2, <1>4, <1>5, <1>6, EnterHere
<1> QED
  BY <1>1, <1>7, SameVM

LEMMA ChainEnterPreserves ==
    ASSUME InductiveInv, ChainEnter
    PROVE  CoreInv'
<1> USE DEF CoreInv
<1>1. /\ VMInv /\ NativeInv /\ FlagsOK /\ InNative /\ Top.kind = "chain"
      /\ status = "active" /\ Depth > Top.depth /\ UNCHANGED vmVars
      /\ native' = Append(native, Jit(Current.fn, Current.pc, Depth))
  BY InvHalves DEF ChainEnter, InChain, ChainGoesOn
<1>2. PICK n \in Nat : n = Len(native)
  BY <1>1, NativeFacts
<1>3. /\ InExecute /\ n > 0 /\ Top = native[n] /\ Top.level = Len(host)
      /\ Len(host) \in Nat /\ Depth \in Nat
  BY <1>1, <1>2, InNativeFacts, HostFacts
<1>4. ASSUME NEW k \in 1..n
      PROVE  native[k].depth < Depth /\ native[k].level <= Len(host)
  <2>1. native[k].depth \in Nat /\ native[n].depth \in Nat /\ n \in 1..n
    BY <1>1, <1>2, <1>3, NativeFacts
  <2>2. CASE k = n
    BY <1>1, <1>3, <2>2
  <2>3. CASE k # n
    <3>1. Before(native[k], native[n], n = k + 1)
      BY <1>1, <1>2, <2>1, <2>3, AlignedFacts
    <3> QED
      BY <1>1, <1>3, <2>1, <3>1 DEF Before
  <2> QED
    BY <2>2, <2>3
<1>5. NativeInv'
  BY <1>1, <1>2, <1>3, <1>4, EnterHere
<1> QED
  BY <1>1, <1>5, SameVM

LEMMA AfterCallPreserves ==
    ASSUME InductiveInv, AfterCall
    PROVE  CoreInv'
<1> USE DEF CoreInv
<1>1. /\ VMInv /\ NativeInv /\ FlagsOK /\ InJit("wait") /\ UNCHANGED vmVars
  BY InvHalves DEF AfterCall
<1>2. /\ VMInv' /\ FlagsOK' /\ Depth' = Depth /\ Current' = Current
      /\ host' = host /\ callStack' = callStack /\ status' = status
  BY <1>1, SameVM DEF vmVars
<1>3. /\ InNative /\ Top.kind = "jit" /\ Top.state = "wait" /\ native # <<>>
      /\ Depth \in Nat /\ Top.depth \in Nat /\ Top.depth <= Depth
      /\ Top.at \in 1..Len(Code[Top.fn]) /\ Top.fn \in Fn
      /\ Top = native[Len(native)] /\ Len(native) \in 1..Len(native)
  BY <1>1, InJitFacts, InNativeFacts
<1>4. CASE BackInOwnFrame(Top)
  <2> DEFINE x == [Top EXCEPT !.at = Top.at, !.state = "run"]
  <2>1. Top.at \in Nat
    BY <1>3, CodeFacts
  <2>u. NativeInv /\ native # <<>> /\ Top.kind = "jit"
    BY <1>1, <1>3
  <2>2. /\ x \in Activation /\ x.kind = "jit" /\ x.fn = Top.fn
        /\ x.depth = Top.depth /\ x.level = Top.level
        /\ x.at = Top.at /\ x.state = "run"
        /\ [native EXCEPT ![Len(native)].state = "run"] =
             [native EXCEPT ![Len(native)] = x]
    BY <2>u, <2>1, UpdateFacts, ZenonT(60)
  <2> HIDE DEF x
  <2>3. native' = [native EXCEPT ![Len(native)] = x]
    BY <1>4, <2>2 DEF AfterCall
  <2>4. status = "active" /\ Depth = Top.depth
    BY <1>4 DEF BackInOwnFrame
  <2>5. Current.fn = Top.fn
    <3>1. OwnFrame(Top)
      BY <1>1, <1>3 DEF NativeInv, ActivationShape
    <3> QED
      BY <2>4, <3>1 DEF OwnFrame, Current
  <2>6. NativeInv'
    BY <1>1, <1>2, <1>3, <2>2, <2>3, <2>4, <2>5, ReplaceStep
  <2> QED
    BY <1>2, <2>6
<1>5. CASE ~BackInOwnFrame(Top)
  <2>1. native' = Front(native)
    BY <1>5 DEF AfterCall, Exit
  <2>2. NativeInv'
    BY <1>1, <1>2, <1>3, <2>1, ExitStep
  <2> QED
    BY <1>2, <2>2
<1> QED
  BY <1>4, <1>5

\* A chain loop and the caller waiting under it.
LEMMA ChainFacts ==
    ASSUME VMInv, NativeInv, InChain
    PROVE  \E m \in Nat, w \in Activation :
            /\ Len(native) = m + 1 /\ m > 0 /\ w = native[m]
            /\ w.kind = "jit" /\ w.state = "wait" /\ OwnFrame(w)
            /\ w.depth = Top.depth /\ w.level = Len(host)
            /\ w.at \in 1..Len(Code[w.fn]) /\ w.depth \in Nat
            /\ \A k \in 1..m - 1 :
                native[k].depth <= Depth
<1>1. InNative /\ Top.kind = "chain"
  BY DEF InChain
<1>2. PICK n \in Nat : n = Len(native)
  BY NativeFacts
<1>3. /\ n > 0 /\ Top = native[n] /\ Top.level = Len(host) /\ n \in 1..n
  BY <1>1, <1>2, InNativeFacts
<1>4. ActivationShape(n)
  BY <1>2, <1>3 DEF NativeInv
<1>5. /\ n > 1 /\ native[n - 1].state = "wait"
      /\ native[n - 1].depth = Top.depth /\ native[n - 1].level = Top.level
  BY <1>1, <1>3, <1>4 DEF ActivationShape
<1>6. n - 1 \in 1..Len(native) /\ ActivationShape(n - 1)
  BY <1>2, <1>5 DEF NativeInv
<1>7. /\ native[n - 1].kind = "jit" /\ OwnFrame(native[n - 1])
      /\ native[n - 1].at \in 1..Len(Code[native[n - 1].fn])
  BY <1>5, <1>6 DEF ActivationShape
<1>8. native[n - 1] \in Activation /\ native[n - 1].depth \in Nat
  BY <1>6, NativeFacts
<1>9. \A k \in 1..(n - 1) - 1 : native[k].depth <= Depth
  BY <1>2 DEF NativeInv, ActivationShape
<1>10. Len(native) = (n - 1) + 1 /\ n - 1 > 0 /\ n - 1 \in Nat
  BY <1>2, <1>5
<1> QED
  BY <1>3, <1>5, <1>7, <1>8, <1>9, <1>10, Zenon

LEMMA ChainReturnPreserves ==
    ASSUME InductiveInv, ChainReturn
    PROVE  CoreInv'
<1> USE DEF CoreInv
<1>1. /\ VMInv /\ NativeInv /\ FlagsOK /\ InChain /\ UNCHANGED vmVars
  BY InvHalves DEF ChainReturn
<1>2. /\ VMInv' /\ FlagsOK' /\ Depth' = Depth /\ Current' = Current
      /\ host' = host /\ callStack' = callStack /\ status' = status
  BY <1>1, SameVM DEF vmVars
<1>3. PICK m \in Nat, w \in Activation :
            /\ Len(native) = m + 1 /\ m > 0 /\ w = native[m]
            /\ w.kind = "jit" /\ w.state = "wait" /\ OwnFrame(w)
            /\ w.depth = Top.depth /\ w.level = Len(host)
            /\ w.at \in 1..Len(Code[w.fn]) /\ w.depth \in Nat
            /\ \A k \in 1..m - 1 :
                native[k].depth <= Depth
  BY <1>1, ChainFacts
<1>4. Len(host) \in Nat /\ KeepsHost(Len(host)) /\ native \in Seq(Activation)
  BY <1>1, <1>2, HostFacts DEF KeepsHost, NativeInv
<1> DEFINE f == Front(native)
<1>5. /\ f \in Seq(Activation) /\ Len(f) = m /\ m \in 1..m
      /\ \A k \in 1..m : f[k] = native[k]
  <2>1. native # <<>>
    BY <1>3, EmptySeq
  <2> QED
    BY <1>3, <1>4, <2>1, FrontFacts
<1>6. Len(native) - 1 = m
  BY <1>3
<1>7. CASE BackInOwnFrame(Top)
  <2> DEFINE x == [w EXCEPT !.state = "run"]
  <2>1. /\ x \in Activation /\ x.kind = "jit" /\ x.fn = w.fn
        /\ x.depth = w.depth /\ x.level = w.level /\ x.at = w.at
        /\ x.state = "run"
    BY <1>3 DEF Activation
  <2>2. native' = [f EXCEPT ![m].state = "run"]
    BY <1>6, <1>7 DEF ChainReturn
  <2>3. native' = [f EXCEPT ![m] = x]
    BY <1>3, <1>5, <2>2
  <2> HIDE DEF f, x
  <2>4. /\ native' \in Seq(Activation) /\ Len(native') = m
        /\ \A k \in 1..m : native'[k] = IF k = m THEN x ELSE f[k]
    BY <1>5, <2>1, <2>3, ExceptSeq
  <2>5. native'[m] = x
    BY <1>5, <2>4
  <2>6. \A k \in 1..m - 1 : native'[k] = native[k]
    <3>1. \A k \in 1..m - 1 : k \in 1..m /\ k # m
      OBVIOUS
    <3> QED
      BY <1>5, <2>4, <3>1, Zenon
  <2>7. status = "active" /\ Depth = w.depth
    BY <1>3, <1>7 DEF BackInOwnFrame
  <2>8. Current.fn = w.fn
    BY <1>3, <2>7 DEF OwnFrame, Current
  <2>9. m \in 1..Len(native)
    BY <1>3
  <2>10. /\ \A j \in 1..x.depth - 1 : callStack'[j] = callStack[j]
         /\ Depth' = x.depth /\ Current'.fn = x.fn /\ status' = "active"
         /\ x.fn = native[m].fn /\ x.level = native[m].level
         /\ x.depth = native[m].depth /\ x.at \in 1..Len(Code[x.fn])
         /\ native[m].kind = "jit" /\ native[m].level = Len(host)
    BY <1>2, <1>3, <2>1, <2>7, <2>8
  <2>11. NativeInv'
    BY <1>1, <1>4, <2>1, <2>4, <2>5, <2>6, <2>9, <2>10, LandStep
  <2> QED
    BY <1>2, <2>11
<1>8. CASE ~BackInOwnFrame(Top)
  <2>1. native' = Front(f)
    BY <1>8 DEF ChainReturn
  <2>2. Front(f) = SubSeq(native, 1, m - 1)
    <3>1. m \in 0..Len(native) /\ m - 1 \in 0..m /\ m - 1 \in 0..Len(native)
      BY <1>3
    <3> DEFINE g == SubSeq(native, 1, m - 1)
    <3>2. /\ g \in Seq(Activation) /\ Len(g) = m - 1
          /\ \A k \in 1..m - 1 : g[k] = native[k]
      BY <1>4, <3>1, PrefixFacts
    <3>3. /\ Front(f) \in Seq(Activation) /\ Len(Front(f)) = m - 1
          /\ \A k \in 1..m - 1 : Front(f)[k] = f[k]
      <4>1. f # <<>>
        BY <1>3, <1>5, EmptySeq
      <4> HIDE DEF f
      <4> QED
        BY <1>5, <4>1, FrontFacts
    <3>4. \A k \in 1..m - 1 : g[k] = Front(f)[k]
      <4>1. \A k \in 1..m - 1 : k \in 1..m
        OBVIOUS
      <4> QED
        BY <1>5, <3>2, <3>3, <4>1, Zenon
    <3> HIDE DEF g, f
    <3>5. Front(f) = g
      BY <3>2, <3>3, <3>4, SeqEqual
    <3> QED
      BY <3>5 DEF g
  <2>3. /\ m - 1 \in 0..Len(native) - 1 /\ native[(m - 1) + 1].level = Len(host)
    BY <1>3
  <2>4. \A k \in 1..m - 1 :
            /\ native[k].depth <= Depth'
            /\ callStack'[native[k].depth] = callStack[native[k].depth]
    BY <1>2, <1>3
  <2>5. native' = SubSeq(native, 1, m - 1)
    BY <2>1, <2>2, Zenon
  <2>6. NativeInv'
    BY <1>1, <1>4, <2>3, <2>4, <2>5, LeaveStep
  <2> QED
    BY <1>2, <2>6
<1> QED
  BY <1>7, <1>8

-----------------------------------------------------------------------------
(* System functions.                                                       *)

LEMMA NativeCallSysPreserves ==
    ASSUME InductiveInv, NativeCallSys
    PROVE  CoreInv'
<1> USE DEF CoreInv
<1> DEFINE h == Len(host)
<1>n. PICK n \in Nat : n = Len(native)
  BY InvHalves, NativeFacts
<1>1. /\ VMInv /\ NativeInv /\ FlagsOK /\ InJit("run") /\ I.op \in SystemCalls
      /\ FlagsOK' /\ status' = status /\ native' = native
      /\ callStack' = AtPc(Top.at)
      /\ host' = Append(host, [kind |-> "sys", depth |-> Depth])
  BY InvHalves DEF NativeCallSys, InJitAt, FlagsOK, Flags
<1>2. /\ InNative /\ Top.kind = "jit" /\ InExecute /\ status = "active"
      /\ Top.state = "run" /\ Depth = Top.depth /\ Depth \in Nat
      /\ Current.fn = Top.fn /\ Top.fn \in Fn
      /\ Top.at \in 1..Len(Code[Top.fn]) /\ Top.level = h
  BY <1>1, InJitFacts
<1>3. /\ n \in Nat /\ n \in 1..n /\ Top = native[n] /\ h \in Nat
      /\ host \in Seq(HostAct) /\ n = Len(native) /\ n = Len(native')
  BY <1>n, <1>1, <1>2, InNativeFacts, HostFacts DEF VMInv
<1>4. Top.at \in Nat
  BY <1>2, CodeFacts
<1>5. /\ callStack' \in Seq(Frames) /\ Len(callStack') = Depth
      /\ \A j \in 1..Depth - 1 : callStack'[j] = callStack[j]
      /\ callStack'[Depth] = [fn |-> Top.fn, pc |-> Top.at]
  <2>1. callStack \in Seq(Frames) /\ Depth > 0 /\ Current \in Frame
    BY <1>1, <1>2, RunningFacts
  <2> QED
    BY <1>1, <1>2, <1>4, <2>1, AtPcFacts
<1>6. /\ Depth' = Depth /\ Live(callStack'[Depth]) /\ AtSys(callStack'[Depth])
  BY <1>1, <1>2, <1>5, FnAssumption DEF Depth, Live, AtSys, I
<1>7. VMInv'
  BY <1>1, <1>2, <1>5, <1>6, EnterSysStep
<1>8. /\ Len(host') = h + 1 /\ \A i \in 1..h : host'[i] = host[i]
      /\ host'[h + 1].depth = Depth
  BY <1>1, <1>2, <1>3, AppendProperties DEF HostAct
<1>9. ASSUME NEW i \in 1..n
      PROVE  ActivationShape(i)'
  <2>1. ActivationShape(i) /\ IsLead(i)' = IsLead(i)
    BY <1>1, <1>3 DEF NativeInv, IsLead
  <2>2. native[i].level \in 1..h /\ host'[native[i].level] = host[native[i].level]
    BY <1>8, <2>1 DEF ActivationShape
  <2>3. CASE i = n
    <3> DEFINE a == native[n]
    <3>1. /\ a.kind = "jit" /\ a.state = "run" /\ a.level = h /\ a.depth = Depth
          /\ Code[a.fn][a.at].op \in SystemCalls /\ native'[n] = a
      BY <1>1, <1>2, <1>3 DEF I
    <3>2. callStack'[a.depth] = [fn |-> a.fn, pc |-> a.at]
      BY <1>2, <1>3, <1>5
    <3>3. OwnFrame(native[n])'
      BY <3>1, <3>2 DEF OwnFrame
    <3>4. /\ a.level \in 1..Len(host') /\ a.depth <= Depth'
          /\ host'[a.level + 1].depth = a.depth
      BY <1>2, <1>3, <1>6, <1>8, <2>2, <2>3, <3>1
    <3>5. /\ host[a.level].kind = "exec" /\ host[a.level].depth < a.depth
          /\ a.at \in 1..Len(Code[a.fn]) /\ host'[a.level] = host[a.level]
      BY <2>1, <2>2, <2>3 DEF ActivationShape
    <3>i. IsLead(n)'
      BY <1>3 DEF IsLead
    <3>6. ActivationShape(n)'
      BY <3>1, <3>3, <3>4, <3>5, <3>i DEF ActivationShape
    <3> QED
      BY <2>3, <3>6
  <2>4. CASE i # n
    <3>1. native[i].depth < Depth /\ native[i].depth \in Nat
      BY <1>1, <1>2, <1>3, <2>4, InNativeFacts, NativeFacts
    <3>2. native[i].depth \in 1..Depth - 1
      <4>1. host[native[i].level].depth < native[i].depth
            /\ host[native[i].level].depth \in Nat
        BY <1>1, <2>1, <2>2, HostFacts DEF ActivationShape
      <4> QED
        BY <1>2, <3>1, <4>1, Between, Zenon
    <3>3. callStack'[native[i].depth] = callStack[native[i].depth]
      BY <1>5, <3>2
    <3>4. native[i].level < h \/ ~IsLead(i)
      <4>1. SUFFICES ASSUME native[i].level = h PROVE ~IsLead(i)
        BY <1>3, <2>2
      <4>2. i + 1 \in 1..Len(native) /\ i < i + 1 /\ i \in 1..Len(native)
        BY <1>3, <2>4
      <4>3. native[i].level <= native[i + 1].level
        BY <1>1, <4>2, AlignedFacts DEF Before
      <4>4. native[i + 1].level \in 1..h
        BY <1>1, <1>3, <4>2 DEF NativeInv, ActivationShape
      <4>5. native[i + 1].level = native[i].level
        BY <1>3, <4>1, <4>3, <4>4
      <4> QED
        BY <1>3, <2>4, <4>5 DEF IsLead
    <3>5. native[i].level < h =>
            host'[native[i].level + 1] = host[native[i].level + 1]
      BY <1>3, <1>8, <2>2
    <3>6. native[i].level \in 1..Len(host')
      BY <1>3, <1>8, <2>2
    <3>7. OwnFrame(native[i])' = OwnFrame(native[i])
      BY <1>1, <3>3 DEF OwnFrame
    <3>8. native[i].depth <= Depth' /\ native'[i] = native[i]
          /\ native'[i - 1] = native[i - 1]
      BY <1>1, <1>2, <1>6, <3>1
    <3> QED
      BY <1>1, <2>1, <2>2, <3>4, <3>5, <3>6, <3>7, <3>8 DEF ActivationShape
  <2> QED
    BY <2>3, <2>4
<1>10. StacksAligned'
  <2>1. \A i, j \in 1..Len(native') :
            i < j => Before(native'[i], native'[j], j = i + 1)
    BY <1>1, AlignedFacts
  <2> QED
    BY <1>1, <1>3, <1>9, <2>1, AlignedStep
<1>11. ~InNative'
  BY <1>1, <1>2, <1>3, <1>8 DEF InNative, Top
<1>12. NativeInv'
  BY <1>1, <1>3, <1>9, <1>10, <1>11 DEF NativeInv, RunsInOwnFrame, CatchesHere, InJit
<1> QED
  BY <1>1, <1>7, <1>12

\* The system function was called by the function of the top activation.
LEMMA CallerFacts ==
    ASSUME VMInv, NativeInv, InSys, ~NestOpen, CalledFromNative
    PROVE  \E n \in Nat :
            /\ n = Len(native) /\ n > 0 /\ Top = native[n] /\ Top \in Activation
            /\ Top.kind = "jit" /\ Top.state = "run" /\ Top.fn \in Fn
            /\ Top.level = Len(host) - 1 /\ Top.depth = Depth /\ Depth \in Nat
            /\ Top.at \in 1..Len(Code[Top.fn])
            /\ Code[Top.fn][Top.at].op \in SystemCalls
            /\ Current = [fn |-> Top.fn, pc |-> Top.at]
            /\ \A i \in 1..n - 1 :
                    native[i].depth < Depth /\ native[i].depth \in 1..Depth
<1>1. PICK n \in Nat : n = Len(native)
  BY NativeFacts
<1>2. /\ n > 0 /\ Top = native[n] /\ Top \in Activation /\ n \in 1..Len(native)
      /\ Top.level = Len(host) - 1 /\ Top.fn \in Fn
  BY <1>1, NativeFacts DEF CalledFromNative, Top, Last
<1>3. /\ Len(host) \in Nat /\ Len(host) > 1 /\ Last(host) = host[Len(host)]
      /\ Last(host).depth \in 1..Depth /\ Depth \in Nat
  BY SysFacts
<1>4. Last(host).depth = Depth
  BY <1>3 DEF NestOpen
<1>5. ActivationShape(n) /\ IsLead(n) /\ Top.level < Len(host)
      /\ Top.level + 1 = Len(host)
  BY <1>1, <1>2, <1>3 DEF NativeInv, IsLead
<1>6. /\ Top.kind = "jit" /\ Top.state = "run" /\ OwnFrame(Top)
      /\ Code[Top.fn][Top.at].op \in SystemCalls
      /\ Top.depth = host[Top.level + 1].depth
      /\ Top.at \in 1..Len(Code[Top.fn])
  BY <1>2, <1>5 DEF ActivationShape
<1>7. Top.depth = Depth /\ Current = [fn |-> Top.fn, pc |-> Top.at]
  BY <1>3, <1>4, <1>5, <1>6 DEF OwnFrame, Current
<1>8. ASSUME NEW i \in 1..n - 1
      PROVE  native[i].depth < Depth /\ native[i].depth \in 1..Depth
  <2>1. i \in 1..Len(native) /\ i < n
    BY <1>1
  <2>2. Before(native[i], native[n], n = i + 1)
    BY <1>2, <2>1, AlignedFacts
  <2>3. native[i].depth < Depth
    BY <1>2, <1>6, <1>7, <2>2 DEF Before
  <2>4. native[i].depth \in 1..Last(host).depth
    BY <2>1, SysNativeFacts
  <2> QED
    BY <1>4, <2>3, <2>4
<1> QED
  BY <1>1, <1>2, <1>3, <1>6, <1>7, <1>8

LEMMA NativeSysReturnPreserves ==
    ASSUME InductiveInv, NativeSysReturn \/ NativeBoundReturn
    PROVE  CoreInv'
<1> USE DEF CoreInv
<1> DEFINE frame == [fn |-> Top.fn, pc |-> Top.at]
           p == Top.at + 1
<1>1. /\ VMInv /\ NativeInv /\ FlagsOK /\ InSys /\ ~NestOpen /\ FlagsOK'
      /\ CalledFromNative /\ host' = Front(host) /\ callStack' = AtPc(p)
  BY InvHalves DEF NativeSysReturn, NativeBoundReturn, FlagsOK, Flags
<1>2. PICK n \in Nat :
            /\ n = Len(native) /\ n > 0 /\ Top = native[n] /\ Top \in Activation
            /\ Top.kind = "jit" /\ Top.state = "run" /\ Top.fn \in Fn
            /\ Top.level = Len(host) - 1 /\ Top.depth = Depth /\ Depth \in Nat
            /\ Top.at \in 1..Len(Code[Top.fn])
            /\ Code[Top.fn][Top.at].op \in SystemCalls
            /\ Current = [fn |-> Top.fn, pc |-> Top.at]
            /\ \A i \in 1..n - 1 :
                    native[i].depth < Depth /\ native[i].depth \in 1..Depth
  BY <1>1, CallerFacts
<1>3. p \in 1..Len(Code[Top.fn]) /\ Top.at \in Nat /\ p \in Nat
  BY <1>2, CodeFacts DEF SystemCalls
<1>4. /\ doProcessSuspend \in BOOLEAN
      /\ status \in {"active", "exception"}
      /\ native # <<>> /\ native \in Seq(Activation)
      /\ status = "exception" => doProcessSuspend
  BY <1>1, InvHalves
     DEF FlagsOK, VMInv, NativeInv, StatusShape, CalledFromNative,
         ExceptionIsFlagged
\* The three ways on: go on, turn to the catch block, leave.
<1>5. \/ GoTo(p) /\ status' = "active"
      \/ /\ native' = [native EXCEPT ![Len(native)].state = "catch"]
         /\ Covering(frame) # {} /\ status = "exception" /\ willBeCaught
         /\ status' = status
      \/ Exit /\ status' \in {"active", "suspended", "exception"}
  BY <1>4 DEF NativeSysReturn, NativeBoundReturn, SuspendIfAsked
<1>6. status' \in {"active", "suspended", "exception"}
  BY <1>4, <1>5
<1>7. /\ VMInv' /\ Depth' = Depth /\ KeepsHost(Len(host) - 1)
      /\ Current' = [fn |-> Current.fn, pc |-> p]
      /\ \A j \in 1..Depth - 1 : callStack'[j] = callStack[j]
  BY <1>1, <1>2, <1>3, <1>6, LeaveSysStep
<1>h. Len(host) - 1 \in Nat
  BY <1>1, SysFacts
<1>8. PICK L \in Nat : L = Len(host) - 1
  BY <1>h
<1>9. /\ KeepsHost(L) /\ Top.level = L /\ Current'.fn = Top.fn
      /\ native[n].level = L
  BY <1>2, <1>7, <1>8
<1>10. ASSUME NEW x \in Activation, native' = [native EXCEPT ![n] = x],
              x.kind = "jit", x.fn = Top.fn, x.level = Top.level,
              x.depth = Top.depth, x.at \in 1..Len(Code[x.fn]),
              \/ x.state = "run" /\ status' = "active"
              \/ /\ x.state = "catch" /\ status' = "exception" /\ willBeCaught'
                 /\ Covering(Current') = Covering([fn |-> x.fn, pc |-> x.at])
                 /\ Covering(Current') # {}
       PROVE  NativeInv'
  <2>1. /\ native' \in Seq(Activation) /\ Len(native') = n
        /\ \A k \in 1..n : native'[k] = IF k = n THEN x ELSE native[k]
    BY <1>2, <1>4, <1>10, ExceptSeq
  <2>2. native'[n] = x /\ n \in 1..Len(native)
    BY <1>2, <2>1
  <2>3. \A k \in 1..n - 1 : native'[k] = native[k]
    BY <1>2, <2>1
  <2> QED
    BY <1>1, <1>2, <1>7, <1>9, <1>10, <2>1, <2>2, <2>3, LandStep, SMTT(30)
<1>11. CASE GoTo(p) /\ status' = "active"
  <2> DEFINE x == [Top EXCEPT !.at = p, !.state = "run"]
  <2>u. /\ NativeInv /\ native # <<>> /\ Top.kind = "jit" /\ Top.state = "run"
        /\ p \in Nat
    BY <1>1, <1>2, <1>3, <1>4
  <2>x. /\ x \in Activation /\ x.kind = Top.kind /\ x.fn = Top.fn
        /\ x.depth = Top.depth /\ x.level = Top.level
        /\ x.at = p /\ x.state = "run"
        /\ [native EXCEPT ![Len(native)].at = p] =
             [native EXCEPT ![Len(native)] = x]
    BY <2>u, UpdateFacts, ZenonT(60)
  <2>1. /\ x \in Activation /\ x.kind = "jit" /\ x.fn = Top.fn
        /\ x.depth = Top.depth /\ x.level = Top.level
        /\ x.at = p /\ x.state = "run"
        /\ native' = [native EXCEPT ![n] = x]
    <3>1. native' = [native EXCEPT ![Len(native)].at = p]
      BY <1>11 DEF GoTo
    <3>2. [native EXCEPT ![Len(native)] = x] = [native EXCEPT ![n] = x]
      BY <1>2
    <3> QED
      BY <2>u, <2>x, <3>1, <3>2, ZenonT(60)
  <2> HIDE DEF x
  <2> QED
    BY <1>1, <1>3, <1>7, <1>10, <1>11, <2>1
<1>12. CASE /\ native' = [native EXCEPT ![Len(native)].state = "catch"]
            /\ Covering(frame) # {} /\ status = "exception" /\ willBeCaught
            /\ status' = status
  <2> DEFINE x == [Top EXCEPT !.at = Top.at, !.state = "catch"]
  <2>1. NativeInv /\ native # <<>>
    BY <1>1, <1>4
  <2>2. /\ x \in Activation /\ x.kind = Top.kind /\ x.fn = Top.fn
        /\ x.depth = Top.depth /\ x.level = Top.level
        /\ x.at = Top.at /\ x.state = "catch"
        /\ [native EXCEPT ![Len(native)].state = "catch"] =
             [native EXCEPT ![Len(native)] = x]
    BY <1>3, <2>1, UpdateFacts, Zenon
  <2> HIDE DEF x
  <2>3. Covering(Current') = Covering(frame)
    <3>1. Current' = [fn |-> Top.fn, pc |-> Top.at + 1]
      BY <1>2, <1>7
    <3>2. Covering([fn |-> Top.fn, pc |-> Top.at]) =
            Covering([fn |-> Top.fn, pc |-> Top.at + 1])
      BY <1>2, SysInsideTry
    <3> QED
      BY <3>1, <3>2
  <2>4. willBeCaught'
    BY <1>12 DEF NativeSysReturn, NativeBoundReturn, Flags
  <2>5. native' = [native EXCEPT ![n] = x]
    BY <1>2, <1>12, <2>2
  <2>6. /\ x.kind = "jit" /\ x.at \in 1..Len(Code[x.fn]) /\ status' = "exception"
        /\ Covering(Current') = Covering([fn |-> x.fn, pc |-> x.at])
        /\ Covering(Current') # {}
    BY <1>2, <1>12, <2>2, <2>3
  <2>7. NativeInv'
    BY <1>10, <2>2, <2>4, <2>5, <2>6
  <2> QED
    BY <1>1, <1>7, <2>7
<1>13. CASE Exit /\ status' \in {"active", "suspended", "exception"}
  <2>1. /\ n - 1 \in 0..Len(native) - 1 /\ (n - 1) + 1 = n
        /\ native' = SubSeq(native, 1, n - 1)
    BY <1>2, <1>13 DEF Exit, Front
  <2>2. \A k \in 1..n - 1 :
            /\ native[k].depth <= Depth'
            /\ callStack'[native[k].depth] = callStack[native[k].depth]
    <3>1. SUFFICES ASSUME NEW k \in 1..n - 1
                   PROVE  /\ native[k].depth <= Depth'
                          /\ callStack'[native[k].depth] = callStack[native[k].depth]
      OBVIOUS
    <3>2. native[k].depth \in 1..Depth - 1 /\ native[k].depth <= Depth
      BY <1>2
    <3> QED
      BY <1>7, <3>2
  <2>3. NativeInv'
    BY <1>1, <1>9, <2>1, <2>2, LeaveStep
  <2> QED
    BY <1>1, <1>7, <2>3
<1> QED
  BY <1>5, <1>11, <1>12, <1>13

\* Called by the interpreter, it returns to it.
LEMMA InterpretedSysReturnPreserves ==
    ASSUME InductiveInv, InterpretedSysReturn
    PROVE  CoreInv'
<1> USE DEF CoreInv
<1>1. /\ VMInv /\ NativeInv /\ FlagsOK /\ InSys /\ ~NestOpen /\ FlagsOK'
      /\ ~CalledFromNative /\ native' = native /\ host' = Front(host)
      /\ callStack' = AtPc(Current.pc + 1)
  BY InvHalves
     DEF InterpretedSysReturn, SysReturn, SysFinish, FlagsOK, Flags
<1>2. status \in {"active", "exception"} /\ SysFinish
  BY <1>1 DEF VMInv, StatusShape, InterpretedSysReturn, SysReturn
<1>3. status' \in {"active", "suspended", "exception"}
  BY <1>2 DEF SysFinish, SuspendIfAsked
<1> DEFINE d == Last(host).depth
           p == Current.pc + 1
<1>4. /\ d = Depth /\ Depth \in Nat /\ Depth > 0
      /\ AtSys(Current) /\ Live(Current) /\ Len(host) \in Nat /\ Len(host) > 1
  BY <1>1, SysFacts DEF NestOpen, Current
<1>5. p \in 1..Len(Code[Current.fn])
  <2>1. Current \in Frames
    BY <1>1, <1>4, HostFacts DEF Current
  <2>2. Current.fn \in Fn
    BY <1>4, <2>1, FrameFacts DEF Frame
  <2> QED
    BY <1>4, <2>2, CodeFacts DEF AtSys, Live, SystemCalls
<1> HIDE DEF p
<1>6. /\ VMInv' /\ Depth' = Depth /\ KeepsHost(Len(host) - 1)
      /\ \A j \in 1..Depth - 1 : callStack'[j] = callStack[j]
  BY <1>1, <1>3, <1>5, LeaveSysStep DEF p
<1>7. ASSUME NEW i \in 1..Len(native)
      PROVE  ActivationShape(i)' /\ native[i].level < Len(host) - 1
  <2>1. /\ ActivationShape(i) /\ native[i].level \in 1..Len(host) - 1
        /\ native[i].level < Len(host) - 1
        /\ native[i].depth < d /\ native[i].depth \in 1..d
    BY <1>1, SysNativeFacts DEF NativeInv
  <2>2. /\ Len(host') = Len(host) - 1
        /\ \A k \in 1..Len(host) - 1 : host'[k] = host[k]
    BY <1>6 DEF KeepsHost
  <2>3. /\ host'[native[i].level] = host[native[i].level]
        /\ host'[native[i].level + 1] = host[native[i].level + 1]
        /\ native[i].level \in 1..Len(host') /\ native[i].level < Len(host)
    <3>1. /\ native[i].level \in 1..Len(host) - 1
          /\ native[i].level + 1 \in 1..Len(host) - 1
      BY <1>4, <2>1
    <3>2. native[i].level < Len(host)
      BY <1>4, <3>1
    <3> QED
      BY <2>2, <3>1, <3>2
  <2>4. /\ callStack'[native[i].depth] = callStack[native[i].depth]
        /\ native[i].depth <= Depth'
    <3>1. native[i].depth \in 1..Depth - 1
      BY <1>4, <2>1
    <3> QED
      BY <1>4, <1>6, <3>1
  <2>5. IsLead(i)' = IsLead(i)
    BY <1>1 DEF IsLead
  <2> QED
    BY <1>1, <2>1, <2>3, <2>4, <2>5 DEF ActivationShape, OwnFrame
<1>8. StacksAligned'
  <2>1. \A i, j \in 1..Len(native') :
            i < j => Before(native'[i], native'[j], j = i + 1)
    BY <1>1, AlignedFacts
  <2> QED
    BY <1>1, <1>7, <2>1, AlignedStep
<1>9. ~InNative'
  <2>1. SUFFICES ASSUME native # <<>>
                 PROVE  native[Len(native)].level # Len(host')
    BY <1>1 DEF InNative, Top, Last
  <2>2. Len(native) \in 1..Len(native) /\ native[Len(native)].level \in Nat
    BY <1>1, <2>1, NativeFacts
  <2>3. Len(host') = Len(host) - 1 /\ native[Len(native)].level < Len(host) - 1
    BY <1>6, <1>7, <2>2 DEF KeepsHost
  <2> QED
    BY <1>4, <2>2, <2>3
<1>10. NativeInv'
  BY <1>1, <1>7, <1>8, <1>9 DEF NativeInv, RunsInOwnFrame, CatchesHere, InJit
<1> QED
  BY <1>1, <1>6, <1>10

LEMMA InSystemCallPreserves ==
    ASSUME InductiveInv, InSystemCall, UNCHANGED native
    PROVE  CoreInv'
<1> USE DEF CoreInv
<1> DEFINE d == Last(host).depth
<1>1. /\ VMInv /\ NativeInv /\ FlagsOK /\ InSys /\ native' = native
      /\ host' = host
  BY InvHalves DEF InSystemCall, SysRaise, SysPop, SysNest
<1>2. /\ Len(host) \in Nat /\ Depth \in Nat /\ d \in 1..Depth
      /\ Last(host) = host[Len(host)] /\ host[Len(host)].kind = "sys"
      /\ Len(host) > 1 /\ callStack \in Seq(Frames)
      /\ \A i \in 1..Len(host) - 1 : host[i].depth < d
      /\ \A i \in 1..Len(host) : host[i].depth \in Nat
  BY <1>1, SysFacts, HostFacts
<1>3. CASE SysRaise
  <2>1. /\ callStack' = callStack /\ status' = "exception" /\ ~NestOpen
        /\ FlagsOK'
    BY <1>1, <1>3 DEF SysRaise, Raise, FlagsOK, FindExceptionTryCatch
  <2>2. VMInv'
    <3>1. Depth' = Depth
      BY <2>1 DEF Depth
    <3>2. StackShape' /\ HostShape'
      BY <1>1, <2>1, <3>1 DEF VMInv, StackShape, HostShape
    <3>3. StatusShape'
      BY <1>1, <2>1, <3>1 DEF VMInv, StatusShape, LiveAbove, InExecute, InSys, NestOpen
    <3> QED
      BY <1>1, <2>1, <3>2, <3>3 DEF VMInv, Statuses
  <2>3. Depth' = Depth
    BY <2>1 DEF Depth
  <2>4. NativeInv'
    <3>1. \A j \in 1..Last(host).depth : callStack'[j] = callStack[j]
      BY <2>1
    <3>2. Depth' \in Nat /\ Depth' >= Last(host).depth
      BY <1>2, <2>3
    <3> QED
      BY <1>1, <1>2, <3>1, <3>2, SysStep, ZenonT(60)
  <2> QED
    BY <2>1, <2>2, <2>4
<1>4. CASE SysPop
  <2>1. /\ callStack' = SubSeq(callStack, 1, d) /\ status' = "active" /\ FlagsOK'
    BY <1>1, <1>4 DEF SysPop, FlagsOK, Flags
  <2>2. /\ callStack' \in Seq(Frames) /\ Len(callStack') = d
        /\ \A j \in 1..d : callStack'[j] = callStack[j]
    <3>1. d \in 0..Len(callStack)
      BY <1>2 DEF Depth
    <3> QED
      BY <1>2, <2>1, <3>1, PrefixFacts
  <2>3. Depth' = d
    BY <2>2 DEF Depth
  <2>4. StackShape'
    <3>1. SUFFICES ASSUME NEW j \in 1..d
                   PROVE  /\ callStack'[j].fn # NoFn =>
                               callStack'[j].pc \in 1..Len(Code[callStack'[j].fn])
                          /\ callStack'[j].fn = NoFn <=>
                               \E i \in 1..Len(host) :
                                  host[i].kind = "sys" /\ j = host[i].depth + 1
      BY <1>1, <2>3 DEF StackShape
    <3>2. j \in 1..Depth /\ callStack'[j] = callStack[j]
      BY <1>2, <2>2
    <3> QED
      BY <1>1, <3>2, Zenon DEF VMInv, StackShape
  <2>5. HostShape'
    <3>1. ASSUME NEW i \in 1..Len(host), host[i].kind = "sys"
          PROVE  host[i].depth \in 1..d /\ AtSys(callStack'[host[i].depth])
      <4>1. host[i].depth \in 1..Depth /\ AtSys(callStack[host[i].depth])
        BY <1>1, <3>1 DEF VMInv, HostShape
      <4>2. i = Len(host) \/ host[i].depth < d
        BY <1>2
      <4>3. host[i].depth \in 1..d
        BY <1>2, <4>1, <4>2
      <4> QED
        BY <2>2, <4>1, <4>3
    <3> QED
      BY <1>1, <2>3, <3>1 DEF VMInv, HostShape, AtSys
  <2>6. StatusShape'
    BY <1>1, <1>2, <2>1, <2>3 DEF StatusShape, InExecute, InSys, NestOpen
  <2>7. Depth' \in Nat /\ Depth' >= d
    BY <1>2, <2>3
  <2>8. NativeInv'
    BY <1>1, <1>2, <2>2, <2>7, SysStep
  <2> QED
    BY <1>1, <2>1, <2>2, <2>4, <2>5, <2>6, <2>8 DEF VMInv, Statuses
<1>5. CASE \E f \in Fn : SysNest(f)
  <2>1. PICK f \in Fn : SysNest(f)
    BY <1>5
  <2>2. /\ callStack' = callStack \o <<Marker, Entry(f)>> /\ status' = "prepared"
        /\ FlagsOK' /\ d = Depth
    BY <1>1, <1>2, <2>1 DEF SysNest, FlagsOK, Flags, NestOpen
  <2>3. /\ callStack' \in Seq(Frames) /\ Len(callStack') = Depth + 2
        /\ \A j \in 1..Depth : callStack'[j] = callStack[j]
        /\ callStack'[Depth + 1] = Marker /\ callStack'[Depth + 2] = Entry(f)
    <3> DEFINE t == <<Marker, Entry(f)>>
    <3>1. /\ t \in Seq(Frames) /\ Len(t) = 2 /\ t[1] = Marker /\ t[2] = Entry(f)
      BY MarkerFacts, EntryFacts
    <3> HIDE DEF t
    <3>2. callStack' = callStack \o t /\ Len(callStack) = Depth
      BY <2>2 DEF t, Depth
    <3>3. /\ callStack' \in Seq(Frames) /\ Len(callStack') = Len(callStack) + Len(t)
          /\ \A j \in 1..Len(callStack) + Len(t) :
                callStack'[j] = IF j <= Len(callStack) THEN callStack[j]
                                ELSE t[j - Len(callStack)]
      BY <1>2, <3>1, <3>2, ConcatProperties
    <3>4. callStack'[Depth + 1] = t[1] /\ callStack'[Depth + 2] = t[2]
      <4>1. /\ Depth + 1 \in 1..Depth + 2 /\ Depth + 2 \in 1..Depth + 2
            /\ ~(Depth + 1 <= Depth) /\ ~(Depth + 2 <= Depth)
            /\ (Depth + 1) - Depth = 1 /\ (Depth + 2) - Depth = 2
        BY <1>2
      <4> QED
        BY <3>1, <3>2, <3>3, <4>1
    <3> QED
      BY <1>2, <3>1, <3>2, <3>3, <3>4
  <2>4. Depth' = Depth + 2
    BY <2>3 DEF Depth
  <2>5. StackShape'
    <3>1. SUFFICES ASSUME NEW j \in 1..Depth + 2
                   PROVE  /\ callStack'[j].fn # NoFn =>
                               callStack'[j].pc \in 1..Len(Code[callStack'[j].fn])
                          /\ callStack'[j].fn = NoFn <=>
                               \E i \in 1..Len(host) :
                                  host[i].kind = "sys" /\ j = host[i].depth + 1
      BY <1>1, <2>4 DEF StackShape
    <3>2. CASE j \in 1..Depth
      BY <1>1, <2>3, <3>2 DEF VMInv, StackShape
    <3>3. CASE j = Depth + 1
      <4>1. Len(host) \in 1..Len(host) /\ j = host[Len(host)].depth + 1
        BY <1>2, <2>2, <3>3
      <4>2. callStack'[j].fn = NoFn
        BY <2>3, <3>3, MarkerFacts
      <4> QED
        BY <1>2, <4>1, <4>2
    <3>4. CASE j = Depth + 2
      <4>1. Live(callStack'[j])
        BY <2>3, <3>4, EntryFacts
      <4>2. ASSUME NEW i \in 1..Len(host) PROVE j # host[i].depth + 1
        <5>1. i = Len(host) \/ host[i].depth < d
          BY <1>2
        <5> QED
          BY <1>2, <2>2, <3>4, <5>1
      <4> QED
        BY <4>1, <4>2 DEF Live
    <3> QED
      BY <1>2, <3>2, <3>3, <3>4
  <2>6. HostShape'
    <3>1. ASSUME NEW i \in 1..Len(host), host[i].kind = "sys"
          PROVE  host[i].depth \in 1..Depth' /\ AtSys(callStack'[host[i].depth])
      <4>1. host[i].depth \in 1..Depth /\ AtSys(callStack[host[i].depth])
        BY <1>1, <3>1 DEF VMInv, HostShape
      <4> QED
        BY <1>2, <2>3, <2>4, <4>1
    <3> QED
      BY <1>1, <3>1 DEF VMInv, HostShape, AtSys
  <2>7. StatusShape'
    BY <1>1, <1>2, <2>2, <2>4 DEF StatusShape, LiveAbove, InExecute, InSys, NestOpen
  <2>8. Depth' \in Nat /\ Depth' >= d /\ \A j \in 1..d : callStack'[j] = callStack[j]
    BY <1>2, <2>2, <2>3, <2>4
  <2>9. NativeInv'
    BY <1>1, <1>2, <2>8, SysStep
  <2> QED
    BY <1>1, <2>2, <2>3, <2>5, <2>6, <2>7, <2>9 DEF VMInv, Statuses
<1> QED
  BY <1>3, <1>4, <1>5 DEF InSystemCall

-----------------------------------------------------------------------------
(* Execute and the application.                                            *)

LEMMA ExecutePreserves ==
    ASSUME InductiveInv, Execute, UNCHANGED native
    PROVE  CoreInv' /\ (host' # <<>> => Last(host').kind = "exec")
<1> USE DEF CoreInv
<1> DEFINE x == [kind |-> "exec", depth |-> Base(callStack)]
<1>1. /\ VMInv /\ NativeInv /\ FlagsOK /\ FlagsOK' /\ callStack' = callStack
      /\ host = <<>> \/ (InSys /\ NestOpen)
      /\ status \in {"prepared", "suspended"}
      /\ host' = Append(host, x) /\ status' \in {"active", "suspended"}
      /\ host \in Seq(HostAct) /\ native' = native
  BY InvHalves DEF Execute, FlagsOK, Flags, VMInv
<1>2. /\ VMInv' /\ Len(host') = Len(host) + 1
      /\ \A i \in 1..Len(host) : host'[i] = host[i]
  BY <1>1, EnterExecuteStep
<1>3. Last(host').kind = "exec"
  <2>1. host'[Len(host) + 1] = x
    <3>1. Len(host) \in Nat
      BY <1>1, HostFacts
    <3> QED
      BY <1>1, <1>2, <3>1
  <2> QED
    BY <1>2, <2>1 DEF Last
<1>4. NativeInv'
  <2>1. CASE host = <<>>
    BY <1>1, <2>1, NoHostNoNative, NoNative
  <2>2. CASE InSys /\ NestOpen
    <3>1. /\ Len(host) \in Nat /\ Depth \in Nat /\ Last(host).depth \in 1..Depth
          /\ Depth' = Depth
      BY <1>1, <2>2, SysFacts DEF Depth
    <3>2. PICK L \in Nat : L = Len(host)
      BY <3>1
    <3>3. /\ Depth' \in Nat /\ Depth' >= Last(host).depth
          /\ \A j \in 1..Last(host).depth : callStack'[j] = callStack[j]
          /\ L = Len(host) /\ Len(host') = L + 1
          /\ \A i \in 1..L : host'[i] = host[i]
      BY <1>1, <1>2, <3>1, <3>2
    <3> QED
      BY <1>1, <2>2, <3>3, SysStep
  <2> QED
    BY <1>1, <2>1, <2>2
<1> QED
  BY <1>1, <1>2, <1>3, <1>4

LEMMA CatchPreserves ==
    ASSUME InductiveInv, Catch, ~InNative, UNCHANGED native
    PROVE  CoreInv'
<1> USE DEF CoreInv
<1>1. /\ VMInv /\ NativeInv /\ FlagsOK /\ FlagsOK' /\ native' = native
      /\ InExecute /\ status # "finished" /\ host' = host
      /\ callStack' = Unwound(callStack) /\ status' = "active"
  BY InvHalves DEF Catch, FlagsOK, Flags
<1>2. /\ VMInv' /\ Depth' \in Nat /\ Depth' > Last(host).depth
      /\ \A j \in 1..Last(host).depth : callStack'[j] = callStack[j]
      /\ Last(host).depth \in Nat
  BY <1>1, UnwindStep, ExecuteFacts
<1>3. Depth' >= Last(host).depth
  BY <1>2
<1>4. NativeInv'
  BY <1>1, <1>2, <1>3, InterpreterStep
<1> QED
  BY <1>1, <1>2, <1>4

LEMMA DonePreserves ==
    ASSUME InductiveInv, Done, ~InNative, UNCHANGED native
    PROVE  CoreInv' /\ (InSys' => NestOpen')
<1> USE DEF CoreInv
<1> DEFINE d == Last(host).depth
<1>1. /\ VMInv /\ NativeInv /\ FlagsOK /\ FlagsOK' /\ native' = native
      /\ InExecute /\ host' = Front(host) /\ status' = status
      /\ status \in {"finished", "suspended", "exception"}
      /\ callStack' = callStack
         \/ (status = "exception" /\ callStack' = Unwound(callStack))
  BY InvHalves DEF Done, FlagsOK
<1>2. /\ d \in Nat /\ d \in 0..Depth /\ Depth \in Nat
      /\ callStack \in Seq(Frames) /\ Len(host) \in Nat /\ Len(host) > 0
      /\ d > 0 => callStack[d].fn = NoFn
      /\ \A j \in d + 1..Depth : Live(callStack[j])
  BY <1>1, ExecuteFacts, HostFacts DEF VMInv
<1>3. /\ callStack' \in Seq(Frames)
      /\ \A j \in 1..d : callStack'[j] = callStack[j]
      /\ \A j \in d + 1..Len(callStack') : Live(callStack'[j])
      /\ \/ status' = "finished" /\ Len(callStack') = d
         \/ status' \in {"suspended", "exception"} /\ Len(callStack') > d
  <2>1. CASE callStack' = callStack
    BY <1>1, <1>2, <2>1 DEF VMInv, StatusShape, LiveAbove, Depth
  <2>2. CASE status = "exception" /\ callStack' = Unwound(callStack)
    <3>1. d < Len(callStack)
      BY <1>1, <2>2, ExecuteFacts DEF Depth
    <3>2. /\ callStack' \in Seq(Frames)
          /\ Len(callStack') \in d + 1..Len(callStack)
          /\ \A j \in 1..Len(callStack') - 1 : callStack'[j] = callStack[j]
          /\ Live(callStack'[Len(callStack')])
      BY <1>2, <2>2, <3>1, UnwoundFacts DEF Depth
    <3> QED
      BY <1>1, <1>2, <2>2, <3>2 DEF Depth
  <2> QED
    BY <1>1, <2>1, <2>2
<1>4. VMInv' /\ KeepsHost(Len(host) - 1) /\ (InSys' => NestOpen')
  BY <1>1, <1>3, LeaveExecuteStep
<1>5. ASSUME NEW i \in 1..Len(native)
      PROVE  ActivationShape(i)' /\ native[i].level < Len(host) - 1
  <2>1. /\ ActivationShape(i) /\ native[i].depth < d
        /\ native[i].level < Len(host) - 1 /\ native[i].level \in 1..Len(host)
        /\ native[i].depth \in Nat
    BY <1>1, InterpreterFacts, NativeFacts DEF NativeInv, ActivationShape
  <2>2. host[native[i].level].depth < native[i].depth
        /\ host[native[i].level].depth \in Nat
    BY <1>1, <2>1, HostFacts DEF ActivationShape
  <2>3. native[i].depth \in 1..d - 1
    BY <1>2, <2>1, <2>2, Between, Zenon
  <2>4. /\ native[i].level \in 1..Len(host) - 1
        /\ native[i].level + 1 \in 1..Len(host) - 1
        /\ native[i].level < Len(host) /\ Len(host') = Len(host) - 1
        /\ \A k \in 1..Len(host) - 1 : host'[k] = host[k]
    BY <1>2, <1>4, <2>1, SMTT(30) DEF KeepsHost
  <2>5. /\ host'[native[i].level] = host[native[i].level]
        /\ host'[native[i].level + 1] = host[native[i].level + 1]
        /\ native[i].level \in 1..Len(host')
    BY <2>4, Zenon
  <2>6. /\ callStack'[native[i].depth] = callStack[native[i].depth]
        /\ native[i].depth <= Depth'
    <3>1. Depth' \in Nat /\ Depth' >= d
      BY <1>2, <1>3, LenProperties DEF Depth
    <3>2. native[i].depth \in 1..d /\ native[i].depth <= Depth'
      BY <1>2, <2>3, <3>1
    <3> QED
      BY <1>3, <3>2
  <2>7. IsLead(i)' = IsLead(i)
    BY <1>1 DEF IsLead
  <2> QED
    BY <1>1, <2>1, <2>4, <2>5, <2>6, <2>7 DEF ActivationShape, OwnFrame
<1>6. StacksAligned'
  <2>1. \A i, j \in 1..Len(native') :
            i < j => Before(native'[i], native'[j], j = i + 1)
    BY <1>1, AlignedFacts
  <2> QED
    BY <1>1, <1>5, <2>1, AlignedStep
<1>7. ~InNative'
  <2>1. SUFFICES ASSUME native # <<>>
                 PROVE  native[Len(native)].level # Len(host')
    BY <1>1 DEF InNative, Top, Last
  <2>2. Len(native) \in 1..Len(native) /\ native[Len(native)].level \in Nat
    BY <1>1, <2>1, NativeFacts
  <2>3. Len(host') = Len(host) - 1 /\ native[Len(native)].level < Len(host) - 1
    BY <1>4, <1>5, <2>2 DEF KeepsHost
  <2> QED
    BY <1>2, <2>2, <2>3
<1>8. NativeInv'
  BY <1>1, <1>5, <1>6, <1>7 DEF NativeInv, RunsInOwnFrame, CatchesHere, InJit
<1> QED
  BY <1>1, <1>4, <1>8

LEMMA ApplicationPreserves ==
    ASSUME InductiveInv, RequestSuspend \/ (\E f \in Fn : Prepare(f)),
           UNCHANGED native
    PROVE  CoreInv'
<1> USE DEF CoreInv
<1>1. VMInv /\ NativeInv /\ FlagsOK /\ native' = native
  BY InvHalves
<1>2. CASE RequestSuspend
  <2>1. /\ host' = host /\ callStack' = callStack /\ status' = status
        /\ FlagsOK' /\ willBeCaught' = willBeCaught
    BY <1>1, <1>2 DEF RequestSuspend, FlagsOK
  <2>2. Depth' = Depth /\ Current' = Current
    BY <2>1 DEF Depth, Current
  <2>3. StackShape' /\ HostShape'
    BY <1>1, <2>1, <2>2 DEF VMInv, StackShape, HostShape
  <2>4. StatusShape'
    BY <1>1, <2>1, <2>2
       DEF VMInv, StatusShape, LiveAbove, InExecute, InSys, NestOpen
  <2>5. StacksAligned' /\ RunsInOwnFrame' /\ CatchesHere'
    BY <1>1, <2>1, <2>2
       DEF NativeInv, StacksAligned, RunsInOwnFrame, CatchesHere, InJit, InNative, Top
  <2>6. \A i \in 1..Len(native) : ActivationShape(i)'
    BY <1>1, <2>1, <2>2 DEF NativeInv, ActivationShape, OwnFrame, IsLead
  <2> QED
    BY <1>1, <2>1, <2>3, <2>4, <2>5, <2>6 DEF VMInv, NativeInv
<1>3. CASE \E f \in Fn : Prepare(f)
  <2>1. PICK f \in Fn : Prepare(f)
    BY <1>3
  <2>2. /\ host = <<>> /\ host' = <<>> /\ callStack' = <<Entry(f)>>
        /\ status' = "prepared" /\ FlagsOK'
    BY <1>1, <2>1 DEF Prepare, FlagsOK, Flags
  <2>3. NativeInv'
    BY <1>1, <2>2, NoHostNoNative, NoNative
  <2>4. /\ callStack' \in Seq(Frames) /\ Len(callStack') = 1
        /\ callStack'[1] = Entry(f) /\ Live(Entry(f))
    BY <2>2, EntryFacts
  <2>5. Depth' = 1 /\ Len(host') = 0 /\ host' \in Seq(HostAct)
    BY <2>2, <2>4, EmptySeq DEF Depth
  <2>6. StackShape' /\ HostShape' /\ StatusShape'
    BY <2>2, <2>4, <2>5
       DEF StackShape, HostShape, StatusShape, LiveAbove, InExecute, InSys, Live
  <2> QED
    BY <2>2, <2>3, <2>4, <2>5, <2>6 DEF VMInv, Statuses
<1> QED
  BY <1>2, <1>3

-----------------------------------------------------------------------------
(* Inlined bodies.                                                         *)

LEMMA SameCore ==
    ASSUME CoreInv, UNCHANGED <<native, vmVars>>
    PROVE  CoreInv'
<1>1. native' = native /\ UNCHANGED vmVars
  OBVIOUS
<1>2. VMInv' /\ FlagsOK' /\ Depth' = Depth /\ Current' = Current
  BY <1>1, SameVM DEF CoreInv
<1>3. host' = host /\ callStack' = callStack /\ status' = status
      /\ willBeCaught' = willBeCaught
  BY <1>1 DEF vmVars
<1>4. StacksAligned' /\ RunsInOwnFrame' /\ CatchesHere'
  BY <1>1, <1>2, <1>3
     DEF CoreInv, NativeInv, StacksAligned, RunsInOwnFrame, CatchesHere, InJit,
         InNative, Top
<1>5. \A i \in 1..Len(native) : ActivationShape(i)'
  BY <1>1, <1>2, <1>3 DEF CoreInv, NativeInv, ActivationShape, OwnFrame, IsLead
<1> QED
  BY <1>1, <1>2, <1>4, <1>5 DEF CoreInv, NativeInv

\* Where generated code is while it is in a body, and where the body is.
LEMMA BodyFacts ==
    ASSUME InductiveInv, body # <<>>
    PROVE  /\ CoreInv /\ InJit("run") /\ I.op \in ScriptCalls /\ I.op # "ret"
           /\ body \in Seq(Frame) /\ Len(body) \in Nat /\ Len(body) > 0
           /\ body[1].fn = I.fn
           /\ \A i \in 1..Len(body) :
                /\ body[i] \in Frame /\ body[i].fn \in Inlined
                /\ body[i].pc \in 1..Len(Code[body[i].fn])
           /\ Body = body[Len(body)] /\ Body \in Frame /\ Body.fn \in Inlined
           /\ J.op # "ret" => Body.pc + 1 \in 1..Len(Code[Body.fn])
           /\ J.op = "br" => J.to \in 1..Len(Code[Body.fn])
           /\ J.op = "call" => J.fn \in Inlined
<1>1. CoreInv /\ body \in Seq(Frame) /\ BodyShape
  BY InvHalves DEF BodyOK
<1>2. InJit("run") /\ I.op \in ScriptCalls /\ I.op # "ret" /\ body[1].fn = I.fn
  BY <1>1 DEF BodyShape, ScriptCalls
<1>3. Len(body) \in Nat /\ Len(body) > 0
  BY <1>1, EmptySeq, LenProperties
<1>4. \A i \in 1..Len(body) :
        /\ body[i] \in Frame /\ body[i].fn \in Inlined
        /\ body[i].pc \in 1..Len(Code[body[i].fn])
  BY <1>1, ElementOfSeq DEF BodyShape
<1>5. Body = body[Len(body)]
  BY DEF Body, Last
<1>6. Body \in Frame /\ Body.fn \in Inlined /\ Body.pc \in 1..Len(Code[Body.fn])
  BY <1>3, <1>4, <1>5
<1>7. Body.fn \in Fn
  BY <1>6 DEF Frame
<1>8. J.op # "ret" => Body.pc + 1 \in 1..Len(Code[Body.fn])
  BY <1>6, <1>7, CodeFacts DEF J
<1>9. J.op = "br" => J.to \in 1..Len(Code[Body.fn])
  BY <1>6, <1>7, CodeFacts DEF J
<1>10. J.op = "call" => J.fn \in Inlined
  BY <1>6, InlineAssumption DEF J
<1> QED
  BY <1>1, <1>2, <1>3, <1>4, <1>5, <1>6, <1>8, <1>9, <1>10

\* The body takes another position.
LEMMA BodyAtFacts ==
    ASSUME InductiveInv, body # <<>>, NEW p \in 1..Len(Code[Body.fn])
    PROVE  /\ BodyAt(p) \in Seq(Frame) /\ Len(BodyAt(p)) = Len(body)
           /\ BodyAt(p)[1].fn = I.fn
           /\ \A i \in 1..Len(body) :
                /\ BodyAt(p)[i].fn \in Inlined
                /\ BodyAt(p)[i].pc \in 1..Len(Code[BodyAt(p)[i].fn])
<1> DEFINE e == [Body EXCEPT !.pc = p]
<1>1. /\ body \in Seq(Frame) /\ Len(body) \in Nat /\ Len(body) > 0
      /\ body[1].fn = I.fn
      /\ \A i \in 1..Len(body) :
            /\ body[i].fn \in Inlined
            /\ body[i].pc \in 1..Len(Code[body[i].fn])
      /\ Body = body[Len(body)] /\ Body \in Frame /\ Body.fn \in Inlined
  BY BodyFacts
<1>2. p \in Nat
  <2>1. Body.fn \in Fn
    BY <1>1 DEF Frame
  <2> QED
    BY <2>1, CodeFacts
<1>3. e \in Frame /\ e.fn = Body.fn /\ e.pc = p
  BY <1>1, <1>2 DEF Frame
<1>4. BodyAt(p) = [body EXCEPT ![Len(body)] = e]
  BY <1>1 DEF BodyAt
<1> HIDE DEF e
<1>5. /\ BodyAt(p) \in Seq(Frame)
      /\ Len(BodyAt(p)) = Len(body)
      /\ \A j \in 1..Len(body) :
            BodyAt(p)[j] = IF j = Len(body) THEN e ELSE body[j]
  BY <1>1, <1>3, <1>4, ExceptSeq
<1>6. \A i \in 1..Len(body) :
        /\ BodyAt(p)[i].fn = body[i].fn
        /\ BodyAt(p)[i].pc \in 1..Len(Code[BodyAt(p)[i].fn])
  BY <1>1, <1>3, <1>5
<1> QED
  BY <1>1, <1>5, <1>6

\* While it is, nothing else moves but a request to suspend.
LEMMA BodyWaits ==
    ASSUME InductiveInv, body # <<>>
    PROVE  ~Plain /\ ~Execute /\ ~\E f \in Fn : Prepare(f)
<1>1. VMInv /\ NativeInv /\ InJit("run")
  BY BodyFacts DEF CoreInv
<1>2. /\ InNative /\ Top.kind = "jit" /\ Top.state = "run"
      /\ InExecute /\ host # <<>> /\ ~InSys
  BY <1>1, InJitFacts DEF InExecute, InSys
<1>3. ~InJit("catch") /\ ~InJit("wait") /\ ~InChain
  BY <1>2 DEF InJit, InChain
<1>4. ~Native
  BY <1>3
     DEF Native, NativeStep, NativeBranch, NativeThrow, NativeCatch,
         NativeSuspend, NativeRet, NativeCallSys, NativeThiscallNull,
         CallNative, FastCallSimpleScript, CallScript, CallFunctionPointer,
         CallFunctionPointerNull, AfterCall, ChainEnter, ChainReturn, InJitAt
<1>5. ~Plain
  BY <1>2, <1>4
     DEF Plain, JitEntry, InterpretStep, NativeSysReturn, NativeBoundReturn,
         InterpretedSysReturn, SysReturn, InSystemCall, SysRaise, SysPop, SysNest
<1> QED
  BY <1>2, <1>5 DEF Execute, Prepare

LEMMA InlinedRetPreserves ==
    ASSUME InductiveInv, InlinedRet
    PROVE  CoreInv'
<1>1. /\ CoreInv /\ InJit("run") /\ I.op # "ret"
      /\ UNCHANGED vmVars /\ (GoTo(Top.at + 1) \/ UNCHANGED native)
  BY BodyFacts DEF InlinedRet, InBodyAt
<1>2. CASE UNCHANGED native
  BY <1>1, <1>2, SameCore
<1>3. CASE GoTo(Top.at + 1)
  <2>1. Top.at + 1 \in 1..Len(Code[Top.fn]) /\ status = "active"
    BY <1>1, InJitFacts DEF CoreInv
  <2>2. VMInv' /\ FlagsOK' /\ Depth' = Depth /\ Current' = Current
    BY <1>1, SameVM DEF CoreInv
  <2>3. NativeInv'
    BY <1>1, <1>3, <2>1, <2>2, GoOnStep DEF vmVars, CoreInv
  <2> QED
    BY <2>2, <2>3 DEF CoreInv
<1> QED
  BY <1>1, <1>2, <1>3

LEMMA InlinedBodyPreserves ==
    ASSUME InductiveInv, InlinedBody
    PROVE  CoreInv'
<1>1. CASE CallInlined \/ InlinedStep \/ InlinedBranch \/ InlinedCall
  <2>1. CoreInv /\ UNCHANGED <<native, vmVars>>
    BY <1>1, InvHalves DEF CallInlined, InlinedStep, InlinedBranch, InlinedCall
  <2> QED
    BY <2>1, SameCore
<1>2. CASE InlinedRet
  BY <1>2, InlinedRetPreserves
<1>3. CASE InlinedSlow
  <2>1. /\ CoreInv /\ InJit("run") /\ I.op # "ret"
        /\ (CallScriptFunctionHere \/ CallPointerHere)
    BY <1>3, BodyFacts DEF InlinedSlow, InBodyAt
  <2> QED
    BY <2>1, CallHerePreserves
<1> QED
  BY <1>1, <1>2, <1>3 DEF InlinedBody

\* The bodies stay those of the call that generated code is at: a body moves
\* inside its function and calls inlined functions only.
LEMMA BodyPreserved ==
    ASSUME InductiveInv, [JitNext]_vars
    PROVE  BodyOK'
<1>1. CASE body' = <<>>
  <2>1. Len(body') = 0 /\ body' \in Seq(Frame)
    BY <1>1, EmptySeq
  <2> QED
    BY <1>1, <2>1 DEF BodyOK, BodyShape
<1>2. ASSUME InJit("run"), I.op \in ScriptCalls, native' = native, host' = host,
             NEW s \in Seq(Frame), body' = s, s[1].fn = I.fn,
             \A i \in 1..Len(s) :
                s[i].fn \in Inlined /\ s[i].pc \in 1..Len(Code[s[i].fn])
      PROVE  BodyOK'
  <2>1. Top' = Top /\ I' = I /\ InJit("run")'
    BY <1>2 DEF Top, I, InJit, InNative
  <2> QED
    BY <1>2, <2>1 DEF BodyOK, BodyShape
<1>3. CASE body' = body /\ body # <<>>
  <2>1. /\ InJit("run") /\ I.op \in ScriptCalls /\ body[1].fn = I.fn
        /\ body \in Seq(Frame)
        /\ \A i \in 1..Len(body) :
              body[i].fn \in Inlined /\ body[i].pc \in 1..Len(Code[body[i].fn])
    BY <1>3, BodyFacts
  <2>2. CASE InlinedBody
    <3>1. BodyOK' \/ (native' = native /\ host' = host)
      <4>1. CASE InlinedRet
        <5>1. Len(Front(body)) # Len(body)
          BY <1>3, <2>1, BodyFacts, FrontFacts
        <5> QED
          BY <1>3, <4>1, <5>1 DEF InlinedRet
      <4>2. CASE InlinedSlow
        BY <1>3, <4>2 DEF InlinedSlow
      <4> QED
        BY <2>2, <4>1, <4>2
           DEF InlinedBody, CallInlined, InlinedStep, InlinedBranch, InlinedCall,
               vmVars
    <3> QED
      BY <1>2, <1>3, <2>1, <3>1
  <2>3. CASE ~InlinedBody
    <3>1. native' = native /\ host' = host
      BY <1>3, <2>3, BodyWaits
         DEF JitNext, Run, Application, RequestSuspend, vars, vmVars
    <3> QED
      BY <1>2, <1>3, <2>1, <3>1
  <2> QED
    BY <2>2, <2>3
<1>4. CASE CallInlined
  <2>1. /\ InJit("run") /\ I.op \in ScriptCalls /\ I.fn \in Inlined
        /\ body' = <<Entry(I.fn)>> /\ native' = native /\ host' = host
    BY <1>4 DEF CallInlined, InJitAt, vmVars
  <2>2. I.fn \in Fn /\ 1 \in 1..Len(Code[I.fn])
    BY <2>1, CodeFacts, InlineAssumption
  <2>3. Entry(I.fn) \in Frame /\ Entry(I.fn).fn = I.fn /\ Entry(I.fn).pc = 1
    BY <2>2 DEF Entry, Frame
  <2>4. PICK e \in Frame : e = Entry(I.fn)
    BY <2>3
  <2>5. <<e>> \in Seq(Frame) /\ Len(<<e>>) = 1 /\ <<e>>[1] = e
    OBVIOUS
  <2>6. PICK s \in Seq(Frame) : s = <<e>> /\ Len(s) = 1 /\ s[1] = e
    BY <2>5
  <2>7. /\ body' = s /\ s[1].fn = I.fn
        /\ \A i \in 1..Len(s) :
              s[i].fn \in Inlined /\ s[i].pc \in 1..Len(Code[s[i].fn])
    BY <2>1, <2>2, <2>3, <2>4, <2>6
  <2> QED
    BY <1>2, <2>1, <2>7
<1>5. CASE InlinedStep \/ InlinedBranch
  <2>1. /\ body # <<>> /\ native' = native /\ host' = host /\ J.op # "ret"
        /\ \E p \in {Body.pc + 1, J.to} :
              body' = BodyAt(p) /\ (p = Body.pc + 1 \/ J.op = "br")
    BY <1>5 DEF InlinedStep, InlinedBranch, InBodyAt, vmVars
  <2>2. PICK p \in 1..Len(Code[Body.fn]) : body' = BodyAt(p)
    BY <2>1, BodyFacts
  <2> QED
    BY <1>2, <2>1, <2>2, BodyFacts, BodyAtFacts
<1>6. CASE InlinedCall
  <2>1. /\ body # <<>> /\ native' = native /\ host' = host /\ J.op = "call"
        /\ body' = Append(BodyAt(Body.pc + 1), Entry(J.fn))
    BY <1>6 DEF InlinedCall, InBodyAt, vmVars
  <2>2. /\ InJit("run") /\ I.op \in ScriptCalls /\ J.fn \in Inlined
        /\ Len(body) \in Nat /\ Len(body) > 0
        /\ Body.pc + 1 \in 1..Len(Code[Body.fn])
    BY <2>1, BodyFacts
  <2>3. PICK s : s = BodyAt(Body.pc + 1)
    OBVIOUS
  <2>4. /\ s \in Seq(Frame) /\ Len(s) = Len(body) /\ s[1].fn = I.fn
        /\ \A i \in 1..Len(body) :
              s[i].fn \in Inlined /\ s[i].pc \in 1..Len(Code[s[i].fn])
    BY <2>1, <2>2, <2>3, BodyAtFacts
  <2>5. J.fn \in Fn /\ 1 \in 1..Len(Code[J.fn])
    BY <2>2, CodeFacts, InlineAssumption
  <2>0. Entry(J.fn) \in Frame /\ Entry(J.fn).fn = J.fn /\ Entry(J.fn).pc = 1
    BY <2>5 DEF Entry, Frame
  <2>6. PICK e \in Frame : e = Entry(J.fn) /\ e.fn = J.fn /\ e.pc = 1
    BY <2>0
  <2>7. /\ Append(s, e) \in Seq(Frame) /\ Len(Append(s, e)) = Len(s) + 1
        /\ \A i \in 1..Len(s) : Append(s, e)[i] = s[i]
        /\ Append(s, e)[Len(s) + 1] = e
    BY <2>4, AppendProperties
  <2>8. PICK t \in Seq(Frame) : t = Append(s, e)
    BY <2>7
  <2>9. /\ body' = t /\ t[1].fn = I.fn
        /\ \A i \in 1..Len(t) :
              t[i].fn \in Inlined /\ t[i].pc \in 1..Len(Code[t[i].fn])
    BY <2>1, <2>2, <2>3, <2>4, <2>5, <2>6, <2>7, <2>8
  <2> QED
    BY <1>2, <2>1, <2>2, <2>9
<1>7. CASE InlinedRet /\ body' # <<>>
  <2>1. body # <<>> /\ body' = Front(body) /\ UNCHANGED vmVars
    BY <1>7 DEF InlinedRet, InBodyAt
  <2>2. /\ InJit("run") /\ I.op \in ScriptCalls /\ body \in Seq(Frame)
        /\ Len(body) \in Nat /\ body[1].fn = I.fn
        /\ \A i \in 1..Len(body) :
              body[i].fn \in Inlined /\ body[i].pc \in 1..Len(Code[body[i].fn])
    BY <2>1, BodyFacts
  <2>3. PICK s \in Seq(Frame) :
          /\ s = Front(body) /\ Len(s) = Len(body) - 1
          /\ \A i \in 1..Len(body) - 1 : s[i] = body[i]
    BY <2>1, <2>2, FrontFacts
  <2>4. Len(s) > 0
    BY <1>7, <2>1, <2>3, EmptySeq
  <2>5. native' = native
    BY <1>7, <2>2, <2>3, <2>4 DEF InlinedRet
  <2>6. /\ s[1].fn = I.fn /\ body' = s
        /\ \A i \in 1..Len(s) :
              s[i].fn \in Inlined /\ s[i].pc \in 1..Len(Code[s[i].fn])
    BY <2>1, <2>2, <2>3, <2>4
  <2> QED
    BY <1>2, <2>1, <2>2, <2>5, <2>6 DEF vmVars
<1>8. CASE InlinedSlow
  BY <1>1, <1>8 DEF InlinedSlow
<1>9. CASE InlinedBody
  BY <1>1, <1>4, <1>5, <1>6, <1>7, <1>8, <1>9 DEF InlinedBody
<1>10. CASE ~InlinedBody
  <2>1. body' = body
    BY <1>10 DEF JitNext, Run, Application, vars
  <2> QED
    BY <1>1, <1>3, <2>1
<1> QED
  BY <1>9, <1>10

-----------------------------------------------------------------------------
(* The invariant.                                                          *)

LEMMA InitHolds ==
    ASSUME JitInit
    PROVE  InductiveInv
<1>1. /\ host = <<>> /\ callStack = <<>> /\ native = <<>>
      /\ status = "uninitialized"
      /\ doProcessSuspend = FALSE /\ doSuspend = FALSE /\ willBeCaught = FALSE
  BY DEF JitInit, Init
<1>6. BodyOK
  BY EmptySeq DEF JitInit, BodyOK, BodyShape
<1>2. /\ Len(host) = 0 /\ Len(native) = 0 /\ Depth = 0
      /\ host \in Seq(HostAct) /\ callStack \in Seq(Frames)
      /\ native \in Seq(Activation)
  BY <1>1, EmptySeq DEF Depth
<1>3. StackShape /\ HostShape /\ StatusShape
  BY <1>1, <1>2 DEF StackShape, HostShape, StatusShape, InExecute, InSys
<1>4. NativeInv
  BY <1>1, <1>2
     DEF NativeInv, StacksAligned, RunsInOwnFrame, CatchesHere, InJit, InNative
<1>5. ExceptionIsFlagged
  BY <1>1 DEF ExceptionIsFlagged
<1> QED
  BY <1>1, <1>2, <1>3, <1>4, <1>5, <1>6, InvHalves
     DEF CoreInv, VMInv, FlagsOK, Statuses

LEMMA CorePreserved ==
    ASSUME InductiveInv, [JitNext]_vars
    PROVE  CoreInv'
<1>1. CASE Native
  <2>1. CASE NativeStep \/ NativeBranch
    BY <2>1, NativeStepPreserves
  <2>2. CASE NativeThrow
    BY <2>2, NativeThrowPreserves
  <2>3. CASE NativeCatch
    BY <2>3, NativeCatchPreserves
  <2>4. CASE NativeSuspend
    BY <2>4, NativeSuspendPreserves
  <2>5. CASE NativeRet
    BY <2>5, NativeRetPreserves
  <2>6. CASE NativeCallSys
    BY <2>6, NativeCallSysPreserves
  <2>7. CASE CallNative
    BY <2>7, CallNativePreserves
  <2>8. CASE FastCallSimpleScript \/ CallScript \/ CallFunctionPointer
    BY <2>8, CallsPreserve
  <2>9. CASE CallFunctionPointerNull \/ NativeThiscallNull
    BY <2>9, CallNullPreserves
  <2>10. CASE AfterCall
    BY <2>10, AfterCallPreserves
  <2>11. CASE ChainEnter
    BY <2>11, ChainEnterPreserves
  <2>12. CASE ChainReturn
    BY <2>12, ChainReturnPreserves
  <2> QED
    BY <1>1, <2>1, <2>2, <2>3, <2>4, <2>5, <2>6, <2>7, <2>8, <2>9, <2>10,
       <2>11, <2>12 DEF Native
<1>2. CASE JitEntry
  BY <1>2, JitEntryPreserves
<1>3. CASE InterpretStep
  BY <1>3, InterpretPreserves
<1>4. CASE NativeSysReturn \/ NativeBoundReturn
  BY <1>4, NativeSysReturnPreserves
<1>5. CASE InterpretedSysReturn
  BY <1>5, InterpretedSysReturnPreserves
<1>6. CASE InSystemCall /\ UNCHANGED native
  BY <1>6, InSystemCallPreserves
<1>7. CASE Catch /\ ~InNative /\ UNCHANGED native
  BY <1>7, CatchPreserves
<1>8. CASE Done /\ ~InNative /\ UNCHANGED native
  BY <1>8, DonePreserves
<1>9. CASE Application
  <2>1. UNCHANGED native /\ (Execute \/ RequestSuspend \/ \E f \in Fn : Prepare(f))
    BY <1>9 DEF Application
  <2> QED
    BY <2>1, ExecutePreserves, ApplicationPreserves
<1>10. CASE UNCHANGED vars
  <2>1. CoreInv /\ UNCHANGED <<native, vmVars>>
    BY <1>10, InvHalves DEF vars
  <2> QED
    BY <2>1, SameCore
<1>11. CASE InlinedBody
  BY <1>11, InlinedBodyPreserves
<1> QED
  BY <1>1, <1>2, <1>3, <1>4, <1>5, <1>6, <1>7, <1>8, <1>9, <1>10, <1>11
     DEF JitNext, Run, Plain

\* Where an exception becomes pending, doProcessSuspend is set; where the flag
\* is cleared, no system function of an interrupted execution goes on at once.
LEMMA FlaggedPreserved ==
    ASSUME InductiveInv, [JitNext]_vars
    PROVE  ExceptionIsFlagged'
<1>1. SUFFICES ASSUME InSys', ~NestOpen', status' = "exception"
               PROVE  doProcessSuspend'
  BY DEF ExceptionIsFlagged
<1>2. VMInv /\ NativeInv /\ ExceptionIsFlagged /\ VMInv'
  BY InvHalves, CorePreserved DEF CoreInv
\* Either the C++ stack is as before, and Execute runs, or the step is by a
\* system function, the application or Execute itself.
<1>3. CASE host' = host /\ InExecute
  BY <1>1, <1>3 DEF InSys, InExecute
<1>4. CASE CallSys \/ NativeCallSys
  <2>1. status' = "active"
    <3>1. CASE CallSys
      BY <3>1 DEF CallSys, At, Running
    <3>2. CASE NativeCallSys
      BY <1>2, <3>2, InJitFacts DEF NativeCallSys, InJitAt
    <3> QED
      BY <1>4, <3>1, <3>2
  <2> QED
    BY <1>1, <2>1
<1>5. CASE InSys /\ ~NestOpen /\ host' = Front(host)
  <2>1. Len(host) \in Nat /\ Len(host) > 1 /\ host \in Seq(HostAct)
        /\ Last(host) = host[Len(host)] /\ Last(host).kind = "sys" /\ host # <<>>
    BY <1>2, <1>5, SysFacts DEF InSys, VMInv
  <2>2. /\ Len(host') = Len(host) - 1 /\ Len(host) - 1 \in 1..Len(host) - 1
        /\ host'[Len(host) - 1] = host[Len(host) - 1]
    BY <1>5, <2>1, FrontFacts
  <2>3. host[(Len(host) - 1) + 1].kind # host[Len(host) - 1].kind
    BY <1>2, <2>2, HostOrder
  <2>4. Last(host').kind # "sys"
    BY <2>1, <2>2, <2>3 DEF Last
  <2> QED
    BY <1>1, <2>4 DEF InSys
<1>6. CASE InSystemCall
  BY <1>1, <1>6 DEF InSystemCall, SysRaise, SysPop, SysNest, Raise
<1>7. CASE Execute /\ UNCHANGED native
  BY <1>1, <1>7, ExecutePreserves DEF InSys
<1>8. CASE Done /\ ~InNative /\ UNCHANGED native
  BY <1>1, <1>8, DonePreserves
<1>9. CASE RequestSuspend
  BY <1>9 DEF RequestSuspend
<1>10. CASE \E f \in Fn : Prepare(f)
  BY <1>1, <1>10 DEF Prepare, InSys
<1>11. CASE UNCHANGED vmVars
  <2>1. Depth' = Depth
    BY <1>11 DEF vmVars, Depth
  <2> QED
    BY <1>1, <1>2, <1>11, <2>1 DEF ExceptionIsFlagged, vmVars, InSys, NestOpen
<1>12. \/ host' = host /\ InExecute
       \/ CallSys \/ NativeCallSys
       \/ InSys /\ ~NestOpen /\ host' = Front(host)
       \/ InSystemCall \/ (Execute /\ UNCHANGED native)
       \/ (Done /\ ~InNative /\ UNCHANGED native)
       \/ RequestSuspend \/ (\E f \in Fn : Prepare(f)) \/ UNCHANGED vmVars
  <2>1. CASE Native
    <3>1. CASE NativeCallSys \/ UNCHANGED vmVars
      BY <3>1
    <3>2. CASE ~NativeCallSys /\ ~UNCHANGED vmVars
      <4>1. \E st \in {"run", "catch"} : InJit(st) /\ host' = host
        BY <2>1, <3>2
           DEF Native, NativeStep, NativeBranch, NativeThrow, NativeCatch,
               NativeSuspend, NativeRet, CallNative, FastCallSimpleScript,
               CallScript, CallFunctionPointer, CallFunctionPointerNull,
               NativeThiscallNull, CallScriptFunctionHere, CallPointerHere,
               AfterCall, ChainEnter, ChainReturn, InJitAt
      <4> QED
        BY <1>2, <4>1, InNativeFacts DEF InJit
    <3> QED
      BY <3>1, <3>2
  <2>2. CASE InterpretStep
    BY <2>2
       DEF InterpretStep, Interpret, Step, Branch, Throw, SuspendPoint, Call,
           CallNull, ThiscallNull, Ret, At, Running
  <2>3. CASE JitEntry
    BY <2>3 DEF JitEntry
  <2>4. CASE NativeSysReturn \/ NativeBoundReturn \/ InterpretedSysReturn
    BY <2>4 DEF NativeSysReturn, NativeBoundReturn, InterpretedSysReturn, SysReturn
  <2>5. CASE (Catch \/ Done) /\ ~InNative /\ UNCHANGED native
    BY <2>5 DEF Catch
  <2>6. CASE UNCHANGED vars
    BY <2>6 DEF vars
  <2>7. CASE InlinedBody
    <3>1. CASE UNCHANGED vmVars
      BY <3>1
    <3>2. CASE ~UNCHANGED vmVars
      <4>1. InJit("run") /\ host' = host
        BY <2>7, <3>2
           DEF InlinedBody, CallInlined, InlinedStep, InlinedBranch, InlinedCall,
               InlinedRet, InlinedSlow, InBodyAt, CallScriptFunctionHere,
               CallPointerHere
      <4> QED
        BY <1>2, <4>1, InNativeFacts DEF InJit
    <3> QED
      BY <3>1, <3>2
  <2>8. CASE Application
    BY <2>8 DEF Application
  <2> QED
    BY <2>1, <2>2, <2>3, <2>4, <2>5, <2>6, <2>7, <2>8 DEF JitNext, Run, Plain
<1> QED
  BY <1>3, <1>4, <1>5, <1>6, <1>7, <1>8, <1>9, <1>10, <1>11, <1>12

\* The inductive invariant holds of every behaviour, for every script, every
\* set of compiled functions and every limit.
THEOREM Invariance == JitSpec => []InductiveInv
<1>1. JitInit => InductiveInv
  BY InitHolds
<1>2. InductiveInv /\ [JitNext]_vars => InductiveInv'
  <2>1. SUFFICES ASSUME InductiveInv, [JitNext]_vars PROVE InductiveInv'
    OBVIOUS
  <2>2. CoreInv' /\ ExceptionIsFlagged' /\ BodyOK'
    BY <2>1, CorePreserved, FlaggedPreserved, BodyPreserved
  <2> QED
    BY <2>2
       DEF InductiveInv, CoreInv, VMInv, NativeInv, FlagsOK, BodyOK, JitTypeOK,
           Frames, Statuses
<1> QED
  BY <1>1, <1>2, PTL DEF JitSpec

\* Type correctness.
THEOREM TypeCorrect == JitSpec => []JitTypeOK
<1>1. InductiveInv => JitTypeOK
  BY DEF InductiveInv
<1> QED
  BY <1>1, Invariance, PTL

\* After any mixture of returns, exceptions, suspensions and nested runs, the
\* frame each waiting caller will go on in is still there, at its position.
THEOREM WaitersKeep == JitSpec => []WaitersKeepFrames
<1>1. InductiveInv => WaitersKeepFrames
  BY DEF InductiveInv, WaitersKeepFrames, ActivationShape, OwnFrame
<1> QED
  BY <1>1, Invariance, PTL

\* Generated code runs only in its own frame and only while the context is
\* active.
THEOREM RunsInOwn == JitSpec => []RunsInOwnFrame
<1>1. InductiveInv => RunsInOwnFrame
  BY DEF InductiveInv
<1> QED
  BY <1>1, Invariance, PTL

\* The C++ activations stand for strictly deeper and deeper frames.
THEOREM Aligned == JitSpec => []StacksAligned
<1>1. InductiveInv => StacksAligned
  BY DEF InductiveInv
<1> QED
  BY <1>1, Invariance, PTL

\* An exception raised in a system function is seen by the caller, although a
\* nested Execute inside that function clears the flag the caller tests.
THEOREM Flagged == JitSpec => []ExceptionIsFlagged
<1>1. InductiveInv => ExceptionIsFlagged
  BY DEF InductiveInv
<1> QED
  BY <1>1, Invariance, PTL

-----------------------------------------------------------------------------
(* What a system function started leaves the frames under it alone.        *)

\* What a step under an Execute loop can make of the call stack.
StackStep ==
    \/ callStack' = callStack
    \/ /\ status # "finished"
       /\ \/ \E p : callStack' = AtPc(p)
          \/ \E p \in Nat : \E g : callStack' = Append(AtPc(p), Entry(g))
          \/ callStack' = Front(callStack)
          \/ callStack' = Unwound(callStack)

LEMMA InterpretStackStep ==
    ASSUME VMInv, Interpret
    PROVE  StackStep
<1>1. InExecute /\ status = "active"
  BY DEF Interpret, Step, Branch, Throw, SuspendPoint, Ret, Call, CallNull,
         CallSys, ThiscallNull, At, Running
<1>2. Current.pc \in Nat /\ Current.pc + 1 \in Nat
  BY <1>1, RunningFacts
<1>3. CASE Call
  BY <1>1, <1>2, <1>3 DEF Call, CallScriptFunction, Raise, StackStep
<1>4. CASE Ret
  BY <1>1, <1>4 DEF Ret, StackStep
<1>5. CASE ~Call /\ ~Ret
  BY <1>1, <1>5
     DEF Interpret, Step, Branch, Throw, SuspendPoint, CallNull, CallSys,
         ThiscallNull, Raise, StackStep
<1> QED
  BY <1>3, <1>4, <1>5

LEMMA CallHereStackStep ==
    ASSUME VMInv, NativeInv, InJit("run"), CallScriptFunctionHere \/ CallPointerHere
    PROVE  StackStep
<1>1. InJit("run") /\ status = "active" /\ Top.at + 1 \in Nat
  BY InJitFacts DEF Activation
<1>2. PICK room \in BOOLEAN : PrepareScriptCall(I.fn, room)
  BY DEF CallScriptFunctionHere, CallPointerHere
<1> QED
  BY <1>1, <1>2 DEF PrepareScriptCall, Raise, StackStep

LEMMA InlinedStackStep ==
    ASSUME VMInv, NativeInv, InlinedBody
    PROVE  InExecute /\ StackStep
<1>1. InJit("run")
  BY DEF InlinedBody, CallInlined, InlinedStep, InlinedBranch, InlinedCall,
         InlinedRet, InlinedSlow, InJitAt, InBodyAt
<1>2. InExecute
  BY <1>1, InJitFacts
<1>3. CASE InlinedSlow
  BY <1>1, <1>2, <1>3, CallHereStackStep DEF InlinedSlow
<1>4. CASE ~InlinedSlow
  BY <1>2, <1>4
     DEF InlinedBody, CallInlined, InlinedStep, InlinedBranch, InlinedCall,
         InlinedRet, vmVars, StackStep
<1> QED
  BY <1>2, <1>3, <1>4

LEMMA NativeStackStep ==
    ASSUME VMInv, NativeInv, Native
    PROVE  InExecute /\ StackStep
<1>1. InNative
  BY DEF Native, NativeStep, NativeBranch, NativeThrow, NativeCatch,
         NativeSuspend, NativeRet, NativeCallSys, NativeThiscallNull,
         CallNative, FastCallSimpleScript, CallScript, CallFunctionPointer,
         CallFunctionPointerNull, AfterCall, ChainEnter, ChainReturn,
         InJitAt, InJit, InChain
<1>2. InExecute
  BY <1>1, InNativeFacts
<1>3. CASE UNCHANGED vmVars
  BY <1>2, <1>3 DEF vmVars, StackStep
<1>4. CASE NativeCatch
  <2>1. InJit("catch") /\ status = "exception"
    BY <1>4 DEF NativeCatch, NativeInv, CatchesHere
  <2> DEFINE frame == [fn |-> Top.fn, pc |-> Top.at]
             known == Handlers[Top.fn][Max(Covering(frame))]
  <2>2. callStack' = CleanStackAt(known)
    BY <1>4 DEF NativeCatch
  <2> HIDE DEF known
  <2> QED
    BY <1>2, <2>1, <2>2 DEF CleanStackAt, StackStep
<1>5. CASE ~UNCHANGED vmVars /\ ~NativeCatch
  <2>1. InJit("run")
    BY <1>5
       DEF Native, NativeStep, NativeBranch, NativeThrow,
           NativeSuspend, NativeRet, NativeCallSys, NativeThiscallNull,
           CallNative, FastCallSimpleScript, CallScript, CallFunctionPointer,
           CallFunctionPointerNull, AfterCall, ChainEnter, ChainReturn, InJitAt
  <2>2. status = "active" /\ Top.at + 1 \in Nat
    <3>1. Top \in Activation /\ status = "active"
      BY <2>1, InJitFacts
    <3> QED
      BY <3>1 DEF Activation
  <2>3. CASE CallNative
    BY <1>2, <2>2, <2>3 DEF CallNative, StackStep
  <2>4. CASE FastCallSimpleScript \/ CallScript \/ CallFunctionPointer
    BY <1>2, <2>1, <2>4, CallHereStackStep
       DEF FastCallSimpleScript, CallScript, CallFunctionPointer
  <2>5. CASE NativeThrow \/ NativeSuspend \/ NativeCallSys
             \/ NativeThiscallNull \/ CallFunctionPointerNull
    BY <1>2, <2>2, <2>5
       DEF NativeThrow, NativeSuspend, NativeCallSys, NativeThiscallNull,
           CallFunctionPointerNull, Raise, StackStep
  <2>6. CASE NativeRet
    BY <1>2, <2>2, <2>6 DEF NativeRet, StackStep
  <2> QED
    BY <1>5, <2>3, <2>4, <2>5, <2>6
       DEF Native, NativeStep, NativeBranch, AfterCall, ChainEnter, ChainReturn
<1> QED
  BY <1>2, <1>3, <1>4, <1>5

LEMMA StackStepKeeps ==
    ASSUME VMInv, InExecute, StackStep, NEW j \in 1..Last(host).depth
    PROVE  callStack'[j] = callStack[j]
<1>1. CASE callStack' = callStack
  BY <1>1
<1>2. CASE status # "finished"
  <2>1. /\ callStack \in Seq(Frames) /\ Depth \in Nat /\ Depth > 0
        /\ Current \in Frame /\ Len(callStack) = Depth
        /\ Last(host).depth \in 0..Depth - 1
    BY <1>2, RunningFacts DEF Depth
  <2>2. j \in 1..Depth - 1 /\ j # Depth
    BY <2>1
  <2>3. ASSUME NEW p, callStack' = AtPc(p)
        PROVE  callStack'[j] = callStack[j]
    BY <2>1, <2>2, <2>3 DEF AtPc
  <2>4. ASSUME NEW p \in Nat, NEW g, callStack' = Append(AtPc(p), Entry(g))
        PROVE  callStack'[j] = callStack[j]
    <3>1. /\ AtPc(p) \in Seq(Frames) /\ Len(AtPc(p)) = Depth
          /\ AtPc(p)[j] = callStack[j]
      BY <2>1, <2>2, AtPcFacts
    <3> HIDE DEF AtPc
    <3>2. PICK s \in Seq(Frames) : s = AtPc(p)
      BY <3>1
    <3>3. PICK e : e = Entry(g)
      OBVIOUS
    <3>4. Append(s, e)[j] = s[j]
      BY <2>1, <2>2, <3>1, <3>2
    <3> QED
      BY <2>4, <3>1, <3>2, <3>3, <3>4
  <2>5. CASE callStack' = Front(callStack)
    <3>1. callStack # <<>>
      BY <2>1
    <3> QED
      BY <2>1, <2>2, <2>5, <3>1, FrontFacts
  <2>6. CASE callStack' = Unwound(callStack)
    <3> DEFINE b == Last(host).depth
    <3>1. /\ b \in Nat /\ b < Len(callStack)
          /\ b > 0 => callStack[b].fn = NoFn
          /\ \A i \in b + 1..Len(callStack) : Live(callStack[i])
      BY <2>1, ExecuteFacts DEF Depth
    <3>2. /\ Len(Unwound(callStack)) \in b + 1..Len(callStack)
          /\ \A i \in 1..Len(Unwound(callStack)) - 1 :
                Unwound(callStack)[i] = callStack[i]
      BY <2>1, <3>1, UnwoundFacts
    <3>3. j \in 1..Len(Unwound(callStack)) - 1
      BY <2>1, <3>1, <3>2
    <3> QED
      BY <2>6, <3>2, <3>3
  <2> QED
    BY <1>1, <1>2, <2>3, <2>4, <2>5, <2>6 DEF StackStep
<1> QED
  BY <1>1, <1>2 DEF StackStep

\* A system function, or what it calls in the context, keeps the frames below
\* its own caller; its caller's frame moves on when it returns.
LEMMA SystemKeeps ==
    ASSUME VMInv, NativeInv, InSys,
           \/ InSystemCall \/ SysReturn \/ NativeSysReturn \/ NativeBoundReturn
           \/ Execute \/ RequestSuspend,
           NEW j \in 1..Last(host).depth - 1
    PROVE  callStack'[j] = callStack[j]
<1>1. /\ callStack \in Seq(Frames) /\ Depth \in Nat /\ Len(callStack) = Depth
      /\ Last(host).depth \in 1..Depth
  BY SysFacts DEF Depth
<1>2. j \in 1..Depth - 1 /\ j # Depth
  BY <1>1
<1>3. CASE SysRaise \/ Execute \/ RequestSuspend
  BY <1>3 DEF SysRaise, Raise, Execute, RequestSuspend
<1>4. CASE SysPop
  <2>1. callStack' = SubSeq(callStack, 1, Last(host).depth)
    BY <1>4 DEF SysPop
  <2> QED
    BY <1>1, <1>2, <2>1
<1>5. CASE \E f \in Fn : SysNest(f)
  <2>1. PICK f \in Fn : callStack' = callStack \o <<Marker, Entry(f)>>
    BY <1>5 DEF SysNest
  <2>2. <<Marker, Entry(f)>> \in Seq(Frames)
    BY MarkerFacts, EntryFacts
  <2> QED
    BY <1>1, <1>2, <2>1, <2>2
<1>6. CASE SysReturn \/ NativeSysReturn \/ NativeBoundReturn
  <2>1. PICK p : callStack' = AtPc(p)
    BY <1>6 DEF SysReturn, SysFinish, NativeSysReturn, NativeBoundReturn
  <2> QED
    BY <1>1, <1>2, <2>1 DEF AtPc
<1> QED
  BY <1>3, <1>4, <1>5, <1>6 DEF InSystemCall

\* While a system function runs an execution of its own, that execution begins
\* above the frame which called the function.
LEMMA StepKeeps ==
    ASSUME VMInv, NativeInv, [JitNext]_vars, NEW i \in 1..Len(host),
           i < Len(host), NEW j \in 1..host[i].depth
    PROVE  callStack'[j] = callStack[j]
<1>1. /\ Len(host) \in Nat /\ Last(host) = host[Len(host)] /\ host # <<>>
      /\ host[i].depth \in Nat /\ Last(host).depth \in Nat
      /\ host[i].depth < Last(host).depth
      /\ Last(host).kind \in {"exec", "sys"}
  BY HostFacts, HostOrder DEF Last
<1>2. j \in 1..Last(host).depth /\ j \in 1..Last(host).depth - 1
  BY <1>1
<1>3. InExecute \/ InSys
  BY <1>1 DEF InExecute, InSys
<1>4. CASE Native
  BY <1>2, <1>4, NativeStackStep, StackStepKeeps
<1>5. CASE InterpretStep
  <2>1. Interpret /\ InExecute
    BY <1>5
       DEF InterpretStep, Interpret, Step, Branch, Throw, SuspendPoint, Ret,
           Call, CallNull, CallSys, ThiscallNull, At, Running
  <2> QED
    BY <1>2, <2>1, InterpretStackStep, StackStepKeeps
<1>6. CASE UNCHANGED callStack
  BY <1>6
<1>7. CASE NativeSysReturn \/ NativeBoundReturn \/ SysReturn \/ InSystemCall
  <2>1. InSys
    BY <1>7
       DEF NativeSysReturn, NativeBoundReturn, SysReturn, InSystemCall,
           SysRaise, SysPop, SysNest
  <2> QED
    BY <1>2, <1>7, <2>1, SystemKeeps
<1>8. CASE Catch \/ Done
  <2>1. InExecute /\ StackStep
    BY <1>8 DEF Catch, Done, StackStep
  <2> QED
    BY <1>2, <2>1, StackStepKeeps
<1>9. ~\E f \in Fn : Prepare(f)
  BY <1>1 DEF Prepare
<1>10. CASE InlinedBody
  BY <1>2, <1>10, InlinedStackStep, StackStepKeeps
<1> QED
  BY <1>4, <1>5, <1>6, <1>7, <1>8, <1>9, <1>10
     DEF JitNext, Run, Plain, Application, JitEntry, InterpretedSysReturn, Execute,
         RequestSuspend, vars, vmVars

\* The C++ stack of the host changes only at its end.
LEMMA HostStep ==
    ASSUME [JitNext]_vars
    PROVE  \/ host' = host
           \/ \E k \in {"exec", "sys"} : \E d :
                host' = Append(host, [kind |-> k, depth |-> d])
           \/ host # <<>> /\ host' = Front(host)
<1>1. CASE Native
  BY <1>1
     DEF Native, NativeStep, NativeBranch, NativeThrow, NativeCatch,
         NativeSuspend, NativeRet, NativeCallSys, NativeThiscallNull,
         CallNative, FastCallSimpleScript, CallScript, CallFunctionPointer,
         CallScriptFunctionHere, CallPointerHere,
         CallFunctionPointerNull, AfterCall, ChainEnter, ChainReturn, vmVars
<1>2. CASE InterpretStep
  BY <1>2
     DEF InterpretStep, Interpret, Step, Branch, Throw, SuspendPoint, Ret,
         Call, CallNull, CallSys, ThiscallNull
<1>3. CASE NativeSysReturn \/ NativeBoundReturn \/ SysReturn
  BY <1>3 DEF NativeSysReturn, NativeBoundReturn, SysReturn, InSys
<1>4. CASE InSystemCall \/ Catch \/ RequestSuspend \/ JitEntry \/ UNCHANGED vars
  BY <1>4 DEF InSystemCall, SysRaise, SysPop, SysNest, Catch, RequestSuspend,
              JitEntry, vars, vmVars
<1>5. CASE Execute \/ Done \/ \E f \in Fn : Prepare(f)
  BY <1>5 DEF Execute, Done, InExecute, Prepare
<1>6. CASE InlinedBody
  BY <1>6
     DEF InlinedBody, CallInlined, InlinedStep, InlinedBranch, InlinedCall,
         InlinedRet, InlinedSlow, CallScriptFunctionHere, CallPointerHere, vmVars
<1> QED
  BY <1>1, <1>2, <1>3, <1>4, <1>5, <1>6
     DEF JitNext, Run, Plain, Application, InterpretedSysReturn

LEMMA FramesKept ==
    ASSUME InductiveInv, InductiveInv', [JitNext]_vars,
           NEW i \in 1..Len(host), host[i].kind = "sys", i <= Len(host')
    PROVE  /\ Len(callStack') >= host[i].depth
           /\ i < Len(host) =>
                SubSeq(callStack', 1, host[i].depth) =
                SubSeq(callStack, 1, host[i].depth)
<1>1. /\ VMInv /\ NativeInv /\ Len(host) \in Nat /\ host[i].depth \in Nat
      /\ callStack \in Seq(Frames) /\ callStack' \in Seq(Frames)
      /\ host \in Seq(HostAct) /\ host' \in Seq(HostAct) /\ HostShape /\ HostShape'
  <2>1. VMInv /\ NativeInv
    BY InvHalves DEF CoreInv
  <2>2. callStack' \in Seq(Frames) /\ host' \in Seq(HostAct) /\ HostShape'
    BY DEF InductiveInv, JitTypeOK, Frames
  <2> QED
    BY <2>1, <2>2, HostFacts DEF VMInv
<1>2. host'[i] = host[i]
  <2>1. CASE \E k \in {"exec", "sys"} : \E d :
                host' = Append(host, [kind |-> k, depth |-> d])
    <3>1. PICK a : host' = Append(host, a)
      BY <2>1
    <3> QED
      BY <1>1, <3>1
  <2>2. CASE host # <<>> /\ host' = Front(host)
    <3>1. host \in Seq(HostAct) /\ Len(host) \in Nat
      BY <1>1
    <3>2. /\ Len(Front(host)) = Len(host) - 1
          /\ \A k \in 1..Len(host) - 1 : Front(host)[k] = host[k]
      BY <2>2, <3>1, FrontFacts
    <3>3. i \in 1..Len(host) - 1
      BY <2>2, <3>1, <3>2
    <3> QED
      BY <2>2, <3>2, <3>3
  <2>3. CASE host' = host
    BY <2>3
  <2> QED
    BY <2>1, <2>2, <2>3, HostStep
<1>3. host[i].depth \in 1..Len(callStack) /\ host[i].depth \in 1..Len(callStack')
  BY <1>1, <1>2 DEF HostShape, Depth
<1>4. ASSUME i < Len(host)
      PROVE  SubSeq(callStack', 1, host[i].depth) =
             SubSeq(callStack, 1, host[i].depth)
  <2>1. \A j \in 1..host[i].depth : callStack'[j] = callStack[j]
    BY <1>1, <1>4, StepKeeps
  <2> QED
    BY <1>1, <1>3, <2>1
<1> QED
  BY <1>1, <1>3, <1>4

\* Whatever a nested execution calls, throws or returns from, and in whichever
\* world it runs, the frames that were there when the system function was
\* called stay as they were.
THEOREM SysFramesKept == JitSpec => SysFramesUntouched
<1>1. InductiveInv /\ InductiveInv' /\ [JitNext]_vars =>
        [\A i \in 1..Len(host) :
            (host[i].kind = "sys" /\ i <= Len(host')) =>
                /\ Len(callStack') >= host[i].depth
                /\ i < Len(host) =>
                    SubSeq(callStack', 1, host[i].depth) =
                    SubSeq(callStack, 1, host[i].depth)]_vars
  BY FramesKept
<1> QED
  BY <1>1, Invariance, PTL DEF JitSpec, SysFramesUntouched
=============================================================================
