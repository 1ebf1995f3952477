------------------------- MODULE JitRefinementProofs -------------------------
(***************************************************************************)
(* The proof that the virtual machine with the JIT in it implements the    *)
(* virtual machine without: JitSpec => ImplementsVM, for every script,     *)
(* every set of compiled functions and every limit.  The inductive         *)
(* invariant of JitCallChainProofs says in which frame generated code runs *)
(* and what its activations wait for; here every step is mapped to a step  *)
(* of the interpreter, or to no step at all.  An inlined body is no step   *)
(* until it is over; then it is the call, the function and its RET at once.*)
(***************************************************************************)
EXTENDS JitCallChainProofs

-----------------------------------------------------------------------------
(* The abstract machine's operators are those of the concrete one.         *)

LEMMA SameCovering ==
    ASSUME NEW frame
    PROVE  VM!Covering(frame) = Covering(frame)
BY DEF VM!Covering, Covering

LEMMA SameMax ==
    ASSUME NEW S
    PROVE  VM!Max(S) = Max(S)
BY DEF VM!Max, Max

LEMMA SameLast ==
    ASSUME NEW s
    PROVE  VM!Last(s) = Last(s) /\ VM!Front(s) = Front(s)
BY DEF VM!Last, Last, VM!Front, Front

LEMMA SameCardinality ==
    ASSUME NEW S
    PROVE  VM!Cardinality(S) = Cardinality(S)
BY DEF VM!Cardinality, Cardinality

LEMMA SameFrames ==
    VM!Marker = Marker /\ \A f : VM!Entry(f) = Entry(f)
BY DEF VM!Marker, Marker, VM!Entry, Entry

LEMMA SameMarkers ==
    ASSUME NEW s
    PROVE  /\ VM!Markers(s) = Markers(s)
           /\ VM!Base(s) = Base(s)
           /\ VM!IsOutermost(s) <=> IsOutermost(s)
<1>1. VM!Markers(s) = Markers(s)
  BY DEF VM!Markers, Markers
<1> QED
  BY <1>1, SameMax DEF VM!Base, Base, VM!IsOutermost, IsOutermost

LEMMA SameCatchers ==
    ASSUME NEW s
    PROVE  /\ VM!Catchers(s) = Catchers(s)
           /\ VM!FindExceptionTryCatch(s) = FindExceptionTryCatch(s)
<1>1. \A i : VM!Covering(s[i]) = Covering(s[i])
  BY SameCovering
<1>2. VM!Base(s) = Base(s)
  BY SameMarkers
<1>3. VM!Catchers(s) = Catchers(s)
  BY <1>1, <1>2 DEF VM!Catchers, Catchers
<1>4. VM!FindExceptionTryCatch(s) = FindExceptionTryCatch(s)
  BY <1>1 DEF VM!FindExceptionTryCatch, FindExceptionTryCatch
<1> QED
  BY <1>3, <1>4

LEMMA SameUnwound ==
    ASSUME NEW s
    PROVE  VM!Unwound(s) = Unwound(s)
<1>1. \A frame : VM!CatchPos(frame) = CatchPos(frame)
  BY SameCovering, SameMax DEF VM!CatchPos, CatchPos
<1>2. VM!Base(s) = Base(s) /\ VM!Catchers(s) = Catchers(s)
  BY SameMarkers, SameCatchers
<1>3. VM!Max(Catchers(s)) = Max(Catchers(s))
  BY SameMax
<1> DEFINE i == Max(Catchers(s))
<1>4. VM!CatchPos(s[i]) = CatchPos(s[i])
  BY <1>1
<1> QED
  BY <1>2, <1>3, <1>4 DEF VM!Unwound, Unwound

\* Where the abstract machine raises an exception or calls.
LEMMA SameRaise ==
    ASSUME NEW s, VisibleStack' = callStack', Raise(s)
    PROVE  VM!Raise(s)
BY SameCatchers DEF VM!Raise, Raise

LEMMA SameCall ==
    ASSUME NEW s, NEW g, NEW room, VisibleStack' = callStack',
           CallScriptFunction(s, g, room)
    PROVE  VM!CallScriptFunction(s, g, room)
<1>1. VM!Entry(g) = Entry(g)
  BY SameFrames
<1>2. /\ Raise(s) => VM!Raise(s)
      /\ Raise(Append(s, Entry(g))) => VM!Raise(Append(s, Entry(g)))
  BY SameRaise
<1>3. SuspendIfAsked => VM!SuspendIfAsked
  BY DEF VM!SuspendIfAsked, SuspendIfAsked
<1> QED
  BY <1>1, <1>2, <1>3 DEF VM!CallScriptFunction, CallScriptFunction

-----------------------------------------------------------------------------
(* Steps with nothing to hide: neither before nor after the step does      *)
(* generated code keep a position of its own.                              *)

LEMMA PlainFacts ==
    ASSUME VisibleStack = callStack
    PROVE  /\ VM!Depth = Depth /\ VM!Current = Current
           /\ \A p : VM!AtPc(p) = AtPc(p)
           /\ VM!InExecute <=> InExecute
           /\ VM!InSys <=> InSys
           /\ VM!NestOpen <=> NestOpen
           /\ \A ops : VM!At(ops) <=> At(ops)
<1>1. VM!Depth = Depth /\ VM!Current = Current
  BY DEF VM!Depth, Depth, VM!Current, Current
<1>2. VM!Last(host) = Last(host)
  BY SameLast
<1>3. (VM!InExecute <=> InExecute) /\ (VM!InSys <=> InSys)
      /\ (VM!NestOpen <=> NestOpen)
  BY <1>1, <1>2 DEF VM!InExecute, InExecute, VM!InSys, InSys, VM!NestOpen, NestOpen
<1>4. \A p : VM!AtPc(p) = AtPc(p)
  BY <1>1 DEF VM!AtPc, AtPc
<1>5. \A ops : VM!At(ops) <=> At(ops)
  BY <1>1, <1>3 DEF VM!At, At, VM!Running, Running
<1> QED
  BY <1>1, <1>3, <1>4, <1>5

LEMMA PlainInterpret ==
    ASSUME VisibleStack = callStack, VisibleStack' = callStack', Interpret
    PROVE  VM!Interpret
<1>1. /\ VM!Depth = Depth /\ VM!Current = Current
      /\ \A p : VM!AtPc(p) = AtPc(p)
      /\ \A ops : VM!At(ops) <=> At(ops)
  BY PlainFacts
<1>2. /\ \A s : Raise(s) => VM!Raise(s)
      /\ \A s, g, room : CallScriptFunction(s, g, room) =>
                            VM!CallScriptFunction(s, g, room)
  BY SameRaise, SameCall
<1>3. SuspendIfAsked => VM!SuspendIfAsked
  BY DEF VM!SuspendIfAsked, SuspendIfAsked
<1>4. VM!ScriptCalls = ScriptCalls /\ VM!SystemCalls = SystemCalls
  BY DEF VM!ScriptCalls, ScriptCalls, VM!SystemCalls, SystemCalls
<1>5. /\ VM!Front(callStack) = Front(callStack)
      /\ VM!IsOutermost(callStack) <=> IsOutermost(callStack)
      /\ VM!FindExceptionTryCatch(callStack) = FindExceptionTryCatch(callStack)
  BY SameLast, SameMarkers, SameCatchers
<1>6. UNCHANGED Flags <=> UNCHANGED VM!Flags
  BY DEF Flags, VM!Flags
<1>7. CASE Step
  BY <1>1, <1>6, <1>7 DEF Step, VM!Step, VM!Interpret
<1>8. CASE Branch
  BY <1>1, <1>6, <1>8 DEF Branch, VM!Branch, VM!Interpret
<1>9. CASE Throw
  BY <1>1, <1>2, <1>9 DEF Throw, VM!Throw, VM!Interpret
<1>10. CASE SuspendPoint
  BY <1>1, <1>3, <1>6, <1>10 DEF SuspendPoint, VM!SuspendPoint, VM!Interpret
<1>11. CASE Ret
  BY <1>1, <1>5, <1>6, <1>11 DEF Ret, VM!Ret, VM!Interpret
<1>12. CASE Call
  BY <1>1, <1>2, <1>4, <1>12 DEF Call, VM!Call, VM!Interpret
<1>13. CASE CallNull
  BY <1>1, <1>2, <1>13 DEF CallNull, VM!CallNull, VM!Interpret
<1>14. CASE CallSys
  BY <1>1, <1>4, <1>6, <1>14 DEF CallSys, VM!CallSys, VM!Interpret
<1>15. CASE ThiscallNull
  BY <1>1, <1>5, <1>15 DEF ThiscallNull, VM!ThiscallNull, VM!Interpret
<1> QED
  BY <1>7, <1>8, <1>9, <1>10, <1>11, <1>12, <1>13, <1>14, <1>15 DEF Interpret

LEMMA PlainSystem ==
    ASSUME VisibleStack = callStack, VisibleStack' = callStack',
           InSystemCall \/ SysReturn
    PROVE  VM!Next
<1>1. /\ VM!Depth = Depth /\ VM!Current = Current
      /\ \A p : VM!AtPc(p) = AtPc(p)
      /\ VM!InSys <=> InSys
      /\ VM!NestOpen <=> NestOpen
  BY PlainFacts
<1>2. /\ VM!Last(host) = Last(host) /\ VM!Front(host) = Front(host)
      /\ VM!Markers(callStack) = Markers(callStack)
      /\ VM!Cardinality(Markers(callStack)) = Cardinality(Markers(callStack))
      /\ VM!Marker = Marker /\ \A f : VM!Entry(f) = Entry(f)
  BY SameLast, SameMarkers, SameCardinality, SameFrames
<1>3. UNCHANGED Flags <=> UNCHANGED VM!Flags
  BY DEF Flags, VM!Flags
<1>4. CASE SysRaise
  <2>1. VM!Raise(callStack)
    BY <1>4, SameRaise DEF SysRaise
  <2> QED
    BY <1>1, <1>4, <2>1 DEF SysRaise, VM!SysRaise, VM!InSystemCall, VM!Next
<1>5. CASE SysPop
  BY <1>1, <1>2, <1>3, <1>5 DEF SysPop, VM!SysPop, VM!InSystemCall, VM!Next
<1>6. CASE \E f \in Fn : SysNest(f)
  <2>1. PICK f \in Fn : SysNest(f)
    BY <1>6
  <2>2. VM!SysNest(f)
    BY <1>1, <1>2, <1>3, <2>1 DEF SysNest, VM!SysNest
  <2> QED
    BY <2>2 DEF VM!InSystemCall, VM!Next
<1>7. CASE SysReturn
  <2>1. VM!SysFinish
    <3>1. SuspendIfAsked => VM!SuspendIfAsked
      BY DEF VM!SuspendIfAsked, SuspendIfAsked
    <3> QED
      BY <1>1, <1>7, <3>1 DEF SysReturn, SysFinish, VM!SysFinish
  <2> QED
    BY <1>1, <1>2, <1>3, <1>7, <2>1 DEF SysReturn, VM!SysReturn, VM!Next
<1> QED
  BY <1>4, <1>5, <1>6, <1>7 DEF InSystemCall

LEMMA PlainExecute ==
    ASSUME VisibleStack = callStack, VisibleStack' = callStack',
           \/ Execute \/ Catch \/ Done
           \/ \E f \in Fn : Prepare(f)
    PROVE  VM!Next
<1>1. /\ VM!InExecute <=> InExecute
      /\ VM!InSys <=> InSys
      /\ VM!NestOpen <=> NestOpen
  BY PlainFacts
<1>2. /\ VM!Front(host) = Front(host)
      /\ VM!Base(callStack) = Base(callStack)
      /\ VM!Catchers(callStack) = Catchers(callStack)
      /\ VM!Unwound(callStack) = Unwound(callStack)
      /\ \A f : VM!Entry(f) = Entry(f)
  BY SameLast, SameMarkers, SameCatchers, SameUnwound, SameFrames
<1>3. UNCHANGED Flags <=> UNCHANGED VM!Flags
  BY DEF Flags, VM!Flags
<1>4. CASE Execute
  BY <1>1, <1>2, <1>3, <1>4 DEF Execute, VM!Execute, VM!Next
<1>5. CASE Catch
  BY <1>1, <1>2, <1>3, <1>5 DEF Catch, VM!Catch, VM!Next
<1>6. CASE Done
  BY <1>1, <1>2, <1>6 DEF Done, VM!Done, VM!Next
<1>7. CASE \E f \in Fn : Prepare(f)
  BY <1>2, <1>3, <1>7 DEF Prepare, VM!Prepare, VM!Next
<1> QED
  BY <1>4, <1>5, <1>6, <1>7

-----------------------------------------------------------------------------
(* When generated code hides a position, before a step and after it.       *)

\* A frame that is given the position it has.
LEMMA SamePc ==
    ASSUME NEW s \in Seq(Frames), NEW p, s # <<>> => s[Len(s)].pc = p
    PROVE  [s EXCEPT ![Len(s)].pc = p] = s
<1>1. CASE s = <<>>
  BY <1>1
<1>2. CASE s # <<>>
  <2>1. Len(s) \in Nat /\ Len(s) > 0 /\ s[Len(s)] \in Frames
    BY <1>2
  <2>2. [s[Len(s)] EXCEPT !.pc = p] = s[Len(s)]
    BY <1>2, <2>1 DEF Frames, Frame, Marker
  <2> QED
    BY <2>1, <2>2
<1> QED
  BY <1>1, <1>2

\* A frame that is given two positions keeps the last one.
LEMMA TwoPcs ==
    ASSUME NEW s, NEW n, NEW p, NEW q
    PROVE  [[s EXCEPT ![n].pc = p] EXCEPT ![n].pc = q] = [s EXCEPT ![n].pc = q]
OBVIOUS

\* The interpreter, a chain loop or a system function has the control.
LEMMA HiddenNowhere ==
    /\ ~InJit("run") => VisibleStack = callStack
    /\ ~InJit("run")' => VisibleStack' = callStack'
    /\ ~InNative => VisibleStack = callStack
    /\ ~InNative' => VisibleStack' = callStack'
<1>1. (~InNative => ~InJit("run")) /\ (~InNative' => ~InJit("run")')
  BY DEF InJit
<1>2. (~InJit("run") => VisibleStack = callStack)
  BY DEF VisibleStack
<1>3. ~InJit("run")' => VisibleStack' = callStack'
  BY DEF VisibleStack
<1> QED
  BY <1>1, <1>2, <1>3

\* Generated code runs, at the position the program pointer has anyway.
LEMMA NothingHidden ==
    ASSUME callStack' \in Seq(Frames),
           InJit("run")' /\ callStack' # <<>> => Current'.pc = Top'.at
    PROVE  VisibleStack' = callStack'
<1>1. CASE ~InJit("run")'
  BY <1>1, HiddenNowhere
<1>2. CASE InJit("run")'
  <2>1. VisibleStack' = AtPc(Top.at)'
    BY <1>2 DEF VisibleStack
  <2>3. AtPc(Top.at)' = [callStack' EXCEPT ![Len(callStack')].pc = Top'.at]
    BY DEF AtPc, Depth
  <2>2. callStack' # <<>> => callStack'[Len(callStack')].pc = Top'.at
    BY <1>2 DEF Current, Depth
  <2> QED
    BY <2>1, <2>2, <2>3, SamePc
<1> QED
  BY <1>1, <1>2

\* The same for the state before a step.
LEMMA NothingHiddenBefore ==
    ASSUME callStack \in Seq(Frames),
           InJit("run") /\ callStack # <<>> => Current.pc = Top.at
    PROVE  VisibleStack = callStack
<1>1. CASE InJit("run")
  <2>1. VisibleStack = [callStack EXCEPT ![Len(callStack)].pc = Top.at]
    BY <1>1 DEF VisibleStack, AtPc, Depth
  <2>2. callStack # <<>> => callStack[Len(callStack)].pc = Top.at
    BY <1>1 DEF Current, Depth
  <2> QED
    BY <2>1, <2>2, SamePc
<1> QED
  BY <1>1, HiddenNowhere

\* Under the activation that leaves lies one that waits, or a chain loop, or
\* one of another execution.
LEMMA AfterExit ==
    ASSUME NativeInv, NEW m \in 0..Len(native) - 1,
           native' = SubSeq(native, 1, m),
           native[m + 1].level = Len(host')
    PROVE  VisibleStack' = callStack'
<1>1. native \in Seq(Activation) /\ Len(native) \in Nat /\ m \in Nat
  BY DEF NativeInv
<1>2. Len(native') = m /\ \A k \in 1..m : native'[k] = native[k]
  BY <1>1, PrefixFacts
<1>3. CASE m = 0
  <2>1. native' = <<>>
    BY <1>1, <1>3
  <2> QED
    BY <2>1, HiddenNowhere DEF InNative
<1>4. CASE m > 0
  <2>1. m \in 1..Len(native) /\ m # Len(native)
    BY <1>1, <1>4
  <2>2. Top' = native[m]
    BY <1>2, <1>4, <1>1 DEF Top, Last
  <2>3. CASE native[m].level # Len(host')
    BY <2>2, <2>3, HiddenNowhere DEF InNative
  <2>4. CASE native[m].level = Len(host')
    <3>1. ~IsLead(m)
      BY <2>1, <2>4 DEF IsLead
    <3>2. ActivationShape(m)
      BY <2>1 DEF NativeInv
    <3>3. native[m].state = "wait" \/ native[m].kind = "chain"
      BY <3>1, <3>2 DEF ActivationShape
    <3>4. ~InJit("run")'
      BY <2>2, <3>3 DEF InJit
    <3> QED
      BY <3>4, HiddenNowhere
  <2> QED
    BY <2>3, <2>4
<1> QED
  BY <1>1, <1>3, <1>4

LEMMA AfterExitTop ==
    ASSUME NativeInv, native # <<>>, Exit, Top.level = Len(host')
    PROVE  VisibleStack' = callStack'
<1>1. native \in Seq(Activation) /\ Len(native) \in Nat /\ Len(native) > 0
  BY NativeFacts DEF NativeInv
<1>2. /\ native' = SubSeq(native, 1, Len(native) - 1)
      /\ Len(native) - 1 \in 0..Len(native) - 1
      /\ native[(Len(native) - 1) + 1] = Top
  BY <1>1 DEF Exit, Front, Top, Last
<1> QED
  BY <1>2, AfterExit

\* The innermost activation changes its position and state.
LEMMA AfterUpdate ==
    ASSUME NativeInv, native # <<>>, NEW p \in Nat,
           NEW st \in {"run", "wait", "catch"},
           \/ native' = [native EXCEPT ![Len(native)].at = p,
                                       ![Len(native)].state = st]
           \/ Top.state = st /\ native' = [native EXCEPT ![Len(native)].at = p]
           \/ Top.at = p /\ native' = [native EXCEPT ![Len(native)].state = st]
    PROVE  /\ native' # <<>> /\ Top'.kind = Top.kind /\ Top'.level = Top.level
           /\ Top'.at = p /\ Top'.state = st
<1> DEFINE x == [Top EXCEPT !.at = p, !.state = st]
<1>0. /\ x \in Activation /\ x.kind = Top.kind /\ x.fn = Top.fn
      /\ x.depth = Top.depth /\ x.level = Top.level
      /\ x.at = p /\ x.state = st
      /\ [native EXCEPT ![Len(native)].at = p, ![Len(native)].state = st] =
           [native EXCEPT ![Len(native)] = x]
      /\ Top.state = st => [native EXCEPT ![Len(native)].at = p] =
                             [native EXCEPT ![Len(native)] = x]
      /\ Top.at = p => [native EXCEPT ![Len(native)].state = st] =
                          [native EXCEPT ![Len(native)] = x]
  BY UpdateFacts, ZenonT(60)
<1> HIDE DEF x
<1>1. /\ x.kind = Top.kind /\ x.level = Top.level
      /\ x.at = p /\ x.state = st
      /\ native' = [native EXCEPT ![Len(native)] = x]
  BY <1>0, ZenonT(60)
<1>2. native \in Seq(Activation) /\ Len(native) \in Nat /\ Len(native) > 0
  BY NativeFacts DEF NativeInv
<1>3. Len(native') = Len(native) /\ native'[Len(native)] = x
  BY <1>1, <1>2
<1> QED
  BY <1>1, <1>2, <1>3 DEF Top, Last

\* Generated code goes on at q.
LEMMA AfterGoTo ==
    ASSUME NativeInv, native # <<>>, NEW q \in Nat, GoTo(q),
           Top.kind = "jit", Top.state = "run", Top.level = Len(host')
    PROVE  VisibleStack' = [callStack' EXCEPT ![Len(callStack')].pc = q]
<1>1. /\ native' # <<>> /\ Top'.kind = "jit" /\ Top'.level = Len(host')
      /\ Top'.at = q /\ Top'.state = "run"
  BY AfterUpdate DEF GoTo
<1> QED
  BY <1>1 DEF VisibleStack, InJit, InNative, AtPc, Depth

\* Generated code that waits, or is about to catch, hides nothing.
LEMMA AfterStop ==
    ASSUME NativeInv, native # <<>>, NEW p \in Nat,
           NEW st \in {"wait", "catch"},
           \/ native' = [native EXCEPT ![Len(native)].at = p,
                                       ![Len(native)].state = st]
           \/ Top.at = p /\ native' = [native EXCEPT ![Len(native)].state = st]
    PROVE  VisibleStack' = callStack'
<1>1. Top'.state = st
  BY AfterUpdate
<1> QED
  BY <1>1, HiddenNowhere DEF InJit

\* An activation is added on top.
LEMMA AfterAppend ==
    ASSUME NEW s \in Seq(Activation), NEW a, native' = Append(s, a)
    PROVE  Top' = a
BY DEF Top, Last

-----------------------------------------------------------------------------
(* The instructions that generated code executes.                          *)

\* What the invariant says of the state after a step.
LEMMA HalvesAfter ==
    ASSUME InductiveInv'
    PROVE  VMInv' /\ NativeInv' /\ callStack' \in Seq(Frames)
BY DEF InductiveInv, VMInv, NativeInv, JitTypeOK, Frames, Statuses

\* What the abstract machine is at, while generated code runs.
LEMMA RunningVisible ==
    ASSUME InductiveInv, InJit("run")
    PROVE  /\ VMInv /\ NativeInv /\ FlagsOK /\ native # <<>>
           /\ callStack \in Seq(Frames) /\ Depth \in Nat /\ Depth > 0
           /\ Len(callStack) = Depth
           /\ Top.kind = "jit" /\ Top.state = "run" /\ Top.level = Len(host)
           /\ Top.at \in Nat /\ Top.at + 1 \in Nat
           /\ I.op = "br" => I.to \in Nat
           /\ Current \in Frame /\ Current.fn = Top.fn
           /\ VisibleStack = AtPc(Top.at)
           /\ VM!Depth = Depth /\ VM!Current = [fn |-> Top.fn, pc |-> Top.at]
           /\ \A p : VM!AtPc(p) = AtPc(p)
           /\ \A p : [AtPc(p) EXCEPT ![Depth].pc = p] = AtPc(p)
           /\ \A ops : VM!At(ops) <=> I.op \in ops
<1>1. /\ VMInv /\ NativeInv /\ FlagsOK
  BY InvHalves DEF CoreInv
<1>2. /\ Top.kind = "jit" /\ Top.state = "run" /\ InExecute /\ native # <<>>
      /\ Top.fn \in Fn /\ Top.level = Len(host)
      /\ Top.at \in 1..Len(Code[Top.fn])
      /\ I.op = "br" => I.to \in 1..Len(Code[Top.fn])
      /\ status = "active" /\ Current.fn = Top.fn
  BY <1>1, InJitFacts
<1>3. Top.at \in Nat /\ Top.at + 1 \in Nat /\ (I.op = "br" => I.to \in Nat)
  BY <1>2, CodeFacts
<1>4. /\ callStack \in Seq(Frames) /\ Depth \in Nat /\ Depth > 0
      /\ Current \in Frame
  BY <1>1, <1>2, RunningFacts
<1>5. VisibleStack = AtPc(Top.at)
  BY DEF VisibleStack
<1>6. /\ Len(AtPc(Top.at)) = Depth
      /\ AtPc(Top.at)[Depth] = [fn |-> Top.fn, pc |-> Top.at]
  BY <1>2, <1>3, <1>4, AtPcFacts
<1>7. VM!Depth = Depth /\ VM!Current = [fn |-> Top.fn, pc |-> Top.at]
  BY <1>5, <1>6 DEF VM!Depth, VM!Current
<1>8. \A p : VM!AtPc(p) = AtPc(p)
  <2>1. TAKE p
  <2>2. VM!AtPc(p) = [AtPc(Top.at) EXCEPT ![Depth].pc = p]
    BY <1>5, <1>7 DEF VM!AtPc
  <2> QED
    BY <2>2, TwoPcs, ZenonT(60) DEF AtPc
<1>9. \A p : [AtPc(p) EXCEPT ![Depth].pc = p] = AtPc(p)
  <2>1. TAKE p
  <2>2. [[callStack EXCEPT ![Depth].pc = p] EXCEPT ![Depth].pc = p] =
          [callStack EXCEPT ![Depth].pc = p]
    OBVIOUS
  <2> QED
    BY <2>2 DEF AtPc
<1>10. \A ops : VM!At(ops) <=> I.op \in ops
  <2>1. VM!Running
    BY <1>2, SameLast DEF VM!Running, VM!InExecute, InExecute
  <2>2. Code[VM!Current.fn][VM!Current.pc] = I
    BY <1>7 DEF I
  <2> QED
    BY <2>1, <2>2 DEF VM!At
<1> QED
  BY <1>1, <1>2, <1>3, <1>4, <1>5, <1>7, <1>8, <1>9, <1>10 DEF Depth

\* Generated code goes on at q: the interpreter's program pointer moves to q.
LEMMA MoveVisible ==
    ASSUME InductiveInv, InJit("run"), NEW q \in Nat, GoTo(q), host' = host,
           callStack' = callStack \/ callStack' = AtPc(q)
    PROVE  VisibleStack' = VM!AtPc(q)
<1>1. /\ NativeInv /\ native # <<>> /\ Len(callStack) = Depth
      /\ callStack \in Seq(Frames) /\ Depth \in Nat /\ Depth > 0
      /\ Current \in Frame
      /\ Top.kind = "jit" /\ Top.state = "run" /\ Top.level = Len(host)
      /\ VM!AtPc(q) = AtPc(q) /\ [AtPc(q) EXCEPT ![Depth].pc = q] = AtPc(q)
  BY RunningVisible
<1>2. VisibleStack' = [callStack' EXCEPT ![Len(callStack')].pc = q]
  BY <1>1, AfterGoTo
<1>3. CASE callStack' = callStack
  BY <1>1, <1>2, <1>3 DEF AtPc
<1>4. CASE callStack' = AtPc(q)
  <2>1. Len(AtPc(q)) = Depth
    BY <1>1, AtPcFacts
  <2> QED
    BY <1>1, <1>2, <1>4, <2>1
<1> QED
  BY <1>3, <1>4

LEMMA ExitVisible ==
    ASSUME InductiveInv, InJit("run"), Exit, Len(host') = Len(host)
    PROVE  VisibleStack' = callStack'
BY RunningVisible, AfterExitTop

LEMMA NativeStepRefines ==
    ASSUME InductiveInv, NativeStep \/ NativeBranch
    PROVE  VM!Next
<1>1. InJit("run") /\ UNCHANGED vmVars
  BY DEF NativeStep, NativeBranch, InJitAt
<1>2. /\ Top.at \in Nat /\ Top.at + 1 \in Nat /\ (I.op = "br" => I.to \in Nat)
      /\ VM!Current = [fn |-> Top.fn, pc |-> Top.at]
      /\ \A ops : VM!At(ops) <=> I.op \in ops
  BY <1>1, RunningVisible
<1>3. Code[VM!Current.fn][VM!Current.pc] = I /\ VM!Current.pc = Top.at
  BY <1>2 DEF I
<1>4. \A q \in Nat : GoTo(q) => VisibleStack' = VM!AtPc(q)
  BY <1>1, MoveVisible DEF vmVars
<1>5. UNCHANGED VM!Flags /\ UNCHANGED <<host, status>>
  BY <1>1 DEF vmVars, VM!Flags
<1>6. CASE NativeStep
  <2>1. VM!At({"entry", "op", "div"}) /\ VisibleStack' = VM!AtPc(Top.at + 1)
    BY <1>2, <1>4, <1>6 DEF NativeStep, InJitAt
  <2> QED
    BY <1>3, <1>5, <2>1 DEF VM!Step, VM!Interpret, VM!Next
<1>7. CASE NativeBranch
  <2>1. PICK q \in {Top.at + 1, I.to} : GoTo(q)
    BY <1>7 DEF NativeBranch
  <2>2. VM!At({"br"}) /\ q \in Nat
    BY <1>2, <1>7, <2>1 DEF NativeBranch, InJitAt
  <2>3. VisibleStack' = VM!AtPc(q)
    BY <1>4, <2>1, <2>2
  <2> QED
    BY <1>3, <1>5, <2>1, <2>2, <2>3 DEF VM!Branch, VM!Interpret, VM!Next
<1> QED
  BY <1>6, <1>7

LEMMA NativeThrowRefines ==
    ASSUME InductiveInv, NativeThrow
    PROVE  VM!Next
<1>1. InJit("run") /\ I.op \in {"div"} /\ Raise(AtPc(Top.at)) /\ host' = host
  BY DEF NativeThrow, InJitAt
<1>2. /\ NativeInv /\ native # <<>> /\ Top.at \in Nat
      /\ VisibleStack = AtPc(Top.at) /\ VM!At({"div"})
  BY <1>1, RunningVisible
<1>3. VisibleStack' = callStack'
  <2>1. CASE native' = [native EXCEPT ![Len(native)].state = "catch"]
    BY <1>2, <2>1, AfterStop
  <2>2. CASE Exit
    BY <1>1, <2>2, ExitVisible
  <2> QED
    BY <2>1, <2>2 DEF NativeThrow
<1>4. VM!Raise(VisibleStack)
  BY <1>1, <1>2, <1>3, SameRaise
<1> QED
  BY <1>1, <1>2, <1>4 DEF VM!Throw, VM!Interpret, VM!Next

LEMMA NativeSuspendRefines ==
    ASSUME InductiveInv, NativeSuspend
    PROVE  VM!Next
<1>1. InJit("run") /\ I.op \in {"suspend"} /\ host' = host /\ UNCHANGED Flags
      /\ SuspendIfAsked
  BY DEF NativeSuspend, InJitAt
<1>2. /\ Top.at \in Nat /\ Top.at + 1 \in Nat
      /\ VM!Current.pc = Top.at /\ VM!At({"suspend"})
      /\ VM!AtPc(Top.at + 1) = AtPc(Top.at + 1)
      /\ status = "active"
  <2>1. status = "active"
    BY <1>1, InJitFacts, InvHalves DEF CoreInv
  <2> QED
    BY <1>1, <2>1, RunningVisible
<1>3. VisibleStack' = VM!AtPc(Top.at + 1)
  <2>1. CASE GoTo(Top.at + 1)
    <3>1. callStack' = callStack \/ callStack' = AtPc(Top.at + 1)
      BY DEF NativeSuspend
    <3> QED
      BY <1>1, <1>2, <2>1, <3>1, MoveVisible
  <2>2. CASE Exit /\ status' # "active"
    <3>1. doProcessSuspend
      BY <1>1, <1>2, <2>2 DEF SuspendIfAsked
    <3>2. callStack' = AtPc(Top.at + 1)
      BY <3>1 DEF NativeSuspend
    <3> QED
      BY <1>1, <1>2, <2>2, <3>2, ExitVisible
  <2> QED
    BY <2>1, <2>2 DEF NativeSuspend
<1>4. VM!SuspendIfAsked
  BY <1>1 DEF SuspendIfAsked, VM!SuspendIfAsked
<1> QED
  BY <1>1, <1>2, <1>3, <1>4
     DEF Flags, VM!Flags, VM!SuspendPoint, VM!Interpret, VM!Next

LEMMA NativeRetRefines ==
    ASSUME InductiveInv, NativeRet
    PROVE  VM!Next
<1>1. /\ InJit("run") /\ I.op \in {"ret"} /\ Exit /\ host' = host
      /\ UNCHANGED Flags /\ callStack' = Front(callStack)
      /\ status' = IF IsOutermost(callStack) THEN "finished" ELSE status
  BY DEF NativeRet, InJitAt
<1>2. /\ callStack \in Seq(Frames) /\ Depth \in Nat /\ Depth > 0
      /\ Len(callStack) = Depth /\ Current \in Frame /\ Top.at \in Nat
      /\ VisibleStack = AtPc(Top.at) /\ VM!At({"ret"})
  BY <1>1, RunningVisible
<1>3. VisibleStack' = callStack'
  BY <1>1, ExitVisible
<1>4. /\ AtPc(Top.at) \in Seq(Frames) /\ Len(AtPc(Top.at)) = Depth
      /\ \A j \in 1..Depth - 1 : AtPc(Top.at)[j] = callStack[j]
  BY <1>2, AtPcFacts
<1> HIDE DEF AtPc
<1>5. Front(AtPc(Top.at)) = Front(callStack)
  <2>1. /\ Front(AtPc(Top.at)) \in Seq(Frames) /\ Front(callStack) \in Seq(Frames)
        /\ Len(Front(AtPc(Top.at))) = Depth - 1 /\ Len(Front(callStack)) = Depth - 1
        /\ \A j \in 1..Depth - 1 : Front(AtPc(Top.at))[j] = Front(callStack)[j]
    <3>1. callStack # <<>> /\ AtPc(Top.at) # <<>>
      BY <1>2, <1>4
    <3> QED
      BY <1>2, <1>4, <3>1, FrontFacts
  <2> QED
    BY <2>1, <1>2
<1>6. IsOutermost(AtPc(Top.at)) <=> IsOutermost(callStack)
  BY <1>2, <1>4 DEF IsOutermost
<1> QED
  BY <1>1, <1>2, <1>3, <1>5, <1>6, SameLast, SameMarkers
     DEF Flags, VM!Flags, VM!Ret, VM!Interpret, VM!Next

\* An exception that a try block of the same function catches.
LEMMA NativeCatchRefines ==
    ASSUME InductiveInv, InductiveInv', NativeCatch
    PROVE  VM!Next
<1> DEFINE frame == [fn |-> Top.fn, pc |-> Top.at]
           known == Handlers[Top.fn][Max(Covering(frame))]
<1>1. /\ VMInv /\ NativeInv /\ VMInv' /\ InJit("catch") /\ host' = host
      /\ UNCHANGED Flags /\ callStack' = CleanStackAt(known)
      /\ status' = IF Catchers(callStack) = {} THEN status ELSE "active"
      /\ \/ /\ Last(callStack') = [fn |-> Top.fn, pc |-> known.catch]
            /\ native' = [native EXCEPT ![Len(native)].at = known.catch,
                                        ![Len(native)].state = "run"]
         \/ Exit
  BY InvHalves, HalvesAfter DEF NativeCatch, CoreInv
<1>2. /\ InNative /\ Top.kind = "jit" /\ native # <<>> /\ Top.level = Len(host)
      /\ InExecute /\ Depth \in Nat /\ Top.fn \in Fn
  BY <1>1, InJitFacts
<1>3. /\ status = "exception" /\ willBeCaught
      /\ Depth = Top.depth /\ Current.fn = Top.fn
      /\ Covering(Current) = Covering(frame) /\ Covering(Current) # {}
  BY <1>1 DEF NativeInv, CatchesHere
<1>4. Current \in Frame /\ Live(Current) /\ Base(callStack) \in 0..Depth - 1
      /\ callStack \in Seq(Frames)
  BY <1>1, <1>2, <1>3, ExecuteFacts DEF VMInv
<1>5. /\ Max(Covering(Current)) \in Covering(Current)
      /\ CatchPos(Current) \in 1..Len(Code[Current.fn])
      /\ CatchPos(Current) \in Nat
  <2>1. CatchPos(Current) \in 1..Len(Code[Current.fn])
    BY <1>3, <1>4, CatchPosFacts
  <2> QED
    BY <1>2, <1>3, <1>4, <2>1, CatchPosFacts, CodeFacts
<1>6. /\ known.catch = CatchPos(Current)
      /\ known.try <= Current.pc /\ Current.pc < known.catch
  BY <1>3, <1>5 DEF CatchPos, Covering
<1> HIDE DEF known
<1>7. callStack' = AtPc(CatchPos(Current))
  BY <1>1, <1>3, <1>6 DEF CleanStackAt
<1>8. Depth \in Catchers(callStack)
  <2>1. Depth \in Base(callStack) + 1..Len(callStack)
    BY <1>2, <1>4 DEF Depth
  <2>2. Covering(callStack[Depth]) # {}
    BY <1>3 DEF Current
  <2> QED
    BY <2>1, <2>2, Zenon DEF Catchers
<1>9. Unwound(callStack) = AtPc(CatchPos(Current))
  <2>1. \A i \in Catchers(callStack) : i \in Nat /\ i <= Depth
    BY <1>2, <1>4 DEF Catchers, Depth
  <2>2. Max(Catchers(callStack)) = Depth
    <3> DEFINE C == Catchers(callStack)
               d == Depth
    <3>0. d \in Nat /\ d \in C /\ \A i \in C : i \in Nat /\ i <= d
      BY <1>2, <1>8, <2>1, Zenon
    <3> HIDE DEF C, d
    <3>1. C \in SUBSET (0..d) /\ C # {}
      BY <3>0
    <3>2. Max(C) \in C /\ \A y \in C : Max(C) >= y
      BY <3>0, <3>1, MaxExists
    <3>3. Max(C) = d
      <4>1. PICK z : z = Max(C)
        OBVIOUS
      <4>2. z \in C /\ z >= d
        BY <3>0, <3>2, <4>1, Zenon
      <4>3. z \in Nat /\ z <= d
        BY <3>0, <4>2, Zenon
      <4> QED
        BY <3>0, <4>1, <4>2, <4>3
    <3> QED
      BY <3>3 DEF C, d
  <2>3. SubSeq(callStack, 1, Depth) = callStack
    BY <1>4 DEF Depth
  <2> QED
    BY <1>8, <2>2, <2>3 DEF Unwound, AtPc, Current
<1>10. VisibleStack = callStack
  BY <1>1, HiddenNowhere DEF InJit
<1>11. VisibleStack' = callStack'
  <2>1. CASE Exit
    <3> QED
      BY <1>1, <1>2, <2>1, AfterExitTop
  <2>2. CASE /\ Last(callStack') = [fn |-> Top.fn, pc |-> known.catch]
             /\ native' = [native EXCEPT ![Len(native)].at = known.catch,
                                         ![Len(native)].state = "run"]
    <3>1. Top'.at = known.catch
      BY <1>1, <1>2, <1>5, <1>6, <2>2, AfterUpdate
    <3>2. Current' = Last(callStack') /\ callStack' \in Seq(Frames)
      BY <1>1 DEF Current, Depth, Last, VMInv
    <3> QED
      BY <2>2, <3>1, <3>2, NothingHidden
  <2> QED
    BY <1>1, <2>1, <2>2
<1>12. Catch
  BY <1>1, <1>2, <1>3, <1>7, <1>8, <1>9 DEF Catch
<1> QED
  BY <1>10, <1>11, <1>12, PlainExecute

-----------------------------------------------------------------------------
(* The calls that generated code makes.                                    *)

\* A script call that is made, refused or put off.
LEMMA PrepareVisible ==
    ASSUME InductiveInv, InJit("run"), I.op \in ScriptCalls, host' = host,
           NEW room \in BOOLEAN, PrepareScriptCall(I.fn, room),
           VisibleStack' = callStack'
    PROVE  VM!Next
<1>1. /\ VM!Current = [fn |-> Top.fn, pc |-> Top.at]
      /\ VM!AtPc(Top.at + 1) = AtPc(Top.at + 1)
      /\ Len(callStack) = Depth /\ callStack \in Seq(Frames) /\ Depth \in Nat
      /\ Depth > 0 /\ Current \in Frame /\ Top.at + 1 \in Nat
      /\ VM!At(ScriptCalls)
  BY RunningVisible
<1> DEFINE caller == AtPc(Top.at + 1)
<1>2. Len(caller) = Depth
  BY <1>1, AtPcFacts
<1>3. CallScriptFunction(caller, I.fn, room)
  BY <1>1, <1>2, BoundAssumption DEF PrepareScriptCall, CallScriptFunction
<1>4. VM!CallScriptFunction(caller, I.fn, room)
  BY <1>3, SameCall
<1>5. Code[VM!Current.fn][VM!Current.pc] = I /\ VM!Current.pc = Top.at
  BY <1>1 DEF I
<1>6. VM!CallScriptFunction(VM!AtPc(VM!Current.pc + 1),
                           Code[VM!Current.fn][VM!Current.pc].fn, room)
  BY <1>1, <1>4, <1>5
<1>7. VM!ScriptCalls = ScriptCalls
  BY DEF VM!ScriptCalls, ScriptCalls
<1> QED
  BY <1>1, <1>6, <1>7 DEF VM!Call, VM!Interpret, VM!Next

\* The callee's generated code starts where its frame says.
LEMMA EnterVisible ==
    ASSUME NativeInv, native # <<>>, Top.at + 1 \in Nat, NEW g,
           callStack' \in Seq(Frames), Current' = Entry(g), EnterCallee(g)
    PROVE  VisibleStack' = callStack'
<1>1. PICK base \in Seq(Activation) :
        base = [native EXCEPT ![Len(native)].at = Top.at + 1,
                              ![Len(native)].state = "wait"]
  BY WaitingFacts
<1>2. Top' = Jit(g, 1, Depth + 1)
  BY <1>1, AfterAppend DEF EnterCallee, Waiting
<1>3. Top'.at = 1 /\ Current'.pc = 1
  BY <1>2 DEF Jit, Entry
<1> QED
  BY <1>3, NothingHidden

LEMMA ResumeVisible ==
    ASSUME InductiveInv, InJit("run"), host' = host, ResumeJitCallChain
    PROVE  VisibleStack' = callStack'
<1>1. /\ NativeInv /\ native # <<>> /\ Top.at + 1 \in Nat
  BY RunningVisible
<1>2. CASE Exit
  BY <1>2, ExitVisible
<1>3. CASE native' = Append(Waiting, [Top EXCEPT !.kind = "chain", !.state = "run"])
  <2>1. PICK base \in Seq(Activation) :
          base = [native EXCEPT ![Len(native)].at = Top.at + 1,
                                ![Len(native)].state = "wait"]
    BY <1>1, WaitingFacts
  <2>2. Top' = [Top EXCEPT !.kind = "chain", !.state = "run"]
    BY <1>3, <2>1, AfterAppend DEF Waiting
  <2>3. Top \in Activation
    BY InJitFacts, InvHalves DEF CoreInv
  <2>4. Top'.kind = "chain"
    BY <2>2, <2>3 DEF Activation
  <2> QED
    BY <2>4, HiddenNowhere DEF InJit
<1> QED
  BY <1>2, <1>3 DEF ResumeJitCallChain

LEMMA CallHereRefines ==
    ASSUME InductiveInv, InductiveInv', InJit("run"), I.op \in ScriptCalls,
           CallScriptFunctionHere \/ CallPointerHere
    PROVE  VM!Next
<1>1. PICK room \in BOOLEAN : PrepareScriptCall(I.fn, room)
  BY DEF CallScriptFunctionHere, CallPointerHere
<1>2. /\ InJit("run") /\ I.op \in ScriptCalls /\ I.op # "ret" /\ host' = host
      /\ \/ status' # "active" /\ Exit
         \/ status' = "active" /\ EnterCallee(I.fn)
         \/ ResumeJitCallChain
  BY DEF CallScriptFunctionHere, CallPointerHere, ScriptCalls
<1>3. /\ VMInv /\ NativeInv /\ FlagsOK /\ VMInv' /\ callStack' \in Seq(Frames)
  BY InvHalves, HalvesAfter DEF CoreInv
<1>4. native # <<>> /\ Top.at + 1 \in Nat
  BY <1>2, RunningVisible
<1>5. VisibleStack' = callStack'
  <2>1. CASE Exit
    BY <1>2, <2>1, ExitVisible
  <2>2. CASE status' = "active" /\ EnterCallee(I.fn)
    <3>1. Current' = Entry(I.fn)
      BY <1>1, <1>2, <1>3, <2>2, PrepareFacts
    <3> QED
      BY <1>3, <1>4, <2>2, <3>1, EnterVisible
  <2>3. CASE ResumeJitCallChain
    BY <1>2, <2>3, ResumeVisible
  <2> QED
    BY <1>2, <2>1, <2>2, <2>3
<1> QED
  BY <1>1, <1>2, <1>5, PrepareVisible

LEMMA CallsRefine ==
    ASSUME InductiveInv, InductiveInv',
           FastCallSimpleScript \/ CallScript \/ CallFunctionPointer
    PROVE  VM!Next
<1>1. /\ InJit("run") /\ I.op \in ScriptCalls
      /\ (CallScriptFunctionHere \/ CallPointerHere)
  BY DEF FastCallSimpleScript, CallScript, CallFunctionPointer, InJitAt, ScriptCalls
<1> QED
  BY <1>1, CallHereRefines

LEMMA CallNativeRefines ==
    ASSUME InductiveInv, InductiveInv', CallNative
    PROVE  VM!Next
<1>1. /\ InJit("run") /\ I.op \in {"call"} /\ host' = host
      /\ UNCHANGED <<status, Flags>> /\ ~doProcessSuspend /\ Depth <= MaxFrames
      /\ callStack' = Append(AtPc(Top.at + 1), Entry(I.fn))
      /\ EnterCallee(I.fn)
  BY DEF CallNative, InJitAt
<1>2. /\ NativeInv /\ native # <<>> /\ Top.at + 1 \in Nat /\ Depth \in Nat
      /\ callStack \in Seq(Frames) /\ Depth > 0 /\ Current \in Frame
      /\ callStack' \in Seq(Frames)
  BY <1>1, RunningVisible, HalvesAfter
<1>3. AtPc(Top.at + 1) \in Seq(Frames)
  BY <1>2, AtPcFacts
<1>4. Current' = Entry(I.fn)
  BY <1>1, <1>3 DEF Current, Depth
<1>5. VisibleStack' = callStack'
  BY <1>1, <1>2, <1>4, EnterVisible
<1>6. PrepareScriptCall(I.fn, TRUE)
  BY <1>1, <1>2, BoundAssumption
     DEF PrepareScriptCall, SuspendIfAsked, Flags
<1> QED
  BY <1>1, <1>5, <1>6, PrepareVisible DEF ScriptCalls

LEMMA CallNullRefines ==
    ASSUME InductiveInv, CallFunctionPointerNull
    PROVE  VM!Next
<1>1. /\ InJit("run") /\ I.op \in {"callptr", "method", "bound"} /\ host' = host
      /\ Raise(AtPc(Top.at + 1)) /\ Exit
  BY DEF CallFunctionPointerNull, InJitAt
<1>2. /\ VM!At({"callptr", "method", "bound"}) /\ VM!Current.pc = Top.at
      /\ VM!AtPc(Top.at + 1) = AtPc(Top.at + 1)
  BY <1>1, RunningVisible
<1>3. VM!Raise(AtPc(Top.at + 1))
  BY <1>1, ExitVisible, SameRaise
<1> QED
  BY <1>1, <1>2, <1>3 DEF VM!CallNull, VM!Interpret, VM!Next

-----------------------------------------------------------------------------
(* System functions called by generated code.                              *)

LEMMA NativeCallSysRefines ==
    ASSUME InductiveInv, InductiveInv', NativeCallSys
    PROVE  VM!Next
<1>1. /\ InJit("run") /\ I.op \in SystemCalls /\ callStack' = AtPc(Top.at)
      /\ host' = Append(host, [kind |-> "sys", depth |-> Depth])
      /\ UNCHANGED <<native, status, Flags>>
  BY DEF NativeCallSys, InJitAt
<1>2. /\ VM!At(SystemCalls) /\ VM!Depth = Depth /\ VisibleStack = AtPc(Top.at)
      /\ Top.level = Len(host)
  BY <1>1, RunningVisible
<1>3. VisibleStack' = callStack'
  <2>1. host \in Seq(HostAct)
    BY InvHalves DEF CoreInv, VMInv
  <2>2. Len(host') # Len(host) /\ Top' = Top
    BY <1>1, <2>1 DEF Top
  <2> QED
    BY <1>2, <2>2, HiddenNowhere DEF InNative
<1>4. VM!SystemCalls = SystemCalls
  BY DEF VM!SystemCalls, SystemCalls
<1> QED
  BY <1>1, <1>2, <1>3, <1>4
     DEF Flags, VM!Flags, VM!CallSys, VM!Interpret, VM!Next

\* The exception is raised behind the instruction; by SysInsideTry the same
\* try blocks cover it there.
LEMMA NativeThiscallNullRefines ==
    ASSUME InductiveInv, NativeThiscallNull
    PROVE  VM!Next
<1>1. /\ InJit("run") /\ I.op \in {"thiscall1"} /\ host' = host
      /\ Raise(AtPc(Top.at + 1)) /\ Exit
  BY DEF NativeThiscallNull, InJitAt
<1>2. /\ VM!At({"thiscall1"}) /\ VM!Current.pc = Top.at
      /\ VM!AtPc(Top.at + 1) = AtPc(Top.at + 1)
      /\ VisibleStack = AtPc(Top.at) /\ VMInv /\ NativeInv
      /\ callStack \in Seq(Frames) /\ Depth \in Nat /\ Depth > 0
      /\ Len(callStack) = Depth
      /\ Current \in Frame /\ Current.fn = Top.fn
      /\ Top.at \in Nat /\ Top.at + 1 \in Nat
  BY <1>1, RunningVisible
<1>3. VisibleStack' = callStack'
  BY <1>1, ExitVisible DEF Raise
<1> DEFINE a == AtPc(Top.at)
           b == AtPc(Top.at + 1)
<1>4. /\ Len(a) = Depth /\ Len(b) = Depth
      /\ \A j \in 1..Depth - 1 : a[j] = callStack[j] /\ b[j] = callStack[j]
      /\ a[Depth] = [fn |-> Top.fn, pc |-> Top.at]
      /\ b[Depth] = [fn |-> Top.fn, pc |-> Top.at + 1]
  BY <1>2, AtPcFacts
<1>5. Covering(a[Depth]) = Covering(b[Depth])
  <2>1. Top.fn \in Fn /\ Top.at \in 1..Len(Code[Top.fn])
    BY <1>1, <1>2, InJitFacts
  <2>2. Code[Top.fn][Top.at].op \in SystemCalls
    BY <1>1 DEF I, SystemCalls
  <2> QED
    BY <1>4, <2>1, <2>2, SysInsideTry
<1> HIDE DEF a, b
<1>6. \A j \in 1..Depth : Covering(a[j]) = Covering(b[j])
  BY <1>2, <1>4, <1>5
<1>7. FindExceptionTryCatch(a) = FindExceptionTryCatch(b)
  BY <1>2, <1>4, <1>6 DEF FindExceptionTryCatch
<1>8. VM!FindExceptionTryCatch(VisibleStack) = FindExceptionTryCatch(b)
  BY <1>2, <1>7, SameCatchers DEF a
<1> QED
  BY <1>1, <1>2, <1>3, <1>8
     DEF b, Raise, VM!ThiscallNull, VM!Interpret, VM!Next

\* What the system function's return leads to, whoever called it.
LEMMA ReturnVisible ==
    ASSUME VisibleStack = callStack, VisibleStack' = callStack',
           InSys, ~NestOpen, host' = Front(host), UNCHANGED Flags,
           callStack' = AtPc(Current.pc + 1),
           \/ Code[Current.fn][Current.pc].op = "bound" /\ UNCHANGED status
           \/ /\ Code[Current.fn][Current.pc].op # "bound"
              /\ \/ SuspendIfAsked
                 \/ status = "exception" /\ willBeCaught /\ UNCHANGED status
    PROVE  VM!Next
<1>1. /\ VM!Current = Current
      /\ VM!AtPc(Current.pc + 1) = AtPc(Current.pc + 1)
      /\ (VM!InSys <=> InSys) /\ (VM!NestOpen <=> NestOpen)
      /\ VM!Front(host) = Front(host)
  BY PlainFacts, SameLast
<1>2. SuspendIfAsked => VM!SuspendIfAsked
  BY DEF VM!SuspendIfAsked, SuspendIfAsked
<1>3. VM!SysFinish
  BY <1>1, <1>2 DEF VM!SysFinish
<1> QED
  BY <1>1, <1>3 DEF Flags, VM!Flags, VM!SysReturn, VM!Next

LEMMA NativeReturnRefines ==
    ASSUME InductiveInv, NativeSysReturn \/ NativeBoundReturn
    PROVE  VM!Next
<1>1. /\ InSys /\ ~NestOpen /\ CalledFromNative /\ host' = Front(host)
      /\ callStack' = AtPc(Top.at + 1) /\ UNCHANGED Flags
      /\ GoTo(Top.at + 1) \/ Exit
         \/ native' = [native EXCEPT ![Len(native)].state = "catch"]
  BY DEF NativeSysReturn, NativeBoundReturn
<1>2. VMInv /\ NativeInv
  BY InvHalves DEF CoreInv
<1>3. PICK n \in Nat :
        /\ n = Len(native) /\ n > 0 /\ Top = native[n] /\ Top \in Activation
        /\ Top.kind = "jit" /\ Top.state = "run" /\ Top.fn \in Fn
        /\ Top.level = Len(host) - 1 /\ Top.depth = Depth /\ Depth \in Nat
        /\ Top.at \in 1..Len(Code[Top.fn])
        /\ Code[Top.fn][Top.at].op \in SystemCalls
        /\ Current = [fn |-> Top.fn, pc |-> Top.at]
  BY <1>1, <1>2, CallerFacts
<1>4. /\ callStack' = AtPc(Current.pc + 1)
      /\ Code[Current.fn][Current.pc] = I
      /\ Top.at \in Nat /\ Top.at + 1 \in Nat
  BY <1>1, <1>3, CodeFacts DEF I
<1>5. Len(host') = Top.level
  <2>1. host \in Seq(HostAct) /\ host # <<>>
    BY <1>1, <1>2 DEF VMInv, InSys
  <2> QED
    BY <1>1, <1>3, <2>1, FrontFacts
<1>6. VisibleStack = callStack
  <2>1. ~InNative
    <3>1. n \in 1..Len(native)
      BY <1>3
    <3> QED
      BY <1>1, <1>2, <3>1, SysNativeFacts
  <2> QED
    BY <2>1, HiddenNowhere
<1>7. native # <<>>
  BY <1>3
<1>8. VisibleStack' = callStack'
  <2>1. CASE GoTo(Top.at + 1)
    <3>1. VisibleStack' = [callStack' EXCEPT ![Len(callStack')].pc = Top.at + 1]
      BY <1>2, <1>3, <1>4, <1>5, <1>7, <2>1, AfterGoTo
    <3>2. /\ callStack \in Seq(Frames) /\ Depth > 0 /\ Current \in Frame
      BY <1>1, <1>2, <1>3, SysFacts DEF Frame
    <3>3. Len(callStack') = Depth
      <4>1. Len(AtPc(Top.at + 1)) = Depth
        BY <1>4, <3>2, AtPcFacts
      <4> QED
        BY <1>1, <4>1
    <3>4. [AtPc(Top.at + 1) EXCEPT ![Depth].pc = Top.at + 1] = AtPc(Top.at + 1)
      BY DEF AtPc
    <3> QED
      BY <1>1, <3>1, <3>3, <3>4
  <2>2. CASE Exit
    BY <1>2, <1>5, <1>7, <2>2, AfterExitTop
  <2>3. CASE native' = [native EXCEPT ![Len(native)].state = "catch"]
    BY <1>2, <1>4, <1>7, <2>3, AfterStop
  <2> QED
    BY <1>1, <2>1, <2>2, <2>3
<1>9. \/ I.op = "bound" /\ UNCHANGED status
      \/ /\ I.op # "bound"
         /\ \/ SuspendIfAsked
            \/ status = "exception" /\ willBeCaught /\ UNCHANGED status
  BY DEF NativeSysReturn, NativeBoundReturn, SuspendIfAsked
<1> QED
  BY <1>1, <1>4, <1>6, <1>8, <1>9, ReturnVisible

-----------------------------------------------------------------------------
(* Entering and leaving generated code, which nobody sees.                 *)

LEMMA EnterHidden ==
    ASSUME InductiveInv, JitEntry \/ ChainEnter
    PROVE  UNCHANGED VM!vmVars
<1>1. /\ native' = Append(native, Jit(Current.fn, Current.pc, Depth))
      /\ UNCHANGED vmVars /\ ~InJit("run")
  BY DEF JitEntry, ChainEnter, InChain, InJit
<1>2. native \in Seq(Activation) /\ callStack \in Seq(Frames)
  BY InvHalves DEF CoreInv, NativeInv, VMInv
<1>3. Top'.at = Current.pc
  BY <1>1, <1>2, AfterAppend DEF Jit
<1>4. Current' = Current /\ callStack' \in Seq(Frames)
  BY <1>1, <1>2 DEF vmVars, Current, Depth
<1>5. VisibleStack' = callStack'
  BY <1>3, <1>4, NothingHidden
<1>6. VisibleStack = callStack
  BY <1>1, HiddenNowhere
<1> QED
  BY <1>1, <1>5, <1>6 DEF vmVars, VM!vmVars

LEMMA AfterCallHidden ==
    ASSUME InductiveInv, AfterCall
    PROVE  UNCHANGED VM!vmVars
<1>1. InJit("wait") /\ UNCHANGED vmVars
  BY DEF AfterCall
<1>2. VMInv /\ NativeInv /\ callStack \in Seq(Frames)
  BY InvHalves DEF CoreInv, VMInv
<1>3. /\ Top.kind = "jit" /\ Top.state = "wait" /\ native # <<>> /\ InNative
      /\ Len(native) > 0 /\ Top.level = Len(host) /\ Top \in Activation
  BY <1>1, <1>2, InJitFacts
<1>4. VisibleStack = callStack
  BY <1>3, HiddenNowhere DEF InJit
<1>5. VisibleStack' = callStack'
  <2>1. CASE BackInOwnFrame(Top) /\
             native' = [native EXCEPT ![Len(native)].state = "run"]
    <3>1. Top.at \in Nat
      BY <1>3 DEF Activation
    <3>2. Top'.at = Top.at
      BY <1>2, <1>3, <2>1, <3>1, AfterUpdate
    <3>3. OwnFrame(Top)
      <4>1. Len(native) \in 1..Len(native) /\ Top = native[Len(native)]
        BY <1>2, <1>3, NativeFacts DEF Top, Last
      <4>2. ActivationShape(Len(native))
        BY <1>2, <4>1 DEF NativeInv
      <4> QED
        BY <1>3, <4>1, <4>2 DEF ActivationShape
    <3>4. Current.pc = Top.at
      BY <2>1, <3>3 DEF OwnFrame, Current, BackInOwnFrame
    <3>5. Current' = Current /\ callStack' \in Seq(Frames)
      BY <1>1, <1>2 DEF vmVars, Current, Depth
    <3> QED
      BY <3>2, <3>4, <3>5, NothingHidden
  <2>2. CASE Exit
    BY <1>1, <1>2, <1>3, <2>2, AfterExitTop DEF vmVars
  <2> QED
    BY <2>1, <2>2 DEF AfterCall
<1> QED
  BY <1>1, <1>4, <1>5 DEF vmVars, VM!vmVars

LEMMA ChainReturnHidden ==
    ASSUME InductiveInv, ChainReturn
    PROVE  UNCHANGED VM!vmVars
<1>1. InChain /\ UNCHANGED vmVars
  BY DEF ChainReturn
<1>2. VMInv /\ NativeInv /\ callStack \in Seq(Frames)
      /\ native \in Seq(Activation)
  BY InvHalves DEF CoreInv, VMInv, NativeInv
<1>3. PICK m \in Nat, w \in Activation :
        /\ Len(native) = m + 1 /\ m > 0 /\ w = native[m]
        /\ w.kind = "jit" /\ w.state = "wait" /\ OwnFrame(w)
        /\ w.depth = Top.depth /\ w.level = Len(host)
  BY <1>1, <1>2, ChainFacts
<1>4. VisibleStack = callStack
  BY <1>1, HiddenNowhere DEF InChain, InJit
<1>5. /\ Front(native) = SubSeq(native, 1, m)
      /\ Front(native) \in Seq(Activation) /\ Len(Front(native)) = m
      /\ \A k \in 1..m : Front(native)[k] = native[k]
  <2>1. native # <<>> /\ Len(native) - 1 = m
    BY <1>3
  <2> QED
    BY <1>2, <2>1, FrontFacts DEF Front
<1>6. VisibleStack' = callStack'
  <2>1. CASE /\ BackInOwnFrame(Top)
             /\ native' = [Front(native) EXCEPT ![Len(native) - 1].state = "run"]
    <3>1. Len(native) - 1 = m /\ Front(native)[m] = w /\ m \in 1..m
      BY <1>3, <1>5
    <3>2. Len(native') = m /\ native'[m] = [w EXCEPT !.state = "run"]
      BY <1>5, <2>1, <3>1
    <3>3. [w EXCEPT !.state = "run"].at = w.at
      BY <1>3 DEF Activation
    <3>4. Top'.at = w.at
      BY <3>2, <3>3 DEF Top, Last
    <3>5. Current.pc = w.at
      BY <1>3, <2>1 DEF OwnFrame, Current, BackInOwnFrame
    <3>6. Current' = Current /\ callStack' \in Seq(Frames)
      BY <1>1, <1>2 DEF vmVars, Current, Depth
    <3> QED
      BY <3>4, <3>5, <3>6, NothingHidden
  <2>2. CASE native' = Front(Front(native))
    <3>1. /\ native' = SubSeq(native, 1, m - 1) /\ m - 1 \in 0..Len(native) - 1
          /\ native[(m - 1) + 1].level = Len(host')
      BY <1>1, <1>2, <1>3, <1>5, <2>2 DEF Front, vmVars
    <3> QED
      BY <1>2, <3>1, AfterExit
  <2> QED
    BY <2>1, <2>2 DEF ChainReturn
<1> QED
  BY <1>1, <1>4, <1>6 DEF vmVars, VM!vmVars

-----------------------------------------------------------------------------
(* The interpreter, system functions and the application.                  *)

\* Generated code has the control only under an Execute loop.
LEMMA NativeInExecute ==
    ASSUME InductiveInv
    PROVE  InNative => InExecute
BY InvHalves, InNativeFacts DEF CoreInv

LEMMA NativeInExecuteAfter ==
    ASSUME InductiveInv'
    PROVE  InNative' => InExecute'
<1>1. SUFFICES ASSUME InNative' PROVE InExecute'
  OBVIOUS
<1>2. NativeInv' /\ VMInv'
  BY HalvesAfter
<1>3. /\ native' \in Seq(Activation) /\ native' # <<>> /\ host' \in Seq(HostAct)
      /\ Top'.level = Len(host') /\ \A i \in 1..Len(native') : ActivationShape(i)'
  BY <1>1, <1>2 DEF NativeInv, VMInv, InNative
<1>4. Len(native') \in 1..Len(native') /\ Top' = native'[Len(native')]
  BY <1>3 DEF Top, Last
<1>5. ActivationShape(Len(native))'
  BY <1>3, <1>4
<1>6. /\ Len(host') \in 1..Len(host') /\ host'[Len(host')].kind = "exec"
  BY <1>3, <1>4, <1>5 DEF ActivationShape
<1> QED
  BY <1>3, <1>6 DEF InExecute, Last

LEMMA NobodyMoves ==
    ASSUME UNCHANGED <<host, callStack, native>>
    PROVE  VisibleStack' = VisibleStack
BY DEF VisibleStack, InJit, InNative, Top, AtPc, Depth

LEMMA InterpretRefines ==
    ASSUME InductiveInv, InductiveInv', InterpretStep
    PROVE  VM!Next
<1>1. ~InNative /\ Interpret /\ native' = native
  BY DEF InterpretStep
<1>2. VisibleStack = callStack
  BY <1>1, HiddenNowhere
<1>3. ~InNative'
  <2>1. CASE CallSys
    <3>1. host \in Seq(HostAct)
      BY InvHalves DEF CoreInv, VMInv
    <3>2. Last(host').kind = "sys"
      BY <2>1, <3>1 DEF CallSys, Last
    <3> QED
      BY <3>2, NativeInExecuteAfter DEF InExecute
  <2>2. CASE ~CallSys
    <3>1. host' = host
      BY <1>1, <2>2
         DEF Interpret, Step, Branch, Throw, SuspendPoint, Ret, Call, CallNull,
             ThiscallNull
    <3> QED
      BY <1>1, <3>1 DEF InNative, Top
  <2> QED
    BY <2>1, <2>2
<1>4. VisibleStack' = callStack'
  BY <1>3, HiddenNowhere
<1> QED
  BY <1>1, <1>2, <1>4, PlainInterpret DEF VM!Next

LEMMA SystemRefines ==
    ASSUME InductiveInv, InductiveInv',
           InterpretedSysReturn \/ (InSystemCall /\ UNCHANGED native)
    PROVE  VM!Next
<1>1. InSys /\ native' = native
  BY DEF InterpretedSysReturn, InSystemCall, SysReturn, SysRaise, SysPop, SysNest
<1>2. VisibleStack = callStack
  BY <1>1, NativeInExecute, HiddenNowhere DEF InSys, InExecute
<1>3. ~InNative'
  <2>1. CASE InSystemCall
    <3>1. host' = host
      BY <2>1 DEF InSystemCall, SysRaise, SysPop, SysNest
    <3> QED
      BY <1>1, <3>1, NativeInExecuteAfter DEF InSys, InExecute
  <2>2. CASE InterpretedSysReturn
    <3>1. host \in Seq(HostAct) /\ host # <<>>
      BY <1>1, InvHalves DEF CoreInv, VMInv, InSys
    <3>2. Len(host') = Len(host) - 1
      BY <2>2, <3>1, FrontFacts DEF InterpretedSysReturn, SysReturn
    <3> QED
      BY <1>1, <2>2, <3>2 DEF InterpretedSysReturn, CalledFromNative, InNative, Top
  <2> QED
    BY <2>1, <2>2
<1>4. VisibleStack' = callStack'
  BY <1>3, HiddenNowhere
<1> QED
  BY <1>2, <1>4, PlainSystem DEF InterpretedSysReturn

LEMMA ExecuteRefines ==
    ASSUME InductiveInv, InductiveInv', UNCHANGED native,
           Execute \/ (\E f \in Fn : Prepare(f)) \/ ((Catch \/ Done) /\ ~InNative)
    PROVE  VM!Next
<1>1. VMInv /\ NativeInv /\ host \in Seq(HostAct) /\ native \in Seq(Activation)
  BY InvHalves DEF CoreInv, VMInv, NativeInv
<1>2. ~InNative
  BY NativeInExecute DEF Execute, Prepare, InSys, InExecute
<1>3. ~InNative'
  <2>1. CASE Execute
    <3>1. SUFFICES ASSUME InNative' PROVE FALSE
      OBVIOUS
    <3>2. /\ native # <<>> /\ Top.level = Len(host')
      BY <3>1 DEF InNative, Top
    <3>3. Len(native) \in 1..Len(native) /\ Top = native[Len(native)]
      BY <1>1, <3>2 DEF Top, Last
    <3>4. ActivationShape(Len(native))
      BY <1>1, <3>3 DEF NativeInv
    <3>5. Top.level \in 1..Len(host)
      BY <3>3, <3>4 DEF ActivationShape
    <3>6. Len(host') = Len(host) + 1
      BY <1>1, <2>1 DEF Execute
    <3> QED
      BY <1>1, <3>2, <3>5, <3>6
  <2>2. CASE \E f \in Fn : Prepare(f)
    BY <2>2, NativeInExecuteAfter DEF Prepare, InExecute
  <2>3. CASE Catch
    BY <1>2, <2>3 DEF Catch, InNative, Top
  <2>4. CASE Done
    <3>1. SUFFICES ASSUME InExecute' PROVE FALSE
      BY NativeInExecuteAfter
    <3>2. /\ InExecute /\ host # <<>> /\ host' = Front(host)
      BY <2>4 DEF Done, InExecute
    <3>3. /\ host' \in Seq(HostAct) /\ Len(host') = Len(host) - 1
          /\ \A i \in 1..Len(host) - 1 : host'[i] = host[i]
      BY <1>1, <3>2, FrontFacts
    <3>4. host' # <<>> /\ Last(host').kind = "exec"
      BY <3>1 DEF InExecute
    <3>5. Len(host) \in 2..Len(host) /\ Len(host) - 1 \in 1..Len(host) - 1
      BY <1>1, <3>3, <3>4
    <3>6. host[Len(host)].kind # host[Len(host) - 1].kind
      BY <1>1, <3>5 DEF VMInv, HostShape
    <3>7. host[Len(host)].kind = "exec"
      BY <3>2 DEF InExecute, Last
    <3>8. host[Len(host) - 1].kind = "exec"
      BY <3>3, <3>4, <3>5 DEF Last
    <3> QED
      BY <3>6, <3>7, <3>8
  <2> QED
    BY <2>1, <2>2, <2>3, <2>4
<1>4. VisibleStack = callStack /\ VisibleStack' = callStack'
  BY <1>2, <1>3, HiddenNowhere
<1> QED
  BY <1>4, PlainExecute

LEMMA RequestRefines ==
    ASSUME RequestSuspend, UNCHANGED native
    PROVE  VM!Next
BY NobodyMoves DEF RequestSuspend, VM!RequestSuspend, VM!Next

-----------------------------------------------------------------------------
(* Inlined bodies.                                                         *)

\* A body that is over moves generated code past the call.
LEMMA InlinedRetRefines ==
    ASSUME InductiveInv, InlinedRet, Len(body) = 1
    PROVE  VM!Next
<1>1. /\ InJit("run") /\ body # <<>> /\ UNCHANGED vmVars /\ GoTo(Top.at + 1)
  BY DEF InlinedRet, InBodyAt
<1>2. /\ Top.at + 1 \in Nat
      /\ VM!Current = [fn |-> Top.fn, pc |-> Top.at]
      /\ \A ops : VM!At(ops) <=> I.op \in ops
  BY <1>1, RunningVisible
<1>3. Code[VM!Current.fn][VM!Current.pc] = I /\ VM!Current.pc = Top.at
  BY <1>2 DEF I
<1>4. I.op \in ScriptCalls /\ I.fn \in Inlined
  <2>1. I.op \in ScriptCalls /\ body[1].fn = I.fn /\ body[1].fn \in Inlined
    BY <1>1, BodyFacts
  <2> QED
    BY <2>1
<1>5. VisibleStack' = VM!AtPc(Top.at + 1)
  BY <1>1, <1>2, MoveVisible DEF vmVars
<1>6. VM!At(VM!ScriptCalls)
  BY <1>2, <1>4 DEF VM!ScriptCalls, ScriptCalls
<1>7. UNCHANGED VM!Flags /\ UNCHANGED <<host, status>>
  BY <1>1 DEF vmVars, VM!Flags
<1> QED
  BY <1>3, <1>4, <1>5, <1>6, <1>7 DEF VM!CallInOneStep, VM!Next

\* Inside a body nothing visible changes; its slow path is the call it stands
\* for.
LEMMA InlinedBodyRefines ==
    ASSUME InductiveInv, InductiveInv', InlinedBody
    PROVE  VM!Next \/ UNCHANGED VM!vmVars
<1>1. CASE InlinedRet /\ Len(body) = 1
  BY <1>1, InlinedRetRefines
<1>2. CASE InlinedSlow
  <2>1. /\ InJit("run") /\ I.op \in ScriptCalls
        /\ (CallScriptFunctionHere \/ CallPointerHere)
    BY <1>2, BodyFacts DEF InlinedSlow, InBodyAt
  <2> QED
    BY <2>1, CallHereRefines
<1>3. CASE ~(InlinedRet /\ Len(body) = 1) /\ ~InlinedSlow
  <2>1. UNCHANGED native /\ UNCHANGED vmVars
    BY <1>3
       DEF InlinedBody, CallInlined, InlinedStep, InlinedBranch, InlinedCall,
           InlinedRet
  <2> QED
    BY <2>1, NobodyMoves DEF vmVars, VM!vmVars
<1> QED
  BY <1>1, <1>2, <1>3

-----------------------------------------------------------------------------
(* The refinement.                                                         *)

LEMMA InitRefines ==
    ASSUME JitInit
    PROVE  VM!Init
<1>1. ~InNative
  BY DEF JitInit, InNative
<1> QED
  BY <1>1, HiddenNowhere DEF JitInit, Init, VM!Init

LEMMA StepRefines ==
    ASSUME InductiveInv, InductiveInv', [JitNext]_vars
    PROVE  VM!Next \/ UNCHANGED VM!vmVars
<1>1. CASE Native
  <2>1. CASE NativeStep \/ NativeBranch
    BY <2>1, NativeStepRefines
  <2>2. CASE NativeThrow
    BY <2>2, NativeThrowRefines
  <2>3. CASE NativeCatch
    BY <2>3, NativeCatchRefines
  <2>4. CASE NativeSuspend
    BY <2>4, NativeSuspendRefines
  <2>5. CASE NativeRet
    BY <2>5, NativeRetRefines
  <2>6. CASE NativeCallSys
    BY <2>6, NativeCallSysRefines
  <2>7. CASE NativeThiscallNull
    BY <2>7, NativeThiscallNullRefines
  <2>8. CASE CallNative
    BY <2>8, CallNativeRefines
  <2>9. CASE FastCallSimpleScript \/ CallScript \/ CallFunctionPointer
    BY <2>9, CallsRefine
  <2>10. CASE CallFunctionPointerNull
    BY <2>10, CallNullRefines
  <2>11. CASE AfterCall
    BY <2>11, AfterCallHidden
  <2>12. CASE ChainEnter
    BY <2>12, EnterHidden
  <2>13. CASE ChainReturn
    BY <2>13, ChainReturnHidden
  <2> QED
    BY <1>1, <2>1, <2>2, <2>3, <2>4, <2>5, <2>6, <2>7, <2>8, <2>9, <2>10,
       <2>11, <2>12, <2>13 DEF Native
<1>2. CASE JitEntry
  BY <1>2, EnterHidden
<1>3. CASE InterpretStep
  BY <1>3, InterpretRefines
<1>4. CASE NativeSysReturn \/ NativeBoundReturn
  BY <1>4, NativeReturnRefines
<1>5. CASE InterpretedSysReturn \/ (InSystemCall /\ UNCHANGED native)
  BY <1>5, SystemRefines
<1>6. CASE (Catch \/ Done) /\ ~InNative /\ UNCHANGED native
  BY <1>6, ExecuteRefines
<1>7. CASE Application
  <2>1. UNCHANGED native /\ (Execute \/ RequestSuspend \/ \E f \in Fn : Prepare(f))
    BY <1>7 DEF Application
  <2> QED
    BY <2>1, ExecuteRefines, RequestRefines
<1>8. CASE UNCHANGED vars
  BY <1>8, NobodyMoves DEF vars, vmVars, VM!vmVars
<1>9. CASE InlinedBody
  BY <1>9, InlinedBodyRefines
<1> QED
  BY <1>1, <1>2, <1>3, <1>4, <1>5, <1>6, <1>7, <1>8, <1>9 DEF JitNext, Run, Plain

\* The JIT implements the interpreter: for every script, whichever of its
\* functions are compiled or inlined, whatever is called from which of the two
\* worlds and wherever it fails, is suspended or is re-entered, the call stack,
\* the status and the pending requests are those of an interpreted run, but
\* that a call of an inlined function may be over in one step.
THEOREM Refinement == JitSpec => ImplementsVM
<1>1. JitInit => VM!Init
  BY InitRefines
<1>2. InductiveInv /\ InductiveInv' /\ [JitNext]_vars => [VM!Next]_VM!vmVars
  BY StepRefines
<1> QED
  BY <1>1, <1>2, Invariance, PTL DEF JitSpec, ImplementsVM, VM!Spec
==============================================================================
