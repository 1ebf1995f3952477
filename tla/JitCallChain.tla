----------------------------- MODULE JitCallChain -----------------------------
(***************************************************************************)
(* The virtual machine with the JIT in it.  The interpreter of ScriptVM    *)
(* enters generated code at a JitEntry; generated code then calls script   *)
(* and system functions itself, so that C++ activations pile up beside the *)
(* VM's call stack:                                                        *)
(*   - "jit" is a running compiled function.  It keeps its own position in *)
(*     the bytecode (at): m_regs.programPointer, the pc of the current     *)
(*     frame, is stale while it runs and is brought up to date only before *)
(*     calls, exceptions and exits;                                        *)
(*   - "chain" is the loop of ResumeJitCallChain under a helper call.      *)
(* The body of a small function is put in the place of its call: it runs   *)
(* without a frame of its own, and polls nothing (body is where it is).    *)
(* An activation may go on after a call only when the callee has returned  *)
(* to its frame; in every other case (suspension, an exception, a callee   *)
(* left to the interpreter) all of them return, down to ExecuteNext.       *)
(***************************************************************************)
EXTENDS ScriptVM

CONSTANTS
    Compiled,   \* the functions whose scriptData->jitFunction is set
    Simple,     \* CanFastCallSimpleScript: no try block, no object variable
    Inlined,    \* DecodeInlineScriptBody or DecodeSimpleFactory accepts them
    MaxDirect   \* kMaxDirectJitCallDepth

ASSUME JitAssumption ==
    /\ Compiled \subseteq Fn /\ Simple \subseteq Fn
    /\ \A f \in Simple : Handlers[f] = <<>>
    /\ MaxDirect \in Nat

\* What an inlined body may be made of: no try block, and no call but of other
\* bodies, at most two deep, with a factory in the last.  (Bodies that call a
\* function pointer are in module FunctionCode.)
ASSUME InlineAssumption ==
    /\ Inlined \subseteq Fn
    /\ \A f \in Inlined : \A p \in 1..Len(Code[f]) :
        /\ Code[f][p].op \in {"entry", "op", "div", "br", "suspend", "call", "ret"}
        /\ Code[f][p].op = "call" => Code[f][p].fn \in Inlined
    /\ \A f \in Inlined : Handlers[f] = <<>>
    /\ \E height \in [Inlined -> 0..3] : \A f \in Inlined :
        \A p \in 1..Len(Code[f]) :
            Code[f][p].op = "call" => height[Code[f][p].fn] < height[f]

\* A system call is followed by a JitEntry (as_bytecode.cpp:1691), so the
\* position after it is in the same try blocks as the call.
ASSUME SysInsideTry ==
    \A f \in Fn : \A p \in 1..Len(Code[f]) :
        Code[f][p].op \in SystemCalls =>
            Covering([fn |-> f, pc |-> p]) = Covering([fn |-> f, pc |-> p + 1])

VARIABLES
    native,     \* the activations of generated code and chain loops
    body        \* the positions in the inlined bodies that the innermost one
                \* is in, the body called last at the end

vars == <<native, body, vmVars>>

Activation ==
    [kind : {"jit", "chain"},
     fn : Fn,           \* the compiled function (of a chain: the caller's)
     at : Nat,          \* where generated code is, or goes on after a call
     depth : Nat,       \* Len(callStack) with its own frame on top
     level : Nat,       \* Len(host) when it was entered
     state : {"run", "wait", "catch"}]

Jit(f, p, d) ==
    [kind |-> "jit", fn |-> f, at |-> p, depth |-> d, level |-> Len(host),
     state |-> "run"]

Top == Last(native)

\* Control is in generated code or in a chain loop, not in the interpreter.
InNative == native # <<>> /\ Top.level = Len(host)
InJit(s) == InNative /\ Top.kind = "jit" /\ Top.state = s

-----------------------------------------------------------------------------
(* The interpreter.                                                        *)

\* At a JitEntry with an entry id the interpreter calls the generated code.
JitEntry ==
    /\ At({"entry"}) /\ ~InNative
    /\ Current.fn \in Compiled
    /\ native' = Append(native, Jit(Current.fn, Current.pc, Depth))
    /\ UNCHANGED vmVars

\* Elsewhere, and in a function that was not compiled, it interprets.
InterpretStep ==
    /\ ~InNative
    /\ At({"entry"}) => Current.fn \notin Compiled
    /\ Interpret
    /\ UNCHANGED native

-----------------------------------------------------------------------------
(* Generated code.  The instruction under it, and the frames once the      *)
(* program pointer is set to p.                                            *)

I == Code[Top.fn][Top.at]
InJitAt(ops) == InJit("run") /\ body = <<>> /\ I.op \in ops

GoTo(p) == native' = [native EXCEPT ![Len(native)].at = p]
Exit == native' = Front(native)

NativeStep ==
    /\ InJitAt({"entry", "op", "div"})
    /\ GoTo(Top.at + 1)
    /\ UNCHANGED vmVars

\* Broken: jumps to the displacement instead of the position it leads to.
BranchToDisplacement ==
    /\ InJitAt({"br"})
    /\ \E p \in {Top.at + 1, I.to - Top.at} : GoTo(p)
    /\ UNCHANGED vmVars

NativeBranch ==
    /\ InJitAt({"br"})
    /\ \E p \in {Top.at + 1, I.to} : GoTo(p)
    /\ UNCHANGED vmVars

\* EmitInternalException: inside a try block RaiseAndCatchInternalException,
\* whose second half is CatchLocalException, else exit with the exception.
NativeThrow ==
    /\ InJitAt({"div"})
    /\ Raise(AtPc(Top.at))
    /\ IF Covering([fn |-> Top.fn, pc |-> Top.at]) # {}
       THEN native' = [native EXCEPT ![Len(native)].state = "catch"]
       ELSE Exit
    /\ UNCHANGED host

\* Unwinding with a try block already known for the current frame.
CleanStackAt(known) ==
    IF /\ Current.fn = Top.fn
       /\ known.try <= Current.pc /\ Current.pc < known.catch
    THEN AtPc(known.catch)
    ELSE Unwound(callStack)

\* CatchLocalException and the test of its callers: go on at the catch block
\* if that is where the exception was caught, else leave.
NativeCatch ==
    /\ InJit("catch")
    /\ LET frame == [fn |-> Top.fn, pc |-> Top.at]
           known == Handlers[Top.fn][Max(Covering(frame))]
           stack == CleanStackAt(known)
       IN  /\ callStack' = stack
           /\ status' = IF Catchers(callStack) = {} THEN status ELSE "active"
           /\ IF /\ status' = "active"
                 /\ Last(stack) = [fn |-> Top.fn, pc |-> known.catch]
              THEN native' = [native EXCEPT ![Len(native)].at = known.catch,
                                            ![Len(native)].state = "run"]
              ELSE Exit
    /\ UNCHANGED <<host, Flags>>

\* Broken: suspends at the SUSPEND instruction instead of after it.
SuspendAtInstruction ==
    /\ InJitAt({"suspend"})
    /\ SuspendIfAsked
    /\ IF doProcessSuspend
       THEN callStack' = AtPc(Top.at)
       ELSE UNCHANGED callStack
    /\ IF status' = "active" THEN GoTo(Top.at + 1) ELSE Exit
    /\ UNCHANGED <<host, Flags>>

\* Broken: generated code does not poll the request.
SuspendNotPolled ==
    /\ InJitAt({"suspend"})
    /\ GoTo(Top.at + 1)
    /\ UNCHANGED vmVars

\* The SUSPEND instruction; BcSuspend when there may be something to do.
NativeSuspend ==
    /\ InJitAt({"suspend"})
    /\ SuspendIfAsked
    /\ IF doProcessSuspend
       THEN callStack' = AtPc(Top.at + 1)
       ELSE UNCHANGED callStack
    /\ IF status' = "active" THEN GoTo(Top.at + 1) ELSE Exit
    /\ UNCHANGED <<host, Flags>>

\* RET, inline or BcRet.  Both leave the generated code.
NativeRet ==
    /\ InJitAt({"ret"})
    /\ callStack' = Front(callStack)
    /\ status' = IF IsOutermost(callStack) THEN "finished" ELSE status
    /\ Exit
    /\ UNCHANGED <<host, Flags>>

-----------------------------------------------------------------------------
(* Calls of script functions.                                              *)

\* The caller now waits at the next instruction.
Waiting ==
    [native EXCEPT ![Len(native)].at = Top.at + 1,
                   ![Len(native)].state = "wait"]

\* Broken: the callee takes the caller's depth for its own.
EnterAtCallerDepth(g) == native' = Append(Waiting, Jit(g, 1, Depth))

EnterCallee(g) == native' = Append(Waiting, Jit(g, 1, Depth + 1))

\* ResumeJitCallChain, called at caller depth Depth.
ResumeJitCallChain ==
    IF Depth - 1 >= MaxDirect
    THEN Exit
    ELSE native' = Append(Waiting, [Top EXCEPT !.kind = "chain", !.state = "run"])

\* Broken: the return position is that of the call itself.
PrepareReturnToCall(g, room) ==
    LET caller == AtPc(Top.at) IN
    IF Depth > MaxFrames THEN Raise(caller)
    ELSE IF ~room THEN Raise(Append(caller, Entry(g)))
    ELSE /\ callStack' = Append(caller, Entry(g))
         /\ SuspendIfAsked
         /\ UNCHANGED <<doProcessSuspend, doSuspend, willBeCaught>>

\* PrepareScriptCall: push the caller with its return position, enter g.
PrepareScriptCall(g, room) ==
    LET caller == AtPc(Top.at + 1) IN
    IF Depth > MaxFrames THEN Raise(caller)
    ELSE IF ~room THEN Raise(Append(caller, Entry(g)))
    ELSE /\ callStack' = Append(caller, Entry(g))
         /\ SuspendIfAsked
         /\ UNCHANGED <<doProcessSuspend, doSuspend, willBeCaught>>

\* CallScriptFunction and CallFunctionPointer on a script function; the second
\* always goes through the chain.
CallScriptFunctionHere ==
    /\ \E room \in BOOLEAN : PrepareScriptCall(I.fn, room)
    /\ IF status' # "active" THEN Exit
       ELSE IF I.fn \in Compiled THEN EnterCallee(I.fn)
       ELSE ResumeJitCallChain
    /\ UNCHANGED host

CallPointerHere ==
    /\ \E room \in BOOLEAN : PrepareScriptCall(I.fn, room)
    /\ ResumeJitCallChain
    /\ UNCHANGED host

\* The inline fast path of CALL: a simple, compiled callee, nothing pending,
\* room on both stacks.
CallNative ==
    /\ InJitAt({"call"}) /\ I.fn \in Simple \ Inlined
    /\ ~doProcessSuspend /\ I.fn \in Compiled /\ Depth <= MaxFrames
    /\ callStack' = Append(AtPc(Top.at + 1), Entry(I.fn))
    /\ EnterCallee(I.fn)
    /\ UNCHANGED <<host, status, Flags>>

\* FastCallSimpleScript, its slow path; it never looks for a suspension.
FastCallSimpleScript ==
    /\ InJitAt({"call"}) /\ I.fn \in Simple \ Inlined
    /\ ~doProcessSuspend
    /\ CallScriptFunctionHere

\* CallScriptFunction, for any other callee or with a request pending; for a
\* method, a constructor or an imported function (BcCallIntf, AllocScriptObject,
\* BcCallBnd) unless it is the one that was inlined.
CallScript ==
    /\ InJitAt({"call", "method"})
    /\ I.op = "call" => I.fn \notin Simple \cup Inlined \/ doProcessSuspend
    /\ CallScriptFunctionHere

CallFunctionPointer ==
    /\ InJitAt({"callptr"})
    /\ CallPointerHere

CallFunctionPointerNull ==
    /\ InJitAt({"callptr", "method", "bound"})
    /\ Raise(AtPc(Top.at + 1))
    /\ Exit
    /\ UNCHANGED host

\* Broken: goes on whenever the context is active, in whatever frame.
BackWhenActive(a) == status = "active"

\* Back from a callee: go on only in the own frame and with nothing pending.
BackInOwnFrame(a) == status = "active" /\ Depth = a.depth

AfterCall ==
    /\ InJit("wait")
    /\ IF BackInOwnFrame(Top)
       THEN native' = [native EXCEPT ![Len(native)].state = "run"]
       ELSE Exit
    /\ UNCHANGED vmVars

InChain == InNative /\ Top.kind = "chain"

\* Broken: the loop also resumes the caller's own frame.
ChainKeepsGoing == status = "active" /\ Depth >= Top.depth

ChainGoesOn == status = "active" /\ Depth > Top.depth
ChainCanEnter ==
    Current.fn \in Compiled /\ Code[Current.fn][Current.pc].op = "entry"

\* The loop of ResumeJitCallChain resumes whatever compiled frame is on top...
ChainEnter ==
    /\ InChain /\ ChainGoesOn /\ ChainCanEnter
    /\ native' = Append(native, Jit(Current.fn, Current.pc, Depth))
    /\ UNCHANGED vmVars

\* ... until the caller's frame is back or it has to leave the frames to the
\* interpreter; its result makes the waiting caller go on or exit.
ChainReturn ==
    /\ InChain /\ ~(ChainGoesOn /\ ChainCanEnter)
    /\ native' =
        IF BackInOwnFrame(Top)
        THEN [Front(native) EXCEPT ![Len(native) - 1].state = "run"]
        ELSE Front(Front(native))
    /\ UNCHANGED vmVars

-----------------------------------------------------------------------------
(* Inlined bodies: emitInlineCall and emitInlineBody.                      *)

Body == Last(body)
J == Code[Body.fn][Body.pc]
InBodyAt(ops) == InJit("run") /\ body # <<>> /\ J.op \in ops

BodyAt(p) == [body EXCEPT ![Len(body)].pc = p]

\* With nothing pending the body runs where the call is: that of a function,
\* factory or constructor, and for a method or a pointer if it is that of the
\* function the code was generated for.  (CALLBND inlines none.)
CallInlined ==
    /\ InJitAt(ScriptCalls) /\ I.fn \in Inlined
    /\ ~doProcessSuspend
    /\ body' = <<Entry(I.fn)>>
    /\ UNCHANGED <<native, vmVars>>

\* SUSPEND is among the instructions that emit nothing.
InlinedStep ==
    /\ InBodyAt({"entry", "op", "div", "suspend"})
    /\ body' = BodyAt(Body.pc + 1)
    /\ UNCHANGED <<native, vmVars>>

InlinedBranch ==
    /\ InBodyAt({"br"})
    /\ \E p \in {Body.pc + 1, J.to} : body' = BodyAt(p)
    /\ UNCHANGED <<native, vmVars>>

InlinedCall ==
    /\ InBodyAt({"call"})
    /\ body' = Append(BodyAt(Body.pc + 1), Entry(J.fn))
    /\ UNCHANGED <<native, vmVars>>

InlinedRet ==
    /\ InBodyAt({"ret"})
    /\ body' = Front(body)
    /\ IF Len(body) = 1 THEN GoTo(Top.at + 1) ELSE UNCHANGED native
    /\ UNCHANGED vmVars

\* What a body cannot go on with (a null member, a zero divisor) takes the slow
\* path of the outermost: a call of the function, from its start.
InlinedSlow ==
    /\ InBodyAt({"div"})
    /\ body' = <<>>
    /\ IF I.op = "callptr" THEN CallPointerHere ELSE CallScriptFunctionHere

-----------------------------------------------------------------------------
(* System functions.                                                       *)

NativeCallSys ==
    /\ InJitAt(SystemCalls)
    /\ callStack' = AtPc(Top.at)
    /\ host' = Append(host, [kind |-> "sys", depth |-> Depth])
    /\ UNCHANGED <<native, status, Flags>>

\* BcThiscall1 on a null object; it does not look for a request to suspend.
NativeThiscallNull ==
    /\ InJitAt({"thiscall1"})
    /\ Raise(AtPc(Top.at + 1))
    /\ Exit
    /\ UNCHANGED host

\* The caller of the running system function is generated code.
CalledFromNative == native # <<>> /\ Top.level = Len(host) - 1

\* Broken: goes on without looking at what happened during the call.
SysReturnUnchecked ==
    /\ InSys /\ ~NestOpen /\ CalledFromNative
    /\ host' = Front(host)
    /\ callStack' = AtPc(Top.at + 1)
    /\ GoTo(Top.at + 1)
    /\ UNCHANGED <<status, Flags>>

\* The emitted code after CALLSYS: FinishSystemCallAt inside a try block,
\* where a caught exception comes first, and FinishSystemCall outside; and the
\* end of BcThiscall1, which leaves the exception to the interpreter.
NativeSysReturn ==
    /\ InSys /\ ~NestOpen /\ CalledFromNative /\ I.op # "bound"
    /\ host' = Front(host)
    /\ callStack' = AtPc(Top.at + 1)
    /\ IF ~doProcessSuspend
       THEN GoTo(Top.at + 1) /\ UNCHANGED status
       ELSE IF /\ I.op = "sys" /\ Covering([fn |-> Top.fn, pc |-> Top.at]) # {}
               /\ status = "exception" /\ willBeCaught
       THEN /\ native' = [native EXCEPT ![Len(native)].state = "catch"]
            /\ UNCHANGED status
       ELSE /\ SuspendIfAsked
            /\ IF status' = "active" THEN GoTo(Top.at + 1) ELSE Exit
    /\ UNCHANGED Flags

\* The end of BcCallBnd and CallFunctionPointer for a system function: only the
\* status counts, a request to suspend is left for later.
NativeBoundReturn ==
    /\ InSys /\ ~NestOpen /\ CalledFromNative /\ I.op = "bound"
    /\ host' = Front(host)
    /\ callStack' = AtPc(Top.at + 1)
    /\ IF status = "active" THEN GoTo(Top.at + 1) ELSE Exit
    /\ UNCHANGED <<status, Flags>>

InterpretedSysReturn == ~CalledFromNative /\ SysReturn /\ UNCHANGED native

-----------------------------------------------------------------------------
Native ==
    \/ NativeStep \/ NativeBranch \/ NativeThrow \/ NativeCatch
    \/ NativeSuspend \/ NativeRet \/ NativeCallSys \/ NativeThiscallNull
    \/ CallNative \/ FastCallSimpleScript \/ CallScript
    \/ CallFunctionPointer \/ CallFunctionPointerNull
    \/ AfterCall \/ ChainEnter \/ ChainReturn

\* Steps outside inlined bodies.
Plain ==
    \/ JitEntry \/ InterpretStep \/ Native
    \/ NativeSysReturn \/ NativeBoundReturn \/ InterpretedSysReturn
    \/ InSystemCall /\ UNCHANGED native
    \/ (Catch \/ Done) /\ ~InNative /\ UNCHANGED native

InlinedBody ==
    \/ CallInlined \/ InlinedStep \/ InlinedBranch \/ InlinedCall
    \/ InlinedRet \/ InlinedSlow

Run ==
    \/ Plain /\ UNCHANGED body
    \/ InlinedBody

\* What the application and other threads do.
Application ==
    /\ Execute \/ RequestSuspend \/ \E f \in Fn : Prepare(f)
    /\ UNCHANGED <<native, body>>

JitInit == Init /\ native = <<>> /\ body = <<>>

JitNext == Run \/ Application

JitSpec == JitInit /\ [][JitNext]_vars

\* A context that is executing is never left in the middle of Execute, and a
\* system function that has prepared a nested run executes it.
FairSpec ==
    /\ JitSpec
    /\ WF_vars(Run)
    /\ WF_vars(Execute /\ host # <<>> /\ UNCHANGED <<native, body>>)

-----------------------------------------------------------------------------
(* Properties.                                                             *)

JitTypeOK ==
    /\ host \in Seq(HostAct)
    /\ callStack \in Seq(Frame \cup {Marker})
    /\ status \in {"uninitialized", "prepared", "active", "suspended",
                   "finished", "exception"}
    /\ doProcessSuspend \in BOOLEAN
    /\ doSuspend \in BOOLEAN
    /\ willBeCaught \in BOOLEAN
    /\ native \in Seq(Activation)
    /\ body \in Seq(Frame)

\* Every frame a piece of generated code will go on in is still there, with
\* the position it will go on at: no callee, exception or nested execution
\* has popped or replaced it (control_flow.cpp RET, ResumeJitCallChain).
WaitersKeepFrames ==
    \A i \in 1..Len(native) :
        native[i].state = "wait" =>
            /\ native[i].depth <= Depth
            /\ callStack[native[i].depth] =
                   [fn |-> native[i].fn, pc |-> native[i].at]

\* Generated code, inlined bodies included, runs only in its own frame and with
\* the context active: whatever a callee did, the caller did not go on in
\* somebody else's frame (the status and length tests after every call, calls.cpp
\* CALL).
RunsInOwnFrame ==
    InJit("run") =>
        /\ status = "active"
        /\ Depth = Top.depth
        /\ Current.fn = Top.fn

\* The C++ stack and the call stack grow together: the activations of one
\* execution stand for strictly deeper and deeper frames, a chain loop for the
\* frame of the caller under it, and all of them lie above the frames that
\* were there when that execution began.
StacksAligned ==
    /\ \A i \in 1..Len(native) :
        /\ native[i].level \in 1..Len(host)
        /\ host[native[i].level].depth < native[i].depth
    /\ \A i, j \in 1..Len(native) : i < j =>
        /\ native[i].level <= native[j].level
        /\ IF native[j].kind = "chain" /\ j = i + 1
           THEN native[i].depth = native[j].depth
           ELSE native[i].depth < native[j].depth

\* An exception raised while a system function runs is seen when it returns:
\* CALLSYS looks at the status only if doProcessSuspend is set, and the end of
\* a nested Execute clears that flag (as_context.cpp Execute, calls.cpp
\* CALLSYS).
ExceptionIsFlagged ==
    InSys /\ ~NestOpen /\ status = "exception" => doProcessSuspend

\* What a system function started stays above the frames that called it: until
\* it returns, those frames do not change, whatever the nested execution does
\* (marker frames in BcRet and CleanStack).
SysFramesUntouched ==
    [][\A i \in 1..Len(host) :
        (host[i].kind = "sys" /\ i <= Len(host')) =>
            /\ Len(callStack') >= host[i].depth
            /\ i < Len(host) =>
                SubSeq(callStack', 1, host[i].depth) =
                SubSeq(callStack, 1, host[i].depth)]_vars

\* What an observer of the context sees: generated code's own position while
\* it runs, the registers otherwise.
VisibleStack ==
    IF InJit("run") THEN AtPc(Top.at) ELSE callStack

\* The JIT implements the virtual machine: every step of generated code is a
\* step of the interpreter or changes nothing visible, so that whenever it
\* exits the interpreter goes on exactly where generated code stopped.  It
\* takes two freedoms: an exception in a system call is not lost to a
\* suspension, and an inlined call is one step, taken when its body is over.
VM == INSTANCE ScriptVM WITH
    callStack <- VisibleStack, CatchBeforeSuspend <- TRUE, InOneStep <- Inlined

ImplementsVM == VM!Spec

-----------------------------------------------------------------------------
(* The inductive invariant behind the safety properties, by subject.       *)

\* Frames below the current one are where their functions will go on; markers
\* are exactly the frames above those that called a system function.
StackShape ==
    \A j \in 1..Depth :
        /\ callStack[j].fn # NoFn =>
             callStack[j].pc \in 1..Len(Code[callStack[j].fn])
        /\ callStack[j].fn = NoFn <=>
             \E i \in 1..Len(host) :
                host[i].kind = "sys" /\ j = host[i].depth + 1

AtSys(frame) == frame.fn # NoFn /\ Code[frame.fn][frame.pc].op \in SystemCalls

\* Execute and system functions alternate on the C++ stack; the frame that
\* called a system function is still at the call.
HostShape ==
    /\ host # <<>> => host[1] = [kind |-> "exec", depth |-> 0]
    /\ \A i \in 2..Len(host) :
        /\ host[i].kind # host[i - 1].kind
        /\ host[i].kind = "exec" => host[i].depth = host[i - 1].depth + 1
    /\ \A i, j \in 1..Len(host) : i < j => host[i].depth < host[j].depth
    /\ \A i \in 1..Len(host) :
        host[i].kind = "sys" =>
            host[i].depth \in 1..Depth /\ AtSys(callStack[host[i].depth])

\* Whether the execution that begins above the first d frames has frames.
LiveAbove(d, statuses) ==
    \/ status = "finished" /\ Depth = d
    \/ status \in statuses /\ Depth > d

StatusShape ==
    /\ host = <<>> =>
        \/ status = "uninitialized" /\ Depth = 0
        \/ LiveAbove(0, {"prepared", "suspended", "exception"})
    /\ InExecute =>
        LiveAbove(Last(host).depth, {"active", "suspended", "exception"})
    /\ InSys /\ ~NestOpen => status \in {"active", "exception"}
    /\ InSys /\ NestOpen =>
        LiveAbove(Last(host).depth + 1, {"prepared", "suspended", "exception"})

\* The innermost activation of the execution at its level.
IsLead(i) == i = Len(native) \/ native[i + 1].level # native[i].level

OwnFrame(a) == callStack[a.depth] = [fn |-> a.fn, pc |-> a.at]

ActivationShape(i) ==
    LET a == native[i] IN
    /\ a.level \in 1..Len(host)
    /\ host[a.level].kind = "exec" /\ host[a.level].depth < a.depth
    /\ a.depth <= Depth
    /\ a.at \in 1..Len(Code[a.fn])
    /\ a.kind = "chain" =>
        /\ a.state = "run" /\ i > 1
        /\ native[i - 1].state = "wait"
        /\ native[i - 1].depth = a.depth /\ native[i - 1].level = a.level
    /\ a.state = "wait" => a.kind = "jit" /\ OwnFrame(a)
    /\ ~IsLead(i) => a.state = "wait" \/ a.kind = "chain"
    /\ IsLead(i) /\ a.level < Len(host) =>
        /\ a.kind = "jit" /\ a.state = "run" /\ OwnFrame(a)
        /\ Code[a.fn][a.at].op \in SystemCalls
        /\ a.depth = host[a.level + 1].depth

CatchesHere ==
    InJit("catch") =>
        /\ status = "exception" /\ willBeCaught
        /\ Depth = Top.depth /\ Current.fn = Top.fn
        /\ Covering(Current) = Covering([fn |-> Top.fn, pc |-> Top.at])
        /\ Covering(Current) # {}

\* The inlined bodies are those of the call that generated code is at.
BodyShape ==
    /\ body # <<>> => InJit("run") /\ I.op \in ScriptCalls /\ body[1].fn = I.fn
    /\ \A i \in 1..Len(body) :
        body[i].fn \in Inlined /\ body[i].pc \in 1..Len(Code[body[i].fn])

InductiveInv ==
    /\ JitTypeOK
    /\ StackShape /\ HostShape /\ StatusShape /\ BodyShape
    /\ \A i \in 1..Len(native) : ActivationShape(i)
    /\ StacksAligned /\ RunsInOwnFrame /\ CatchesHere
    /\ ExceptionIsFlagged

-----------------------------------------------------------------------------
(* Liveness.                                                               *)

\* A suspend request makes the running Execute return, unless generated code
\* stays in an inlined body for ever: interpreted code, and generated code of
\* any other kind, polls the request in every loop.
SuspendHonoured ==
    \/ <>[](body # <<>>)
    \/ (doSuspend /\ host # <<>>) ~> ~doSuspend

\* What the manual promises of every loop: a suspend request always makes the
\* running Execute return.
EveryLoopPolls == (doSuspend /\ host # <<>>) ~> ~doSuspend
===============================================================================
