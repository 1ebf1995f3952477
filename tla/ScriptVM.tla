------------------------------ MODULE ScriptVM ------------------------------
(***************************************************************************)
(* The script virtual machine as asCContext's interpreter runs it: the     *)
(* call stack, the execution status, exceptions with try/catch, suspension *)
(* and the nested executions a system function may start.  This is what    *)
(* the JIT promises to look like from outside (module JitCallChain).       *)
(*                                                                         *)
(* A bytecode instruction is abstracted to what it does to that state; the *)
(* values computed by a script are not modelled, so a conditional branch   *)
(* and an instruction that may fail are free choices.                      *)
(***************************************************************************)
EXTENDS Naturals, FiniteSets, Sequences, SequencesExt, FiniteSetsExt

CONSTANTS
    Fn,         \* the script functions
    NoFn,       \* the function of a marker frame (a nested execution)
    Code,       \* the instructions of each function
    Handlers,   \* its try blocks, [try, catch] positions, in tryCatchInfo order
    MaxFrames,  \* call stack length at which PushCallState refuses to grow
    MaxNest,    \* model bound: nested executions open at once
    CatchBeforeSuspend,
        \* whether an exception in a system call may win over a suspend
        \* request that is pending as well; FALSE in the interpreter
    InOneStep
        \* the functions a call of which may be one step, without a frame or
        \* a look at the requests; none in the interpreter

\* Calls of script functions: CALL, CallPtr, and CALLINTF, CALLBND or the ALLOC
\* of a script class, which calls the constructor.
ScriptCalls == {"call", "callptr", "method"}

\* Calls of system functions: CALLSYS, Thiscall1, and those through an import
\* (CALLBND) or a handle (CallPtr).
SystemCalls == {"sys", "thiscall1", "bound"}

Op == {"entry", "op", "div", "br", "suspend", "ret"} \cup ScriptCalls \cup SystemCalls

Instr == [op : Op, fn : Fn, to : Nat]

ASSUME FnAssumption == NoFn \notin Fn
ASSUME BoundAssumption ==
    MaxFrames \in Nat /\ MaxNest \in Nat /\ CatchBeforeSuspend \in BOOLEAN

\* Every function starts with a JitEntry (as_compiler.cpp:140), only RET ends
\* one, and branches and try blocks stay inside it.
ASSUME CodeAssumption ==
    /\ Code \in [Fn -> Seq(Instr)]
    /\ \A f \in Fn :
        /\ Code[f] # <<>>
        /\ Code[f][1].op = "entry"
        /\ \A p \in 1..Len(Code[f]) :
            /\ Code[f][p].op # "ret" => p < Len(Code[f])
            /\ Code[f][p].op = "br" => Code[f][p].to \in 1..Len(Code[f])

ASSUME HandlerAssumption ==
    /\ Handlers \in [Fn -> Seq([try : Nat, catch : Nat])]
    /\ \A f \in Fn : \A n \in 1..Len(Handlers[f]) :
        /\ Handlers[f][n].try > 1
        /\ Handlers[f][n].catch \in 1..Len(Code[f])

VARIABLES
    host,       \* the C++ activations: Execute loops and running system calls
    callStack,  \* saved frames and, last, the current one (m_currentFunction,
                \* programPointer); markers separate nested executions
    status,     \* m_status
    doProcessSuspend,
    doSuspend,
    willBeCaught  \* m_exceptionWillBeCaught

vmVars == <<host, callStack, status, doProcessSuspend, doSuspend, willBeCaught>>

-----------------------------------------------------------------------------
(* Frames and try blocks.                                                  *)

Frame == [fn : Fn, pc : Nat]
Marker == [fn |-> NoFn, pc |-> 0]
Entry(f) == [fn |-> f, pc |-> 1]

HostAct == [kind : {"exec", "sys"}, depth : Nat]

\* The try blocks of the frame's function that cover its program position.
Covering(frame) ==
    IF frame.fn = NoFn THEN {}
    ELSE {n \in 1..Len(Handlers[frame.fn]) :
            /\ Handlers[frame.fn][n].try <= frame.pc
            /\ frame.pc < Handlers[frame.fn][n].catch}

\* Try blocks may be nested: the last one that covers the position wins.
CatchPos(frame) == Handlers[frame.fn][Max(Covering(frame))].catch

\* FindExceptionTryCatch looks through every frame, markers included.
FindExceptionTryCatch(stack) == \E i \in 1..Len(stack) : Covering(stack[i]) # {}

Markers(stack) == {i \in 1..Len(stack) : stack[i].fn = NoFn}

\* Broken: unwinding does not stop at the marker of a nested execution.
BaseIgnoringMarkers(stack) == 0

\* Where the innermost execution starts: below it is its marker, if any.
Base(stack) == Max({0} \cup Markers(stack))

Catchers(stack) == {i \in Base(stack) + 1 .. Len(stack) : Covering(stack[i]) # {}}

\* CleanStack: unwind to the innermost frame of this execution that catches,
\* at its catch position, or to the first frame of the execution.
Unwound(stack) ==
    IF Catchers(stack) = {}
    THEN SubSeq(stack, 1, Base(stack) + 1)
    ELSE LET i == Max(Catchers(stack))
         IN  [SubSeq(stack, 1, i) EXCEPT ![i].pc = CatchPos(stack[i])]

Depth == Len(callStack)
Current == callStack[Depth]
AtPc(p) == [callStack EXCEPT ![Depth].pc = p]

\* The first frame of an execution: RET there ends it instead of popping.
IsOutermost(stack) ==
    Len(stack) = 1 \/ stack[Len(stack) - 1].fn = NoFn

-----------------------------------------------------------------------------
(* Steps of the state that several instructions share.                     *)

\* SetInternalExceptionImpl, raised with the frames stack.
Raise(stack) ==
    /\ callStack' = stack
    /\ status' = "exception"
    /\ doProcessSuspend' = TRUE
    /\ willBeCaught' = FindExceptionTryCatch(stack)
    /\ UNCHANGED doSuspend

SuspendIfAsked ==
    status' = IF doProcessSuspend /\ doSuspend THEN "suspended" ELSE status

\* PushCallState and PrepareScriptFunction; room is whether the stack block
\* could be reserved.  The caller's frame is already in stack.
CallScriptFunction(stack, g, room) ==
    \/ Len(stack) > MaxFrames /\ Raise(stack)
    \/ Len(stack) <= MaxFrames /\ ~room /\ Raise(Append(stack, Entry(g)))
    \/ /\ Len(stack) <= MaxFrames /\ room
       /\ callStack' = Append(stack, Entry(g))
       /\ SuspendIfAsked
       /\ UNCHANGED <<doProcessSuspend, doSuspend, willBeCaught>>

-----------------------------------------------------------------------------
(* The interpreter loop, ExecuteNext.                                      *)

InExecute == host # <<>> /\ Last(host).kind = "exec"
Running == InExecute /\ status = "active"
At(ops) == Running /\ Code[Current.fn][Current.pc].op \in ops

Flags == <<doProcessSuspend, doSuspend, willBeCaught>>

Step ==
    /\ At({"entry", "op", "div"})
    /\ callStack' = AtPc(Current.pc + 1)
    /\ UNCHANGED <<host, status, Flags>>

Branch ==
    /\ At({"br"})
    /\ \E p \in {Current.pc + 1, Code[Current.fn][Current.pc].to} :
        callStack' = AtPc(p)
    /\ UNCHANGED <<host, status, Flags>>

\* An instruction that fails at run time: division by zero, null access.
Throw ==
    /\ At({"div"})
    /\ Raise(callStack)
    /\ UNCHANGED host

SuspendPoint ==
    /\ At({"suspend"})
    /\ callStack' = AtPc(Current.pc + 1)
    /\ SuspendIfAsked
    /\ UNCHANGED <<host, Flags>>

Call ==
    /\ At(ScriptCalls)
    /\ \E room \in BOOLEAN :
        CallScriptFunction(AtPc(Current.pc + 1),
                           Code[Current.fn][Current.pc].fn, room)
    /\ UNCHANGED host

\* Only with InOneStep: the call, the function and its RET.
CallInOneStep ==
    /\ At(ScriptCalls) /\ Code[Current.fn][Current.pc].fn \in InOneStep
    /\ callStack' = AtPc(Current.pc + 1)
    /\ UNCHANGED <<host, status, Flags>>

\* A null handle, a method of a null object, an import that is not bound.
CallNull ==
    /\ At({"callptr", "method", "bound"})
    /\ Raise(AtPc(Current.pc + 1))
    /\ UNCHANGED host

CallSys ==
    /\ At(SystemCalls)
    /\ host' = Append(host, [kind |-> "sys", depth |-> Depth])
    /\ UNCHANGED <<callStack, status, Flags>>

\* Thiscall1 on a null object raises the exception at the instruction, and
\* looks at a pending request to suspend behind it.
ThiscallNull ==
    /\ At({"thiscall1"})
    /\ callStack' = AtPc(Current.pc + 1)
    /\ \/ status' = IF doSuspend THEN "suspended" ELSE "exception"
       \/ CatchBeforeSuspend /\ status' = "exception"
    /\ doProcessSuspend' = TRUE
    /\ willBeCaught' = FindExceptionTryCatch(callStack)
    /\ UNCHANGED <<host, doSuspend>>

\* The frame of a finished execution stays in the registers, but its position
\* means nothing any more; it is dropped from callStack as well.
Ret ==
    /\ At({"ret"})
    /\ callStack' = Front(callStack)
    /\ status' = IF IsOutermost(callStack) THEN "finished" ELSE status
    /\ UNCHANGED <<host, Flags>>

-----------------------------------------------------------------------------
(* A running system function, which may use the context it is called from. *)

InSys == host # <<>> /\ Last(host).kind = "sys"
NestOpen == Depth > Last(host).depth

\* SetException, or a C++ exception turned into one by HandleAppException.
SysRaise ==
    /\ InSys /\ ~NestOpen /\ status = "active"
    /\ Raise(callStack)
    /\ UNCHANGED host

\* PushState, then Prepare for f.
SysNest(f) ==
    /\ InSys /\ ~NestOpen /\ status = "active"
    /\ Depth <= MaxFrames /\ Cardinality(Markers(callStack)) < MaxNest
    /\ callStack' = callStack \o <<Marker, Entry(f)>>
    /\ status' = "prepared"
    /\ UNCHANGED <<host, Flags>>

\* Broken: the exception of the nested execution becomes that of the caller.
SysPopKeepingStatus ==
    /\ InSys /\ NestOpen /\ status \in {"finished", "exception"}
    /\ callStack' = SubSeq(callStack, 1, Last(host).depth)
    /\ status' = IF status = "finished" THEN "active" ELSE status
    /\ UNCHANGED <<host, Flags>>

\* PopState: what is left of the nested execution is unwound and dropped.  A
\* suspended one must not be popped; it is resumed (Abort is not modelled).
SysPop ==
    /\ InSys /\ NestOpen /\ status \in {"finished", "exception"}
    /\ callStack' = SubSeq(callStack, 1, Last(host).depth)
    /\ status' = "active"
    /\ UNCHANGED <<host, Flags>>

\* The function returns into CALLSYS or Thiscall1, which look at the pending
\* requests, or into another call, which does not.
SysFinish ==
    /\ callStack' = AtPc(Current.pc + 1)
    /\ IF Code[Current.fn][Current.pc].op = "bound"
       THEN UNCHANGED status
       ELSE \/ SuspendIfAsked
            \/ /\ CatchBeforeSuspend /\ status = "exception" /\ willBeCaught
               /\ UNCHANGED status

SysReturn ==
    /\ InSys /\ ~NestOpen
    /\ SysFinish
    /\ host' = Front(host)
    /\ UNCHANGED Flags

-----------------------------------------------------------------------------
(* Execute, called by the application or by a system function.             *)

\* Refused for a suspended context; an unfinished one is cleaned up first.
Prepare(f) ==
    /\ host = <<>> /\ status # "suspended"
    /\ callStack' = <<Entry(f)>>
    /\ status' = "prepared"
    /\ UNCHANGED <<host, Flags>>

\* The first Execute runs PrepareScriptFunction; a later one resumes.
Execute ==
    /\ host = <<>> \/ (InSys /\ NestOpen)
    /\ status \in {"prepared", "suspended"}
    /\ host' = Append(host, [kind |-> "exec", depth |-> Base(callStack)])
    /\ status' = IF status = "prepared" /\ doProcessSuspend /\ doSuspend
                 THEN "suspended" ELSE "active"
    /\ UNCHANGED <<callStack, Flags>>

\* ExecuteNext returned with an exception that a frame of this run catches.
Catch ==
    /\ InExecute /\ status = "exception" /\ willBeCaught
    /\ Catchers(callStack) # {}
    /\ callStack' = Unwound(callStack)
    /\ status' = "active"
    /\ UNCHANGED <<host, Flags>>

\* The loop of Execute ends and its epilogue clears the requests.
Done ==
    /\ InExecute
    /\ \/ status \in {"finished", "suspended"} /\ UNCHANGED callStack
       \/ status = "exception" /\ ~willBeCaught /\ UNCHANGED callStack
       \/ /\ status = "exception" /\ willBeCaught /\ Catchers(callStack) = {}
          /\ callStack' = Unwound(callStack)
    /\ host' = Front(host)
    /\ doProcessSuspend' = FALSE
    /\ doSuspend' = FALSE
    /\ UNCHANGED <<status, willBeCaught>>

\* asCContext::Suspend, from any thread.
RequestSuspend ==
    /\ doSuspend' = TRUE
    /\ doProcessSuspend' = TRUE
    /\ UNCHANGED <<host, callStack, status, willBeCaught>>

-----------------------------------------------------------------------------
Interpret ==
    \/ Step \/ Branch \/ Throw \/ SuspendPoint \/ Ret
    \/ Call \/ CallNull \/ CallSys \/ ThiscallNull

InSystemCall == SysRaise \/ SysPop \/ (\E f \in Fn : SysNest(f))

Init ==
    /\ host = <<>>
    /\ callStack = <<>>
    /\ status = "uninitialized"
    /\ doProcessSuspend = FALSE
    /\ doSuspend = FALSE
    /\ willBeCaught = FALSE

Next ==
    \/ Interpret \/ CallInOneStep
    \/ InSystemCall \/ SysReturn
    \/ Execute \/ Catch \/ Done
    \/ \E f \in Fn : Prepare(f)
    \/ RequestSuspend

Spec == Init /\ [][Next]_vmVars
=============================================================================
