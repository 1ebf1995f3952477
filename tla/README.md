# A verification project for the AngelScript x86 JIT

The program is a just-in-time compiler for AngelScript on 32-bit x86. It is
plugged into an AngelScript engine as its JIT compiler, translates the bytecode
of script functions into native code when a module is built, and shares the
engine's contexts with the interpreter: the interpreter enters native code at
`JitEntry` instructions, native code leaves to the interpreter whenever it meets
something it does not handle. All paths below are relative to the repository.
`as_context.cpp`, `as_scriptobject.cpp` and so on are the files of the vendored
AngelScript in `src/third_party/angelscript/sdk/angelscript/source`; it is a
modified copy (for instance `SetInternalExceptionAtCatch`), so that it belongs
to the program.

## 1. The system

### Components

| component | source | state | operations |
|---|---|---|---|
| Binding and API | `src/api/as_jit_api.cpp`, `src/engine/jit_engine.cpp` | the `JitEngine`: a counted reference to the engine, the compiler | `AsJitCreateEngine`, `AsJitDestroyEngine` |
| Compiler object | `src/compiler/jit_compiler.cpp` | asmjit runtime (all native code), object pool, mutex | `CompileFunction`, `ReleaseJITFunction`, `ClearObjectPool` |
| Function emitter | `src/codegen/emit/*.cpp` | per function: instruction list, labels, cached locals, analyses | `Compile` = decode, analyse, emit every instruction, finalise |
| Calls and control flow of native code | `src/codegen/emit/calls.cpp`, `control_flow.cpp`, `src/bytecode/helpers/runtime_helpers.cpp` | the C++ stack; the context's call stack, status and flags | `CALL` (three paths), `CallPtr`, `CALLSYS`, `RET`, `SUSPEND`, `JitEntry`, exceptions, `ResumeJitCallChain` |
| Virtual machine | `as_context.cpp` | call stack, registers, status, `doProcessSuspend`, `m_doSuspend` | `Prepare`, `Execute`, `Suspend`, `PushState`, `PopState`, `SetException`, `ExecuteNext` |
| Object pool | `src/bytecode/helpers/object_helpers.cpp` | one bucket per class: owner thread, list, count | `GetBucket`, create, release, `Clear` |
| Cached locals | `emitter.cpp`, `analysis.cpp` | which locals live in registers, and whether memory is up to date | load, flush, reload |
| Value-register forwarding, fused branches | `analysis.cpp`, `numeric.cpp` | where the last result is | analyses over basic blocks |
| Inlined functions and factories | `calls.cpp` | none at run time | decode a short body, emit it in place, fall back |
| Numeric, memory and reference instructions | `numeric.cpp`, `memory.cpp`, `references.cpp`, `stack.cpp`, the helpers | frame, value register | one emission per instruction |
| Bytecode tables, CPU requirements | `bc_helpers.cpp`, `bc_info.cpp`, `cpu_requirements.h` | none | lookup, one test at start |

### How they interact

* `AsJitCreateEngine` makes a `JitEngine`, which takes a reference to the engine
  and hands the compiler's address to `SetJITCompiler`. From then on the engine
  calls `CompileFunction` for each function it builds and `ReleaseJITFunction`
  for each it deletes.
* The interpreter's `asBC_JitEntry` calls `jitFunction(regs, id)`. Native code
  runs on the *same* `asSVMRegisters` and the same call stack as the
  interpreter. It calls the helpers in `runtime_helpers.cpp`, other native code
  and, through the helpers, system functions of the application; these may come
  back to the context (`SetException`, `PushState`/`Execute`/`PopState`).
* Native code keeps its own position; `m_regs.programPointer` is written before
  calls, exceptions and exits.
* Native code has the address of pool buckets built in. A bucket holds a
  reference to its class, and so to the module of the class.
* Another thread may call `Suspend` on the context at any moment, and several
  threads may run native code with the same pool.

### What is hard

1. *After a call.* A callee may return, be suspended, throw past its caller, be
   left to the interpreter half-way, recurse into the caller's function, or not
   be entered at all because a stack is full. The native caller may go on in the
   first case only.
2. *Two stacks.* C++ activations (native code, `ResumeJitCallChain` loops,
   `Execute` loops, system functions) and script frames have to stay in step;
   only some frames have an activation.
3. *Exceptions.* Native code catches inside its own try blocks without leaving;
   everything else unwinds in `Execute`. Try blocks of frames that wait are
   found by saved positions.
4. *Suspension* from another thread, polled at few places.
5. *Nested executions* separated by marker frames.
6. *A list without a lock*, protected by an ownership that is taken by
   compare-and-exchange and never given up, and a release that decides first and
   frees some steps later.
7. *Teardown.* Engine, modules, classes, native code, compiler and pool keep
   each other alive, and script code (destructors of global objects) runs in
   the middle of it.
8. *Analyses of the emitter* that keep values in registers across instructions:
   cached locals, a forwarded value register, fused comparisons, copied handles,
   packed floats. Each is right only if control cannot come from or go to anywhere
   else in between.
9. *Inlined bodies* that have no frame, give up half-way and are run again as calls, and
   in which nobody looks at a request to suspend.
10. *Edges of the numbers*: emitted instructions against C++ expressions of the
    interpreter.

`PROJECT.json` lists these hazards line by line, each with the properties that
watch it or the reason why none does.

### What makes each component correct

* Calls and control flow: with the JIT the context looks to everybody as it
  would under the interpreter (`ImplementsVM`), native code runs only in its own
  frame (`RunsInOwnFrame`), frames that wait are kept (`WaitersKeepFrames`), the
  two stacks stay in step (`StacksAligned`), no exception is overlooked
  (`ExceptionIsFlagged`), nested executions leave the outer one alone
  (`SysFramesUntouched`), a request to suspend is honoured unless native code stays in an
  inlined body for ever (`SuspendHonoured`), which it should not (`EveryLoopPolls`).
* Pool: it is a heap (`ImplementsHeap`); memory in a list is dead
  (`PooledIsDead`); ownership is exclusion (`OnlyOwnerInList`); the count is right
  (`CountMatchesList`); nothing leaks (`NothingLeaks`); the fast release is not
  overtaken by weak references (`DestructedIsLeaving`).
* Lifetime: `CompilerOutlivesCode`, `BucketsKeepTypes`, `BindingKeepsEngine`,
  `NothingLeftBehind`, `PoolServesRunningCode`, `DiscardFreesModule`.
* Instructions: what the emitter writes for an instruction does what the
  interpreter does (`SameResult`, `SameException`, `DifferencesAreLocal`), and the
  lists the analyses rest on are right (`ValueRegisterListsRight`,
  `ExceptionFindsFrame`).
* Whole functions: native code with its shortcuts, exits and entries does to the
  program what the interpreter does, except in six named cases
  (`OnlyKnownDifferences`); until it parts it is where the interpreter is, in the same
  state, and has what its next branch looks at (`GoTogether`); it never reaches an
  instruction that was taken into another one (`CodeExists`), and a forwarded value is taken before anything else
  can see it (`ForwardIsTaken`).
* Entry dispatch: native code starts at the entry that was passed
  (`DispatchFindsEntry`), after few comparisons (`RangeHalves`, `DispatchEnds`).

## 2. Modules

| module | what it is |
|---|---|
| `ScriptVM` | the interpreter's control: call stack, status, try/catch, suspension, nested executions. It is the abstract specification of the next one |
| `JitCallChain` | EXTENDS `ScriptVM`: native code and its helpers beside the interpreter; refinement of `ScriptVM`; properties and the inductive invariant |
| `MCJitCallChain` | two small scripts |
| `JitCallChainProofs`, `JitRefinementProofs` | the proofs: lemmas, the invariant and what follows; the refinement of `ScriptVM` |
| `ObjectHeap` | what a script may assume of object memory |
| `ObjectPool` | the pool, one step per access to a bucket; implements `ObjectHeap` |
| `MCObjectPool`, `ObjectPoolProofs` | class hierarchies and symmetry; the proofs |
| `EngineLifetime`, `MCEngineLifetime`, `EngineLifetimeProofs` | who keeps whom alive |
| `EntryDispatch`, `MCEntryDispatch`, `EntryDispatchProofs` | the search for the entry of a JitEntry |
| `LocalCache` | locals in memory and in registers: load, store, write-back, reload |
| `Words` | n-bit numbers, as the processor and C++ compute with them |
| `EmittedCodeLemmas` | what is proved of words and of cached locals |
| `NumericHelpers`, `MemoryHelpers` | the instructions as the interpreter runs them |
| `EmittedInstructions`, `EmittedMemory` | the instructions as the emitter writes them |
| `InstructionPairs`, `MCInstructionPairs`, `InstructionPairsProofs` | every instruction, run once by both; the proofs |
| `FunctionAnalysis` | the analyses of `analysis.cpp` |
| `InlinedCalls` | which calls are inlined, and what the inlined code does |
| `BranchInstructions` | which way a branch goes, the instructions that call |
| `FunctionCode`, `MCFunctionCode`, `FunctionCodeProofs` | whole functions: native code step by step beside the interpreter; the proofs |

How they build on each other: `ScriptVM` <- `JitCallChain`, where values are left
out and control is everything; `Words` <- `LocalCache`'s users: `NumericHelpers`,
`MemoryHelpers` (one side) and `EmittedInstructions`, `EmittedMemory` (the other) <-
`InstructionPairs` and `FunctionCode`, both with `FunctionAnalysis`,
where values are everything and one function runs at a time. `FunctionCode` takes the
call of a script function (`CallOf`) and the code emitted for one (`CodeOfCall`) as
constants; its run gives them `CallFunction` and `EmitCall` of `InlinedCalls`, which
calls itself and is therefore kept out of the modules that are proved about.

`PROJECT.json` maps each definition to the lines it stands for.

### ScriptVM

A script is a CONSTANT: `Code[f]` is a sequence of instructions and `Handlers[f]`
the `tryCatchInfo` of `f`. An instruction is reduced to what it does to control:
`entry` (JitEntry), `op` (computes), `div` (computes or fails), `br`, `suspend`,
`call`, `callptr`, `method` (CALLINTF, CALLBND of a script function, and the ALLOC of a
script class, which calls the constructor: `AllocScriptObject` ends in
`CallScriptFunction`), `sys`,
`thiscall1`, `bound` (a system function behind an import, a handle or a delegate),
`ret`. The values of variables are not modelled, so a
branch and a failure are free choices; every script with this control structure
is covered by the same model. `callStack` holds the saved frames and, as its last
element, the current one (`m_currentFunction`, `programPointer`); a marker frame
stands for what `PushState` pushes. `host` is the C++ stack as far as the
interpreter is concerned: `Execute` loops and running system functions, each with
the length of the call stack at its start. `Raise` is `SetInternalExceptionImpl`;
`Unwound` is `CleanStack`, which stops at the marker; `CallScriptFunction` covers
both overflows (call stack, stack block; the second is a free choice `room`).
When a system function returns, the interpreter looks at a suspension first and
loses a pending exception. `CatchBeforeSuspend` lets the specification keep the
exception too, which native code does inside a try block (`FinishSystemCallAt`) and
when `Thiscall1` finds a null object; the refinement needs it. Outside
inlined bodies this is the only difference in control between the two that the runs found, and neither the docs nor
the tests say which is meant. `InOneStep` is a second freedom, for inlined calls: a call
of one of these functions may be one step that leaves neither frame nor trace
(`CallInOneStep`). The interpreter's own specification has it empty. After a `bound` system function nobody looks at a
suspension: the next SUSPEND does.

### JitCallChain

`native` is the stack of activations of native code (`jit`) and of
`ResumeJitCallChain` loops (`chain`), each with its position `at`, the call-stack
length `depth` with its frame on top, and the `host` level it runs in. While an
activation runs, the `pc` of the current frame is stale, as in the program.
`body` is where the running activation is in the bodies that were put in the place of a
call, the innermost last; it is empty outside of them. An inlined body has no frame and
no activation: its loops, its nested bodies and its return move `body` only, a SUSPEND in
it does nothing, and what it cannot go on with makes the outermost body a call from its
start.
The actions are those of the emitted code and of the helpers:

| action | code |
|---|---|
| `JitEntry`, `InterpretStep` | `asBC_JitEntry` in `ExecuteNext`; every other instruction |
| `NativeStep`, `NativeBranch`, `NativeSuspend`, `NativeRet` | `control_flow.cpp`, `BcSuspend`, `BcRet` |
| `NativeThrow`, `NativeCatch` | `EmitInternalException`, `RaiseAndCatchInternalException`, `CatchLocalException` |
| `CallNative` | the fast path of `CALL` in `calls.cpp`, for what is not inlined |
| `CallInlined` | `emitInlineCall`: with nothing pending the body runs in place |
| `InlinedStep`, `InlinedBranch`, `InlinedCall`, `InlinedRet` | `emitInlineBody` |
| `InlinedSlow` | the slow path of `emitInlineCall` out of the body |
| `FastCallSimpleScript`, `CallScript`, `CallFunctionPointer` | the helpers; each ends either in native code of the callee, in a chain, or in an exit |
| `AfterCall` | the tests after each call |
| `ChainEnter`, `ChainReturn` | the loop of `ResumeJitCallChain` |
| `NativeCallSys`, `NativeSysReturn` | `CALLSYS`, `Thiscall1`, `FinishSystemCall`, `FinishSystemCallAt` |
| `NativeThiscallNull`, `CallFunctionPointerNull` | a null object, an empty handle or an import without function |
| `NativeBoundReturn` | the end of `BcCallBnd` and `CallFunctionPointer` on a system function |

One step of native code is one instruction with the helper it calls, up to the
point where somebody else's code starts (a callee, a system function, the catch).
The only thing other threads do to a context is `Suspend`, which sets two flags;
each action reads them once, and a request that comes in between two reads
equals one that comes before or after, so that this grain loses nothing.

Assumptions on scripts, all given by the compiler: a function begins with
JitEntry, ends with RET only, branches inside itself; a simple function has no try
block (`CanFastCallSimpleScript`); an inlined function has none either and calls inlined
functions only, at most two deep and a factory in the last (`InlineAssumption`, from
`DecodeInlineScriptBody`; bodies that call a function pointer are in `FunctionCode`, where
they are finding 8); the position after a system call is in the same
try blocks as the call (a JitEntry follows it).

### ObjectHeap and ObjectPool

`ObjectPool` has one program counter per thread and one step per access to
`owner`, `head`, `count`, the first word of a dead object, the reference count and
the destructed flag, so that all threads interleave between any two of them.
`ReleasePooledScriptObject` and its variant for a class with a one-instruction
destructor share their actions: a class without destructor counts as one whose
destructor does nothing. The parts that belong to AngelScript's object class
(`Release`, the constructor, `AddRef`, the weak-reference flag) are one step each:
AngelScript's own races are not the subject. `Upgrade`, a weak reference turned
into a strong one, is the application's add-on and marked external. A variable of
a class may hold an object of a derived class (`Bases`), which must not enter the
bucket of the base. `Clear` requires that no thread is in a create or a release:
it is called by `AsJitDestroyEngine`, and the list has no lock that would allow
more.

### EngineLifetime

Reference counts and ownership only: the engine's count, the binding's stages
(`bound`, `cleared`, `released`, `gone` are the points between the three statements
of `~JitEngine`), each module's stage, whether its functions have native code, the
external references to its class, and the pool's bucket for the class. Two things
vary between applications and are CONSTANTS: the order of teardown
(`BindingFirst`), and which modules have a global object whose destructor
allocates (`Allocating`).

The walk of `Clear` along a list is given by what it reaches: the smallest set that
has the first block and, with a block, the one it links to (`Reached`). It needs no
recursion, which keeps the module open to proofs.

### LocalCache

A machine has memory in dwords, and `reg`, the locals that live in processor
registers. The set of cached locals of a function comes from `FunctionAnalysis`.
`View` is the frame as the interpreter would see it: memory, with the registers laid
over it. `LoadVar`, `StoreVar` and their wide and floating forms are those of
`emitter.cpp`, `FlushCachedLocals` and `ReloadCachedLocals` the write-back before and
the reload after whatever looks at the frame. `IsSplit` is a double of which one half
is cached.

### Words, NumericHelpers, MemoryHelpers, EmittedInstructions, EmittedMemory

`Words` is arithmetic modulo `2^WordBits`, of one word and of two, with the flags of a
comparison and the shifts of the processor. `WordBits` is 32 in the program and any
multiple of four from eight up here; and, or and xor are sums over the bits of the
number, which the prover can reason about. Floats are a small format, with rounding,
infinities and NaN; products, quotients and powers of floats are opaque functions, the
same on both sides. `Interpret(i, m)` is what the helper or the interpreter does with
instruction `i`; `EmitInstruction(i, m)` is what the emitted instructions do, in the
order of the cases of `EmitInstruction` in `emitter.cpp`. Both take a machine to a
machine: memory, value register, object register, stack pointer, exception. An
instruction the emitter leaves to its helper is the helper between write-back and
reload. Two instructions are elsewhere or in part: an ALLOC of a script class is a call of
the constructor, and is in `InlinedCalls`, `FunctionCode` and, as a `method`, in
`JitCallChain`; and the target of a `Cast` is a script class or an interface always, which
`BcCast` and the interpreter assert, so that the branch of the emitter for other types
never runs.

### InstructionPairs

One step: an instruction of `Instructions` is run from a machine of `Machines` by both
sides. The machines have locals at the edges of the number ranges, cached in every
possible number, null handles, shared objects, addresses of locals, globals and
fields. The cases in which the two are known to differ are named operators; the
properties allow those and no other:

| case | what differs |
|---|---|
| `DivideOverflowMissed` | 64-bit division looks for the wrong divisor (finding 4) |
| `LongShift` | 64-bit shifts by a word and more (finding 12) |
| `HalfCachedDouble` | a double half in a register (finding 11) |
| `SquareNotStored` | `POWi` by squaring does not store the zero an overflow leaves in the helper |
| `SquareOfSmallest` | the square of the smallest number is undefined in the helper |
| `HighWordCleared` | `ClrHi` also clears the high word of the value register |

### FunctionAnalysis, InlinedCalls, FunctionCode

`FunctionAnalysis` translates `analysis.cpp`: which locals are cached, which positions
need a label, where a caught exception continues and whether the frame has to be
cleaned, which handles are copied in one step, which comparisons are fused with their
branch, where a value register is forwarded. `InlinedCalls` translates the decoding of
bodies that are inlined (`DecodeInlineScriptBody`, `DecodeSimpleFactory`,
`IsSimpleConstructor`), and what the inlined code does: the guards of a virtual call or
a function pointer, the body on registers of its own, and the slow path.

`FunctionCode` runs a function as native code (`native`, at `pc`) beside the
interpreter (`interpreter`, at `ipc`). `mode` says whether the compiled function is in
native code or was left to the interpreter (suspension, a helper that failed, a jump
table); at the next JitEntry native code is entered again. One native step is what the
emitter writes as one piece; `Follow` runs the same number of instructions in the
interpreter, and `mode` becomes `apart` when position, stack, memory or, at the end,
the result differ. What the application and the functions called may do (raise, ask to
suspend, leave native code) is an event of the step and the same for both.

### EntryDispatch

The tree of comparisons that `EmitEntryDispatch` writes over the ids of the entries, as
a search with bounds, and the ids that `Finalize` writes into the JitEntry
instructions. The argument is anything the interpreter may pass.

## 3. Runs

| run | bounds | what it shows |
|---|---|---|
| `calls` | `CallCode`: six functions with endless loops, one not compiled, two inlined; seven saved frames; one nested execution; five direct levels | type invariant, `WaitersKeepFrames`, `RunsInOwnFrame`, `StacksAligned`; `ScriptVM` is implemented; `SuspendHonoured` |
| `system_calls` | `SysCode`; seven frames; two nested executions | the inductive invariant (every conjunct the proofs use), `ExceptionIsFlagged`, `SysFramesUntouched`, refinement |
| `pool_types` | two threads, two blocks, a class and a derived class, limit 1 | `PooledIsDead`, `DestructedIsLeaving`, the inductive invariant `PoolInv`, refinement of `ObjectHeap` |
| `pool_threads` | two threads, three blocks, one class, limit 2, symmetric threads and blocks | `OnlyOwnerInList`, `CountMatchesList`, `NothingLeaks`, type invariant |
| `lifetime` | two modules, two objects of each class, the tests' order | `CompilerOutlivesCode`, `BucketsKeepTypes`, `BindingKeepsEngine`, `NothingLeftBehind`, the inductive invariant `LifetimeInv` |
| `instructions` | words of 8 bits; four cached locals at most, one step per instruction, operand and machine | `SameResult`, `SameException`, `DifferencesAreLocal`, `ValueRegisterListsRight`, `ExceptionFindsFrame`, types |
| `entry` | up to twenty entries, every argument up to two above | `DispatchFindsEntry`, `EntryStaysInRange`, `RangeHalves`, `DispatchEnds`, types |
| `functions` | words of 8 bits; four cached locals; packed floats of four and two lanes; seventeen families of functions | `OnlyKnownDifferences`, `GoTogether`, `CodeExists`, `ForwardIsTaken`, types |
| `inlined_loop` | `CallCode`; three frames, no nesting, two direct levels | violation of `EveryLoopPolls`, finding 13 |
| `documented_order` | as `lifetime`, README order | violation, finding 1 |
| `global_destructor` | the same, a destructor that allocates | violation, finding 2 |
| `discard` | the same | violation, finding 3 |

Why the bounds suffice. In `calls`, `main` calls `leaf` (fast path), a handle to
`work` (chain), `work` calls `raw` (not compiled: chain, then left to the
interpreter) and `main` again (recursion); the frames are enough for two
activations of `main`, and the limits are close enough that both overflows and the
depth limit happen at several places. Every function but `work` and `unit` has a loop
that nothing ends, so that an exception, a handle, the interpreter, native code, a nested
execution or an inlined body is in the way of the request to suspend. A call polls the
request too, so the loop of `loop` has none in it; `loop` is inlined into
`leaf`, and into `work` through a handle, has another inlined body (`unit`) in it and can
give up behind it; for `raw`, which is interpreted, it is a call like any other. `system_calls` needs two nested executions
so that a marker lies below a marker, with native callers on both sides of each.
For the pool, two threads are all an ownership conflict needs, the third thread
would be another loser; three blocks exceed the limit of two, and lists of length
two are needed to lose an element. Two modules are needed for one to be deleted
while another one runs. What is not bounded by a CONSTANT of the program is named:
`MaxNest`, `MaxObjects`, `Cell`. `MaxFrames`, `MaxDirect` and `Limit` are limits
of the program with smaller values. The runs of pool and lifetime switch deadlock
detection off: an application that has released everything may stop. The runs of
the call chain keep it on: an application can always ask for a suspension or
prepare another execution.

`instructions` and `functions` compute with 8-bit words instead of 32-bit ones and a
two-word number of 16 bits instead of 64. What depends on the width in the source is a
power of two, a sign, a carry or a shift count, and those are written in terms of
`WordBits`; the operands are the edges (zero, one, the largest and smallest signed
number, minus one, shift counts around the width) and a few numbers between.
`MaxCachedLocals` is four instead of ten: five locals are enough to have one too many,
and the double above the last cached one is then split. `MinCachedLength`, below which nothing is
cached, is 16 as in the program for the instructions and 8 for the functions, so that
short functions show both sides; `MaxInlineBody` is 16 instead of 64, and the lanes of
packed floats are four and two instead of eight and four, which keeps the ratio.
`MaxInlineLength` and `BranchShare` are the program's. In `instructions` memory has
four stack words, seven locals, this, a global of two words and two script objects; in
`functions` twenty stack words, eight locals, this, a global, three objects and the
reference counts of functions. The functions of `MCFunctionCode` are written by the
shortcut or the boundary they are about, each with what may stand before, in and behind it: every
fused comparison with every branch, forwards that end at a label, handles copied and
moved, lanes with and without entries between them, loops that are suspended at every
turn, jump tables, nested and empty try blocks, temporaries, inlined bodies that give
up at every place they can. In `entry` twenty entries make a tree of five levels, full
and not full. These three runs switch deadlock detection off because an instruction, a
search and a function end.

Fairness (`FairSpec`): weak fairness of everything that happens inside a running
`Execute` (`Run`, inlined bodies included), since a thread that executes goes on, and of
the `Execute` that a
system function calls after it has prepared a nested execution, without which the
function would hold up the outer one by itself. `SuspendHonoured` is about the
behaviours that do not stay in an inlined body for ever; `inlined_loop` shows that there
are such behaviours, and that in them the request is never looked at. Nothing is assumed of the
application, of other threads, or of how branches go; in particular no script
terminates. `DispatchSpec` has weak fairness of its next step: a processor that is in the
tree goes on. It needs no other; the pool and the lifetime have safety properties only.

Each property has a mutant (`PROJECT.json`, the definitions under a `Broken:`
comment): a slip in the code that it detects.

## 4. Proofs

`JitCallChainProofs` proves, for every script, set of compiled functions and limit
that satisfies the assumptions:

* `Invariance`: `JitSpec => []InductiveInv`;
* `TypeCorrect`, `WaitersKeep`, `RunsInOwn`, `Aligned`, `Flagged`: the invariants
  of the runs follow;
* `SysFramesKept`: `JitSpec => SysFramesUntouched`. Under a running `Execute` every step
  changes the call stack in one of four ways (`StackStep`: a new position, a frame more,
  a frame less, unwinding), all of them above the marker where that execution begins.

`JitRefinementProofs` proves, under the same assumptions, that the JIT implements the
interpreter: `Refinement`: `JitSpec => ImplementsVM`. The refinement mapping is
`VisibleStack`, the call stack with the position that running native code keeps for
itself. Each instruction of native code is the interpreter's instruction; entering
native code, leaving it, the loop of `ResumeJitCallChain` and the return from a callee
change nothing visible. The work is in the second part: that a position can be hidden or
shown without changing the visible stack. It needs, of the invariant, that a waiting
activation's frame holds the position it waits at (`OwnFrame`), that under an activation
which leaves there is one that waits, a chain loop, or another execution (`AfterExit`),
that native code has control under an `Execute` only (`NativeInExecute`), and that a
local catch is the one that unwinding would find (`CatchesHere`). `SysInsideTry` is used
once, where `Thiscall1` raises its exception behind the instruction. An inlined body
changes nothing visible until it returns, which is the interpreter's `CallInOneStep`
(`InlinedRetRefines`), or gives up, which is the call itself: nothing has happened
(`InlinedBodyRefines`). So what inlining costs in control is one freedom with a name:
a call that polls nothing and can be endless.

Why a stronger invariant. `RunsInOwnFrame` after a call rests on the length of the
call stack alone (`BackInOwnFrame`): the code does not look at whose frame is on
top. That this is enough needs that the frame at that length was kept
(`ActivationShape`: a waiting activation's frame is below or at the top and has the
return position), which needs that nothing pops below a waiter
(`StacksAligned`, and the shape of the `host` stack: `HostShape`), that an exception
unwinds either to the frame of a piece of native code that will see a status
that is not active or below, that markers are where system functions were called
(`StackShape`), and that the status tells whether an execution has frames
(`StatusShape`). `CatchesHere` is the intermediate state between an exception and
its catch in native code. `ExceptionIsFlagged` needs to be in it because
`NativeSysReturn` relies on it to go on without looking at the status. `BodyShape` ties
`body` to the call that native code is at; every step outside of a body has `body` empty
(`BodyWaits`), and a body has neither a frame nor an activation that the rest of the
invariant would have to know of.

Layout: the first half of the module has lemmas about sequences, about each operator
(`Unwound`, `Covering`, `Waiting`, ...) and about each conjunct; the second half has
one lemma per action of `JitNext` with one step per conjunct, then `Invariance`,
then the corollaries. The assumptions are `FnAssumption`, `BoundAssumption`,
`CodeAssumption`, `HandlerAssumption`, `JitAssumption`, `InlineAssumption` and
`SysInsideTry`, which TLC evaluates in every run.

`ObjectPoolProofs`, for any number of threads, blocks and classes, any limit and any
hierarchy:

* `PoolInvariant`: `Spec => []PoolInv`; from it `PoolTypeCorrect`, `OwnershipIsALock`,
  `PooledStaysDead`, `CountIsRight`, `NoBlockIsLost`, `NobodyRevives`;
* `PoolIsAHeap`: `Spec => ImplementsHeap`. `Construct` is the heap's `New`,
  `DecreaseRef` and `ScriptObjectRelease` its `Drop`, `Share` and `Upgrade` its `Share`;
  everything else changes nothing there.

The argument: every allocated block is in exactly one of three places: held
(`HeldIsAllocated`), in the hands of one thread (`CarriedIsFree`), or in one list
(`PooledIsFree`, `NothingLost`). The move from the first to the second is safe because
the fast release, once it has found one reference and no weak flag, is the only one who
can reach the object (`ReleasesItsOwn`); the moves to and from the third because only
the owner is at the list (`OnlyOwnerInList`), what it read is still there
(`AtTheList`), and the list is a chain (`ListsAreChains`), so that taking out the first
block takes out one block (`WithoutFirst`) and putting one in adds one (`WithOneMore`).
`CountOwes` says how far a count is behind its list at each program counter;
`ClearedIsQuiet` that nothing enters a list after `Clear`. The lemmas about lists are
about any chain of links and need no induction: a closed set that has the first block
contains everything the chain reaches.

`EngineLifetimeProofs`, for any number of modules and objects: `LifetimeInvariant`, and
from it `LifetimeTypeCorrect`, `BucketsKeep`, `BindingKeeps`, `NothingIsLeft` in both
orders of teardown, and `CompilerOutlives` for the order of the tests, which is the
assumption `BindingFirst = FALSE`. `LifetimeInv` says that each count is the number of
its owners (`EngineRefsCounted`, `TypeRefsCounted`) and that the owners go in their turn
(`ApplicationLeavesClean`, `EngineTakesModules`, `BindingLast`).

`EntryDispatchProofs`, for any number of entries and any argument: `DispatchIsRight`,
`SearchKeepsEntry`, `DispatchTypeCorrect` and `SearchIsLogarithmic`. The invariant is
that of a binary search: the entry is in the range that is left.

`EmittedCodeLemmas` has theorems about the operators of `LocalCache`, for any frame and any set of cached
locals: `LoadReadsView`, `StoreWritesView`, `Load64ReadsView`, `Store64WritesView`,
`LoadDoubleReadsView`, `StoreDoubleWritesView` (unless the double is split),
`FlushWritesFrame`, `ReloadReadsFrame`; and `OnlyTheHighestSplits`, which says of a set
that is closed downward, as `analysis.cpp` makes it, which doubles can be split. Its other
half is about numbers, for any word size: powers of two, the halves of a quad, and four
theorems about what emitted code does on two words instead of one quad: the product from
one `mul` and two `imul` (`MultiplyHalves`), the word of a shifted quad that `shl`, `shr`
and `sar` give for a count up to one word (`ShiftHalves`; the other word is the one of
`shld` and `shrd`, and above one word they differ, which is finding 12), and, or and xor
half by half (`LogicOfHalves`), and the comparison that looks at the high words first
(`OrderOfHalves`). `Power` and the sums of bits are recursive functions; the lemmas about
them use induction over a concrete set of numbers.

`InstructionPairsProofs`, for any word size, any choice of cached locals and any state of
the program that the assumptions admit: `PairInvariant`: `Spec => []PairInv`; from it
`ResultsAreTheSame`, `ExceptionsAreTheSame`, `DifferencesStayLocal`, `ExceptionsFindFrame`
and `ValueRegisterLists`, the five properties that the run `instructions` checks on a few
hundred states of 8-bit words. So the six cases of the table above are all there are for
32 bits too. The argument:

* Two states are `Twins` if the program cannot tell them apart; each helper gives twins
  from twins (`InterpretTwins`), group by group. With it an instruction that the emitter
  leaves to its helper is settled: write-back, helper, reload.
* A state of emitted code and one of the interpreter are a `Mirror` if the view of the
  first is the frame of the second. Each load, store, push and exception of the emitter
  keeps the mirror, and each emitter is compared with its helper: `StackAgrees`,
  `MemoryAgrees`, `ReferencesAgree`, and for the numeric instructions `NumericOutcome`.
  The stack instructions need that no local is cached where they are (`CachedApart`).
* `Outcome` says what may come of an instruction: the states agree, or it is one of the
  known cases and they differ in the destination only (`Near`, `Fine`). The instructions
  that are known to differ are followed to the word they differ in: a 64-bit division
  agrees unless it looks for the wrong divisor, a shift unless the count is a word or
  more, a double unless its halves are apart, a square unless it overflows.
* `UnsignedToFloatAgrees` is about `asBC_uTOf`: a word with its top bit set is halved with
  the lost bit kept, converted and doubled, and rounds as the direct conversion does.
* Two states are `Beside` each other if they differ in the value register only. What
  `PreservesValueRegister` lists leaves it alone and does not look at it, what
  `WritesValueRegister` lists writes the same whatever was there (`InterpretIgnores`,
  `InterpretWrites`), for all of the instructions on the lists.

Its assumptions are `WordBitsAssumption`; `InstructionsAssumption`, that an instruction has
a helper; and `MachinesAssumption`: memory, registers and value register hold words, the
variables, globals and references an instruction names are in memory, no local is cached
where the instruction could not be in a function that caches (`CachedApart`, the condition of
`CacheLocals`), and the exponent of a `POWi` marked as a square is two. The first three are
how a machine is put together; the others are what the compiler and `analysis.cpp` see to.

`FunctionCodeProofs`, for any well-formed function, any frame, and any number of lanes:
`ControlInvariant`: `Spec => []ControlInv`; from it `CodeAlwaysExists` and
`ForwardAlwaysTaken`. `ControlInv` says that the plan is the one the analyses make of the
function, that native code is at a position that has code of its own (`HasCode`), and that
an active forward began at an earlier position from which everything up to here passes it
on (`Carried`). It is kept because nothing jumps into what was taken together:
`LabelsStopFusions` (branches, entries and catch blocks are labels, and labels stop the
copies and the fused comparisons) and its like for packed floats and forwards.

The same module compares native code with the interpreter. `StaysTogetherUntilApart`:
until one ends or they part, both are at the same instruction in the same state
(`Together`); the step that matters is the entry, whose prologue has to load what the
program sees. `ControlStepsAgree`: a fused comparison, a branch, a jump table, an entry, a
suspension and a return bring native code where the interpreter's instructions lead, with
the same state, except for finding 5. For a fused comparison the interpreter runs two or
three instructions (`FusedIsInterpreted`), and the flags of the difference are shown to mean
what the value register would say (`FusedMeans`, `TestedMeans`), for words of any size.

`ShortcutStepsAgree`: floats computed together and a handle copied in one step do what the
interpreter does in as many instructions as the shortcut stands for. For the floats the
interpreter goes through the lanes one by one (`LanesInterpreted`, an induction over the
lanes); that no lane reads what one before it has written is what the test of
`EmitPackedFloatBinary` for overlapping ranges is for (`BinaryLanes`, `LanesApart`). For the
handle the interpreter pushes it, copies it and pops it, or moves it by a copy and a
`FREE` (`CopySequence`); what it leaves is below the stack pointer, and the counts of
both objects end as those of the shortcut.

`SystemCallsAgree` and `AllocationsAgree`: a system function or an allocation that returns,
asks for a suspension or raises an exception, with cached locals flushed and reloaded
around it. An exception is caught in native code by `CatchLocalException` or left to
the interpreter; both free the objects of the frame the handler does not know of. The
exceptions are findings 6 and 10; `NothingKept` says when the fast path of
`CatchLocalException` is right to free nothing.

`StaysTogetherUntilApart` takes `[]FunctionTypeOK` as a hypothesis, the four theorems about
steps `[]WayIsKnown` too: a forward is over where a branch looks at the value register; the
variables that a shortcut, a jump table or the cleaning of the frame reads are in it;
the stack has the word that a copied handle or an allocation uses; a handle is not the
address of such a variable; and what is declared behind a try block is null in it. The run
`functions` checks both (`WayIsKnown` as a part of `GoTogether`); what other functions do
to a frame enters them through the constant `CallOf`, of which nothing is assumed.
The other assumptions are `ProgramsAssumption` (`WellFormed`: branches and catch
blocks lead to instructions, the last one is RET, and behind a system call, where
`asCByteCode::Call` puts a JitEntry, no try block begins and no handler starts),
`LanesAssumption` and those on words.

The assumptions are those the modules name (`PoolAssumption`, `LifetimeAssumption`,
`DispatchAssumption` and so on), which TLC evaluates in the runs.

Only model-checked:

* liveness (`SuspendHonoured`, `DispatchEnds`): temporal reasoning under fairness and
  ENABLED are out of the prover's reach;
* `OnlyKnownDifferences` for calls of script functions (inlined bodies are defined by
  recursion, and enter `FunctionCode` through the constant `CodeOfCall`), for single
  instructions in native code and in the interpreter behind an exit (what they do between
  equal machines is proved in `InstructionPairsProofs`, but here the machines are equal only
  above the stack pointer and but for a forwarded value register), and its other direction,
  that the two really part in the six cases;
* `WayIsKnown`, see above;
* the type invariants `TypeOK` of `InstructionPairs` and `FunctionTypeOK` of `FunctionCode`: that
  reference counts and addresses stay words is true of the machines the runs start with and
  of programs with less than 2^32 references, not of every machine; of the
  proofs only the two above need it.

## 5. Findings

1. `documented_order`. The root README says to destroy the binding before the
   engine is released. In this order the compiler, and with it all native code,
   is deleted while the engine's functions still point to it and the engine
   still calls it (`ReleaseJITFunction`) when they are deleted. The tests use the
   opposite order, in which the binding's own reference puts things right.
2. `global_destructor`. `~JitEngine` clears the pool, which sets the class of every
   bucket to null, before it releases the engine. If that release is the last, the
   destructors of global objects run afterwards, and one that creates a pooled
   object reaches `CallAlloc` with a null class.
3. `discard`. A bucket's reference to its class is an external reference to the
   module, so that a discarded module with a pooled class stays until the binding
   goes.

The remaining findings are cases in which native code does something else than the
interpreter. The consistency tests of the repository
(`src/tests/consistency/jit_consistency.cpp`) state that it never does. The properties
of the runs `instructions` and `functions` say that the two differ in exactly the cases
named, so that these runs pass: they show that the cases exist and that there are no
others within the bounds.

4. `instructions`, `DivideOverflowMissed`: `DIVi64` and `MODi64` look for the divisor
   4294967295 instead of -1.
5. `functions`, `SignOfOverflow`: a signed comparison fused with `JS` or `JNS` looks at the
   sign of the difference.
6. `functions`, `TemporaryKept`: `CatchLocalException` does not clean temporaries when no
   object is declared in the try block.
7. `functions`, `RestartedLate`: an inlined body that cannot go on is called again from its
   start, after what it has already written or pushed.
8. `functions`, `LeftInside`: a function pointer called in an inlined body leaves native
   code behind the inlined call; the rest of the body is not run.
9. `functions`, `LocalThroughAddress`: an inlined body writes a variable through its
   address while the variable is in a register.
10. `functions`, `StaleAfterAlloc`: `BcAlloc` for an application's type without constructor
    counts from a position that was not written.
11. `instructions`, `HalfCachedDouble`: a double one half of which is cached is read and
    written in memory only, against the comment in `analysis.cpp`.
12. `instructions`, `LongShift`: 64-bit shifts by 32 to 63, against the comment in
    `numeric.cpp`.

One is about time, and has a violation run of its own:

13. `inlined_loop`, `EveryLoopPolls`: `DecodeInlineScriptBody` accepts branches backwards,
    and SUSPEND emits nothing in an inlined body. A loop in a function that is inlined
    polls no request before it ends, and if it does not end the context cannot be
    suspended; nor is the line callback invoked, which AngelScript's manual guarantees
    for every loop (`doc_adv_timeout.html`).

Differences that are known and not counted as findings, because no document says which
is meant: the last three cases of the table under `InstructionPairs`; and a system
function that raises an exception and is followed by a suspension: the interpreter loses
the exception, native code keeps it (`CatchBeforeSuspend`). The list of instructions that preserve the value register
names `CpyRtoV8`, which also reads it: it would matter behind an instruction that leaves
a word or an address there, and the functions of the runs, like the compiler, have none
in that place.

## 6. Plan

Done, in this order:

1. `ScriptVM`, `JitCallChain`, with the invariant proved.
2. `ObjectHeap`, `ObjectPool`, `EngineLifetime`, and the first theorems.
3. `LocalCache` with its theorems; the instructions on both sides and `InstructionPairs`.
4. `EntryDispatch` with its theorems.
5. `FunctionAnalysis`, `InlinedCalls`, `FunctionCode`.
6. `JitCallChain`: imports, delegates, interface calls, handles to system functions,
   `Thiscall1`.
7. The invariants of `EngineLifetime`; the invariant of `ObjectPool` and its refinement of
   `ObjectHeap`.
8. The refinement of `ScriptVM` by `JitCallChain` as a theorem, and `SysFramesUntouched`.
9. `Words` without bitwise operators and for any width; the invariants of `InstructionPairs`
   and the control invariant of `FunctionCode` as theorems; fused comparisons and the other
   steps of control against the interpreter.
10. Packed floats, copied handles, system calls and allocations against the interpreter.
11. Inlined bodies in `JitCallChain`, in its proofs and in the refinement.

Left, in order of worth:

1. Single instructions between machines that are equal above the stack pointer only, and
   beside a forwarded value register, as theorems.
2. `Abort` and line callbacks in `ScriptVM` and `JitCallChain`.
3. Several contexts that run native code with one pool and one engine, composed from
   `ObjectPool` and `EngineLifetime`.
4. The passing of arguments to system functions.

## 7. Not modelled

| component | status |
|---|---|
| Virtual machine | partly: no values, `Abort`, line callbacks, limit of nested executions, contexts restored from a file |
| Calls and control flow | partly: no line callbacks, `Abort`, arguments of system functions |
| Object pool | partly: which classes are pooled is an input |
| Binding and lifetime | partly: one class per module; no shared classes, no second binding |
| Inlined functions | partly: no limit of 16 instructions for constructors, no stack-space checks in bodies; in `JitCallChain` no function pointers in them |
| Entry dispatch, cached locals, forwarding and fusion, local exceptions, numeric instructions, stack, memory and reference instructions | modelled |
| Bytecode tables, CPU requirements | not modelled: a table and a test without state |

In detail:

* Products, quotients and powers of floats are opaque; both sides use the C++ library or
  the same processor instruction.
* Arguments and calling conventions of system functions (`FastSystemCall`): what a system
  function gets is the application's memory in a layout fixed by the platform.
* The RET of an inlined body is taken to find the stack as it was at the start, which the
  compiler guarantees.
* `Abort`, line callbacks, the engine's limit of nested executions, contexts that are
  restored from a file.
* The C++ stack's size. The fast path of `CALL` is limited by the script stack only
  (listed as a hazard).
* `Clear` while scripts run (listed as a hazard: the list has no lock that would allow it),
  several bindings on one engine, shared classes.
* The asmjit library, bytecode tables and the CPU test.
