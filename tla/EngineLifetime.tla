--------------------------- MODULE EngineLifetime ---------------------------
(***************************************************************************)
(* Who keeps whom alive: the AngelScript engine, its modules with their    *)
(* classes, the binding that AsJitCreateEngine returns, the compiler that  *)
(* owns the native code, and the compiler's pool of released objects,      *)
(* which has a bucket for the class of every module whose code creates     *)
(* objects.                                                                *)
(*                                                                         *)
(* The application creates an engine and a binding, builds, uses and       *)
(* discards modules, and gives up the engine and the binding in one of two *)
(* orders: README.md destroys the binding first, the tests release the     *)
(* engine first.  Each module has one class without references to other    *)
(* objects, and one global object.                                         *)
(***************************************************************************)
EXTENDS Integers, FiniteSets

CONSTANTS
    Module,
    Allocating,     \* modules whose global object has a destructor that
                    \* creates an object of the module's class
    BindingFirst,   \* the application follows README.md, not the tests
    MaxObjects,     \* bound: objects of one class that the application holds
    None

ASSUME LifetimeAssumption ==
    /\ None \notin Module
    /\ Allocating \subseteq Module
    /\ BindingFirst \in BOOLEAN
    /\ MaxObjects \in Nat

VARIABLES
    engine,         \* the engine: up, down (its destructor runs) or deleted
    engineRefs,     \* its reference count
    app,            \* the application has its reference to the engine
    binding,        \* none, bound, cleared, released or gone
    compiler,       \* the compiler exists
    module,         \* absent, built, exiting, discarded or deleted
    code,           \* functions of the module have native code
    objects,        \* objects of the module's class that the application holds
    typeRefs,       \* externalRefCount of the module's class
    bucket,         \* none, open, or closed (its objectType is null)
    running         \* the module whose code runs

engineVars == <<engine, engineRefs, app>>
moduleVars == <<module, code, objects, typeRefs>>
vars == <<engineVars, moduleVars, binding, compiler, bucket, running>>

\* The application acts while none of its calls is in progress.
AppActs ==
    /\ app /\ engine = "up" /\ running = None
    /\ \A m \in Module : module[m] # "exiting"
    /\ binding \in {"none", "bound", "gone"}

\* asIScriptEngine::Release; the last one runs the engine's destructor.
ReleaseEngine ==
    /\ engineRefs' = engineRefs - 1
    /\ engine' = IF engineRefs = 1 THEN "down" ELSE engine

-----------------------------------------------------------------------------
(* The binding.                                                            *)

\* Broken: the binding does not keep the engine.
CreateWithoutReference ==
    /\ AppActs /\ binding = "none"
    /\ binding' = "bound" /\ compiler' = TRUE
    /\ UNCHANGED <<engineVars, moduleVars, bucket, running>>

AsJitCreateEngine ==
    /\ AppActs /\ binding = "none"
    /\ binding' = "bound" /\ compiler' = TRUE
    /\ engineRefs' = engineRefs + 1
    /\ UNCHANGED <<engine, app, moduleVars, bucket, running>>

OpenBuckets == {m \in Module : bucket[m] = "open"}

\* Broken: keeps the references to the classes.
ClearKeepingTypes ==
    /\ binding = "bound" /\ running = None
    /\ IF BindingFirst THEN AppActs ELSE ~app
    /\ bucket' = [m \in Module |-> IF bucket[m] = "open" THEN "closed" ELSE bucket[m]]
    /\ binding' = "cleared"
    /\ UNCHANGED <<engineVars, compiler, module, code, objects, typeRefs, running>>

\* AsJitDestroyEngine deletes the JitEngine, whose destructor first clears
\* the pool,
ClearObjectPool ==
    /\ binding = "bound" /\ running = None
    /\ IF BindingFirst THEN AppActs ELSE ~app
    /\ bucket' = [m \in Module |-> IF bucket[m] = "open" THEN "closed" ELSE bucket[m]]
    /\ typeRefs' = [m \in Module |->
            IF m \in OpenBuckets THEN typeRefs[m] - 1 ELSE typeRefs[m]]
    /\ binding' = "cleared"
    /\ UNCHANGED <<engineVars, compiler, module, code, objects, running>>

\* Broken: deletes the compiler before it releases the engine.
DeleteCompilerFirst ==
    /\ binding = "cleared"
    /\ compiler' = FALSE
    /\ ReleaseEngine
    /\ binding' = "released"
    /\ UNCHANGED <<app, moduleVars, bucket, running>>

\* then releases the engine,
BindingReleasesEngine ==
    /\ binding = "cleared"
    /\ ReleaseEngine
    /\ binding' = "released"
    /\ UNCHANGED <<app, compiler, moduleVars, bucket, running>>

\* and deletes the compiler, with all native code, when Release has returned.
DeleteCompiler ==
    /\ binding = "released" /\ engine # "down"
    /\ compiler' = FALSE
    /\ binding' = "gone"
    /\ UNCHANGED <<engineVars, moduleVars, bucket, running>>

-----------------------------------------------------------------------------
(* Modules.                                                                *)

\* Broken: a bucket does not keep its class.
BuildWithoutTypeRef(m) ==
    /\ AppActs /\ module[m] = "absent" /\ binding # "gone"
    /\ module' = [module EXCEPT ![m] = "built"]
    /\ \E compiled \in BOOLEAN, pooled \in BOOLEAN :
        /\ compiled \/ pooled => binding = "bound"
        /\ code' = [code EXCEPT ![m] = compiled]
        /\ bucket' = [bucket EXCEPT ![m] = IF pooled THEN "open" ELSE @]
    /\ UNCHANGED <<engineVars, binding, compiler, objects, typeRefs, running>>

\* The engine compiles the functions of a new module if it has a compiler.
\* A function that creates or releases objects of the class gets its bucket
\* (GetBucket), even if an instruction after that makes the compiler give up.
\* Only native code that was emitted with a bucket uses one.
Build(m) ==
    /\ AppActs /\ module[m] = "absent" /\ binding # "gone"
    /\ module' = [module EXCEPT ![m] = "built"]
    /\ \E compiled \in BOOLEAN, pooled \in BOOLEAN :
        /\ compiled \/ pooled => binding = "bound"
        /\ code' = [code EXCEPT ![m] = compiled]
        /\ bucket' = [bucket EXCEPT ![m] = IF pooled THEN "open" ELSE @]
        /\ typeRefs' = [typeRefs EXCEPT ![m] = IF pooled THEN @ + 1 ELSE @]
    /\ UNCHANGED <<engineVars, binding, compiler, objects, running>>

\* The application calls a function of a module, which may return an object;
\* the objects keep their class.
Call(m) ==
    /\ AppActs /\ module[m] = "built" /\ binding # "gone"
    /\ running' = m
    /\ UNCHANGED <<engineVars, binding, compiler, moduleVars, bucket>>

Return ==
    /\ running # None /\ module[running] = "built"
    /\ \E keep \in BOOLEAN :
        /\ keep => objects[running] < MaxObjects
        /\ objects' = [objects EXCEPT ![running] = IF keep THEN @ + 1 ELSE @]
        /\ typeRefs' = [typeRefs EXCEPT ![running] = IF keep THEN @ + 1 ELSE @]
    /\ running' = None
    /\ UNCHANGED <<engineVars, binding, compiler, module, code, bucket>>

ReleaseObject(m) ==
    /\ AppActs /\ objects[m] > 0
    /\ objects' = [objects EXCEPT ![m] = @ - 1]
    /\ typeRefs' = [typeRefs EXCEPT ![m] = @ - 1]
    /\ UNCHANGED <<engineVars, binding, compiler, module, code, bucket, running>>

\* asCModule::Discard: CallExit destroys the global object, whose destructor
\* may be code of the module.
StartDiscard(m) ==
    /\ module' = [module EXCEPT ![m] = "exiting"]
    /\ running' = IF m \in Allocating THEN m ELSE None
    /\ UNCHANGED <<engineVars, binding, compiler, code, objects, typeRefs, bucket>>

DiscardModule(m) == AppActs /\ module[m] = "built" /\ StartDiscard(m)

\* asCModule::HasExternalReferences only warns while the engine goes down.
HasExternalReferences(m) == engine = "up" /\ typeRefs[m] > 0

\* DeleteDiscardedModules: deleting a module deletes its functions, whose
\* native code goes back to the compiler (ReleaseJITFunction).
DeleteModules(discarded) ==
    LET gone == {m \in discarded : ~HasExternalReferences(m)}
    IN  /\ module' = [m \in Module |->
                IF m \in gone THEN "deleted"
                ELSE IF m \in discarded THEN "discarded" ELSE module[m]]
        /\ code' = [m \in Module |-> code[m] /\ m \notin gone]

Discarded == {m \in Module : module[m] = "discarded"}

\* Discard ends with a collection, unless the engine goes down.
FinishDiscard(m) ==
    /\ module[m] = "exiting"
    /\ IF engine = "up"
       THEN DeleteModules(Discarded \cup {m})
       ELSE module' = [module EXCEPT ![m] = "discarded"] /\ UNCHANGED code
    /\ running' = None
    /\ UNCHANGED <<engineVars, binding, compiler, objects, typeRefs, bucket>>

GarbageCollect ==
    /\ AppActs /\ Discarded # {}
    /\ DeleteModules(Discarded)
    /\ UNCHANGED <<engineVars, binding, compiler, objects, typeRefs, bucket, running>>

-----------------------------------------------------------------------------
(* The end of the engine.                                                  *)

\* The application has released every object it got from the engine.
ReleaseByApplication ==
    /\ AppActs /\ \A m \in Module : objects[m] = 0
    /\ BindingFirst => binding \in {"none", "gone"}
    /\ app' = FALSE
    /\ ReleaseEngine
    /\ UNCHANGED <<moduleVars, binding, compiler, bucket, running>>

\* ShutDownAndRelease discards the modules one after the other,
ShutDownModule(m) ==
    /\ engine = "down" /\ module[m] = "built"
    /\ \A n \in Module : module[n] # "exiting"
    /\ StartDiscard(m)

\* and deletes all of them.
DeleteEngine ==
    /\ engine = "down"
    /\ \A m \in Module : module[m] \notin {"built", "exiting"}
    /\ DeleteModules(Discarded)
    /\ engine' = "deleted"
    /\ UNCHANGED <<engineRefs, app, binding, compiler, objects, typeRefs, bucket, running>>

-----------------------------------------------------------------------------
Init ==
    /\ engine = "up" /\ engineRefs = 1 /\ app = TRUE
    /\ binding = "none" /\ compiler = FALSE
    /\ module = [m \in Module |-> "absent"]
    /\ code = [m \in Module |-> FALSE]
    /\ objects = [m \in Module |-> 0]
    /\ typeRefs = [m \in Module |-> 0]
    /\ bucket = [m \in Module |-> "none"]
    /\ running = None

Next ==
    \/ AsJitCreateEngine \/ ClearObjectPool
    \/ BindingReleasesEngine \/ DeleteCompiler
    \/ Return \/ GarbageCollect \/ ReleaseByApplication \/ DeleteEngine
    \/ \E m \in Module :
        \/ Build(m) \/ Call(m) \/ ReleaseObject(m)
        \/ DiscardModule(m) \/ FinishDiscard(m) \/ ShutDownModule(m)

Spec == Init /\ [][Next]_vars

-----------------------------------------------------------------------------
(* Properties.                                                             *)

LifetimeTypeOK ==
    /\ engine \in {"up", "down", "deleted"}
    /\ engineRefs \in 0..2
    /\ app \in BOOLEAN
    /\ binding \in {"none", "bound", "cleared", "released", "gone"}
    /\ compiler \in BOOLEAN
    /\ module \in [Module -> {"absent", "built", "exiting", "discarded", "deleted"}]
    /\ code \in [Module -> BOOLEAN]
    /\ objects \in [Module -> 0..MaxObjects]
    /\ typeRefs \in [Module -> 0..MaxObjects + 1]
    /\ bucket \in [Module -> {"none", "open", "closed"}]
    /\ running \in Module \cup {None}

\* The compiler is there as long as a function has native code: the code is
\* in its runtime, and the function returns it through the pointer that
\* SetJITCompiler left in the engine (ReleaseJITFunction).
CompilerOutlivesCode == \A m \in Module : code[m] => compiler

\* Native code that runs finds the class in its bucket, which it passes to
\* CallAlloc when the list is empty (CreatePooledScriptObject).
PoolServesRunningCode ==
    running # None /\ code[running] => bucket[running] # "closed"

\* A bucket points to a class that exists, though its module may long have
\* been discarded (GetBucket).
BucketsKeepTypes == \A m \in OpenBuckets : module[m] # "deleted"

\* Until its destructor releases the engine, the binding can use it
\* (CallFree in Clear).
BindingKeepsEngine == binding \in {"bound", "cleared"} => engine = "up"

\* When engine and binding are gone nothing is left: no module, no reference
\* to a class, no native code, no reference to the engine.
NothingLeftBehind ==
    engine = "deleted" /\ binding \in {"none", "gone"} =>
        /\ engineRefs = 0
        /\ \A m \in Module :
            /\ module[m] \in {"absent", "deleted"}
            /\ typeRefs[m] = 0 /\ ~code[m]

(* Why these hold: the counts are those of the owners, and each owner goes   *)
(* in its turn.                                                            *)

\* The engine lives as long as the application or the binding has a reference.
EngineRefsCounted ==
    /\ engineRefs = (IF app THEN 1 ELSE 0)
                    + (IF binding \in {"bound", "cleared"} THEN 1 ELSE 0)
    /\ engine = "up" <=> engineRefs > 0

\* A class is referred to by its objects and by its bucket.
TypeRefsCounted ==
    \A m \in Module :
        typeRefs[m] = objects[m] + (IF bucket[m] = "open" THEN 1 ELSE 0)

CompilerOwned == compiler <=> binding \in {"bound", "cleared", "released"}

BucketsOwned ==
    \A m \in OpenBuckets : binding = "bound" /\ module[m] \notin {"absent", "deleted"}

\* Native code belongs to a module, and was compiled through a binding.
CodeOwned ==
    \A m \in Module : code[m] =>
        module[m] \notin {"absent", "deleted"} /\ binding # "none"

\* The application gives up the engine when it has no object and no call.
ApplicationLeavesClean ==
    ~app => /\ \A m \in Module : objects[m] = 0
            /\ running # None => module[running] = "exiting"

EngineTakesModules ==
    engine = "deleted" => \A m \in Module : module[m] \in {"absent", "deleted"}

\* In the order of the tests the binding goes after the application's
\* reference, and the compiler after the engine.
BindingLast ==
    ~BindingFirst =>
        /\ binding \in {"cleared", "released", "gone"} => ~app
        /\ binding = "gone" => engine = "deleted"

LifetimeInv ==
    /\ LifetimeTypeOK
    /\ EngineRefsCounted /\ TypeRefsCounted
    /\ CompilerOwned /\ BucketsOwned /\ CodeOwned
    /\ ApplicationLeavesClean /\ EngineTakesModules /\ BindingLast

\* Discarding a module frees its memory unless the application still holds an
\* object of its class (asIScriptEngine::DiscardModule).
DiscardFreesModule ==
    [][\A m \in Module :
        module[m] = "exiting" /\ engine = "up" /\ objects[m] = 0 =>
            module'[m] \in {"exiting", "deleted"}]_vars
=============================================================================
