----------------------- MODULE EngineLifetimeProofs -----------------------
(***************************************************************************)
(* The properties of EngineLifetime, for any number of modules and         *)
(* objects.  All but one hold in both orders of teardown; that the compiler*)
(* outlives native code needs the order of the tests.                      *)
(***************************************************************************)
EXTENDS EngineLifetime, TLAPS

LEMMA InitEstablishesLifetimeInv == Init => LifetimeInv
<1> SUFFICES ASSUME Init
             PROVE  LifetimeInv
  OBVIOUS
<1> USE LifetimeAssumption DEF Init
<1>1. LifetimeTypeOK
  <2>1. objects \in [Module -> 0..MaxObjects]
        /\ typeRefs \in [Module -> 0..MaxObjects + 1]
    OBVIOUS
  <2>2. app \in BOOLEAN /\ compiler \in BOOLEAN /\ code \in [Module -> BOOLEAN]
    BY Zenon
  <2>3. engineRefs \in 0..2
    OBVIOUS
  <2> QED  BY <2>1, <2>2, <2>3, Zenon DEF LifetimeTypeOK
<1>2. EngineRefsCounted
  BY DEF EngineRefsCounted
<1>3. TypeRefsCounted
  BY DEF TypeRefsCounted
<1>4. CompilerOwned
  BY DEF CompilerOwned
<1>5. BucketsOwned /\ CodeOwned
  BY DEF BucketsOwned, CodeOwned, OpenBuckets
<1>6. ApplicationLeavesClean /\ EngineTakesModules /\ BindingLast
  BY DEF ApplicationLeavesClean, EngineTakesModules, BindingLast
<1> QED  BY <1>1, <1>2, <1>3, <1>4, <1>5, <1>6 DEF LifetimeInv

-----------------------------------------------------------------------------
(* Actions of the binding.                                                 *)

LEMMA CreateKeepsInv == LifetimeInv /\ AsJitCreateEngine => LifetimeInv'
  BY LifetimeAssumption
  DEF LifetimeInv, LifetimeTypeOK, EngineRefsCounted, TypeRefsCounted,
      CompilerOwned, BucketsOwned, CodeOwned, ApplicationLeavesClean,
      EngineTakesModules, BindingLast, OpenBuckets,
      AsJitCreateEngine, AppActs, moduleVars

LEMMA ClearKeepsInv == LifetimeInv /\ ClearObjectPool => LifetimeInv'
  BY LifetimeAssumption
  DEF LifetimeInv, LifetimeTypeOK, EngineRefsCounted, TypeRefsCounted,
      CompilerOwned, BucketsOwned, CodeOwned, ApplicationLeavesClean,
      EngineTakesModules, BindingLast, OpenBuckets,
      ClearObjectPool, AppActs, engineVars

LEMMA BindingReleaseKeepsInv == LifetimeInv /\ BindingReleasesEngine => LifetimeInv'
  BY LifetimeAssumption
  DEF LifetimeInv, LifetimeTypeOK, EngineRefsCounted, TypeRefsCounted,
      CompilerOwned, BucketsOwned, CodeOwned, ApplicationLeavesClean,
      EngineTakesModules, BindingLast, OpenBuckets,
      BindingReleasesEngine, ReleaseEngine, moduleVars

LEMMA DeleteCompilerKeepsInv == LifetimeInv /\ DeleteCompiler => LifetimeInv'
<1> SUFFICES ASSUME LifetimeInv, DeleteCompiler
             PROVE  LifetimeInv'
  OBVIOUS
<1> USE DEF LifetimeInv, DeleteCompiler, engineVars, moduleVars
<1>1. LifetimeTypeOK'
  BY DEF LifetimeTypeOK
<1>2. EngineRefsCounted'
  BY DEF EngineRefsCounted
<1>3. TypeRefsCounted'
  BY DEF TypeRefsCounted
<1>4. CompilerOwned'
  BY DEF CompilerOwned
<1>5. BucketsOwned' /\ CodeOwned'
  BY DEF BucketsOwned, CodeOwned, OpenBuckets
<1>6. ApplicationLeavesClean' /\ EngineTakesModules'
  BY DEF ApplicationLeavesClean, EngineTakesModules
<1>7. BindingLast'
  BY DEF BindingLast, EngineRefsCounted, LifetimeTypeOK
<1> QED  BY <1>1, <1>2, <1>3, <1>4, <1>5, <1>6, <1>7

-----------------------------------------------------------------------------
(* Actions on modules and objects.                                         *)

LEMMA BuildKeepsInv ==
  ASSUME NEW m \in Module, LifetimeInv, Build(m)
  PROVE  LifetimeInv'
  BY LifetimeAssumption
  DEF LifetimeInv, LifetimeTypeOK, EngineRefsCounted, TypeRefsCounted,
      CompilerOwned, BucketsOwned, CodeOwned, ApplicationLeavesClean,
      EngineTakesModules, BindingLast, OpenBuckets,
      Build, AppActs, engineVars

LEMMA CallKeepsInv ==
  ASSUME NEW m \in Module, LifetimeInv, Call(m)
  PROVE  LifetimeInv'
  BY LifetimeAssumption
  DEF LifetimeInv, LifetimeTypeOK, EngineRefsCounted, TypeRefsCounted,
      CompilerOwned, BucketsOwned, CodeOwned, ApplicationLeavesClean,
      EngineTakesModules, BindingLast, OpenBuckets,
      Call, AppActs, engineVars, moduleVars

LEMMA ReturnKeepsInv == LifetimeInv /\ Return => LifetimeInv'
  BY LifetimeAssumption
  DEF LifetimeInv, LifetimeTypeOK, EngineRefsCounted, TypeRefsCounted,
      CompilerOwned, BucketsOwned, CodeOwned, ApplicationLeavesClean,
      EngineTakesModules, BindingLast, OpenBuckets,
      Return, engineVars

LEMMA ReleaseObjectKeepsInv ==
  ASSUME NEW m \in Module, LifetimeInv, ReleaseObject(m)
  PROVE  LifetimeInv'
  BY LifetimeAssumption
  DEF LifetimeInv, LifetimeTypeOK, EngineRefsCounted, TypeRefsCounted,
      CompilerOwned, BucketsOwned, CodeOwned, ApplicationLeavesClean,
      EngineTakesModules, BindingLast, OpenBuckets,
      ReleaseObject, AppActs, engineVars

\* A module may be discarded by the application or by the engine's end; in
\* both cases it is built.
LEMMA StartDiscardKeepsInv ==
  ASSUME NEW m \in Module, LifetimeInv, module[m] = "built", StartDiscard(m),
         running = None \/ engine = "down"
  PROVE  LifetimeInv'
  BY LifetimeAssumption
  DEF LifetimeInv, LifetimeTypeOK, EngineRefsCounted, TypeRefsCounted,
      CompilerOwned, BucketsOwned, CodeOwned, ApplicationLeavesClean,
      EngineTakesModules, BindingLast, OpenBuckets,
      StartDiscard, engineVars

\* A module that is deleted has no open bucket: while the engine is up the
\* bucket counts as a reference from outside, and afterwards there is none.
LEMMA DeletedHaveNoBucket ==
  ASSUME LifetimeInv, NEW m \in OpenBuckets
  PROVE  HasExternalReferences(m)
  BY LifetimeAssumption
  DEF LifetimeInv, LifetimeTypeOK, EngineRefsCounted, TypeRefsCounted,
      BucketsOwned, OpenBuckets, HasExternalReferences

\* DeleteModules on modules that have been discarded or are about to be.
LEMMA DeleteModulesKeepsInv ==
  ASSUME LifetimeInv, NEW discarded \in SUBSET Module,
         \A m \in discarded : module[m] \in {"exiting", "discarded"},
         DeleteModules(discarded),
         engine # "deleted",
         running' = None,
         UNCHANGED <<engineVars, binding, compiler, objects, typeRefs, bucket>>
  PROVE  LifetimeInv'
<1>1. module' \in [Module -> {"absent", "built", "exiting", "discarded", "deleted"}]
  BY DEF DeleteModules, LifetimeInv, LifetimeTypeOK
<1>2. code' \in [Module -> BOOLEAN]
  BY DEF DeleteModules, LifetimeInv, LifetimeTypeOK
<1>3. BucketsOwned'
  BY DeletedHaveNoBucket
  DEF DeleteModules, LifetimeInv, LifetimeTypeOK, BucketsOwned, OpenBuckets
<1>4. CodeOwned'
  BY DEF DeleteModules, LifetimeInv, LifetimeTypeOK, CodeOwned
<1> QED
  BY <1>1, <1>2, <1>3, <1>4
  DEF LifetimeInv, LifetimeTypeOK, EngineRefsCounted, TypeRefsCounted,
      CompilerOwned, ApplicationLeavesClean, EngineTakesModules, BindingLast,
      OpenBuckets, engineVars

LEMMA FinishDiscardKeepsInv ==
  ASSUME NEW m \in Module, LifetimeInv, FinishDiscard(m)
  PROVE  LifetimeInv'
<1>1. CASE engine = "up"
  <2>1. \A n \in Discarded \cup {m} : module[n] \in {"exiting", "discarded"}
    BY DEF FinishDiscard, Discarded
  <2>2. Discarded \cup {m} \in SUBSET Module
    BY DEF Discarded
  <2> QED  BY <1>1, <2>1, <2>2, DeleteModulesKeepsInv DEF FinishDiscard
<1>2. CASE engine # "up"
  BY <1>2, LifetimeAssumption
  DEF LifetimeInv, LifetimeTypeOK, EngineRefsCounted, TypeRefsCounted,
      CompilerOwned, BucketsOwned, CodeOwned, ApplicationLeavesClean,
      EngineTakesModules, BindingLast, OpenBuckets,
      FinishDiscard, engineVars
<1> QED  BY <1>1, <1>2

LEMMA GarbageCollectKeepsInv == LifetimeInv /\ GarbageCollect => LifetimeInv'
<1> SUFFICES ASSUME LifetimeInv, GarbageCollect
             PROVE  LifetimeInv'
  OBVIOUS
<1>1. Discarded \in SUBSET Module
      /\ \A m \in Discarded : module[m] \in {"exiting", "discarded"}
  BY DEF Discarded
<1>2. running' = None /\ engine # "deleted"
  BY DEF GarbageCollect, AppActs
<1> QED  BY <1>1, <1>2, DeleteModulesKeepsInv DEF GarbageCollect

-----------------------------------------------------------------------------
(* The end of the engine.                                                  *)

LEMMA ReleaseByApplicationKeepsInv ==
  LifetimeInv /\ ReleaseByApplication => LifetimeInv'
<1> SUFFICES ASSUME LifetimeInv, ReleaseByApplication
             PROVE  LifetimeInv'
  OBVIOUS
<1> USE DEF LifetimeInv, ReleaseByApplication, AppActs, ReleaseEngine, moduleVars
<1>1. LifetimeTypeOK'
  <2>1. engineRefs - 1 \in 0..2
    BY DEF LifetimeTypeOK, EngineRefsCounted
  <2>2. app' \in BOOLEAN
    BY Zenon
  <2>3. engine' \in {"up", "down", "deleted"}
    BY DEF LifetimeTypeOK
  <2> QED  BY <2>1, <2>2, <2>3, Zenon DEF LifetimeTypeOK
<1>2. EngineRefsCounted'
  BY DEF EngineRefsCounted, LifetimeTypeOK
<1>3. TypeRefsCounted'
  BY DEF TypeRefsCounted
<1>4. CompilerOwned'
  BY DEF CompilerOwned
<1>5. BucketsOwned' /\ CodeOwned'
  BY DEF BucketsOwned, CodeOwned, OpenBuckets
<1>6. ApplicationLeavesClean' /\ EngineTakesModules'
  BY DEF ApplicationLeavesClean, EngineTakesModules
<1>7. BindingLast'
  BY DEF BindingLast, EngineRefsCounted, LifetimeTypeOK
<1> QED  BY <1>1, <1>2, <1>3, <1>4, <1>5, <1>6, <1>7

LEMMA DeleteEngineKeepsInv == LifetimeInv /\ DeleteEngine => LifetimeInv'
<1> SUFFICES ASSUME LifetimeInv, DeleteEngine
             PROVE  LifetimeInv'
  OBVIOUS
<1>1. \A m \in Module : module'[m] \in {"absent", "deleted"}
  BY DEF DeleteEngine, DeleteModules, Discarded, HasExternalReferences,
         LifetimeInv, LifetimeTypeOK
<1>2. module' \in [Module -> {"absent", "built", "exiting", "discarded", "deleted"}]
      /\ code' \in [Module -> BOOLEAN]
  BY DEF DeleteEngine, DeleteModules, LifetimeInv, LifetimeTypeOK
<1>3. CodeOwned'
  BY DEF DeleteEngine, DeleteModules, Discarded, HasExternalReferences,
         LifetimeInv, LifetimeTypeOK, CodeOwned
<1>4. OpenBuckets = {} /\ OpenBuckets' = {}
  BY DeletedHaveNoBucket DEF DeleteEngine, HasExternalReferences, OpenBuckets
<1>5. running' = running /\ (running # None => module[running] # "exiting")
  BY DEF DeleteEngine, LifetimeInv, LifetimeTypeOK
<1> QED
  BY <1>1, <1>2, <1>3, <1>4, <1>5
  DEF DeleteEngine, LifetimeInv, LifetimeTypeOK, EngineRefsCounted,
      TypeRefsCounted, CompilerOwned, BucketsOwned, ApplicationLeavesClean,
      EngineTakesModules, BindingLast

-----------------------------------------------------------------------------
LEMMA StepKeepsLifetimeInv == LifetimeInv /\ [Next]_vars => LifetimeInv'
<1> SUFFICES ASSUME LifetimeInv, [Next]_vars
             PROVE  LifetimeInv'
  OBVIOUS
<1>1. CASE UNCHANGED vars
  BY <1>1
  DEF vars, engineVars, moduleVars, LifetimeInv, LifetimeTypeOK,
      EngineRefsCounted, TypeRefsCounted, CompilerOwned, BucketsOwned,
      CodeOwned, ApplicationLeavesClean, EngineTakesModules, BindingLast,
      OpenBuckets
<1>2. ASSUME NEW m \in Module, DiscardModule(m) \/ ShutDownModule(m)
      PROVE  LifetimeInv'
  BY <1>2, StartDiscardKeepsInv DEF DiscardModule, ShutDownModule, AppActs
<1> QED
  BY <1>1, <1>2, CreateKeepsInv, ClearKeepsInv, BindingReleaseKeepsInv,
     DeleteCompilerKeepsInv, BuildKeepsInv, CallKeepsInv, ReturnKeepsInv,
     ReleaseObjectKeepsInv, FinishDiscardKeepsInv, GarbageCollectKeepsInv,
     ReleaseByApplicationKeepsInv, DeleteEngineKeepsInv
  DEF Next

\* The counts are right and the owners go in their turn, in every program of
\* any number of modules, with either order of teardown.
THEOREM LifetimeInvariant == Spec => []LifetimeInv
<1>1. Init => LifetimeInv
  BY InitEstablishesLifetimeInv
<1>2. LifetimeInv /\ [Next]_vars => LifetimeInv'
  BY StepKeepsLifetimeInv
<1> QED  BY <1>1, <1>2, PTL DEF Spec

\* No count leaves its range: a reference is never released twice.
THEOREM LifetimeTypeCorrect == Spec => []LifetimeTypeOK
<1>1. LifetimeInv => LifetimeTypeOK
  BY DEF LifetimeInv
<1> QED  BY <1>1, LifetimeInvariant, PTL

\* In the order of the tests no function outlives the compiler that has its
\* native code.
THEOREM CompilerOutlives ==
  ASSUME BindingFirst = FALSE
  PROVE  Spec => []CompilerOutlivesCode
<1>1. LifetimeInv => CompilerOutlivesCode
  BY DEF LifetimeInv, LifetimeTypeOK, CompilerOutlivesCode, CompilerOwned,
         CodeOwned, BindingLast, EngineTakesModules
<1> QED  BY <1>1, LifetimeInvariant, PTL

\* A bucket never points to a deleted class.
THEOREM BucketsKeep == Spec => []BucketsKeepTypes
<1>1. LifetimeInv => BucketsKeepTypes
  BY DEF LifetimeInv, BucketsOwned, BucketsKeepTypes, OpenBuckets
<1> QED  BY <1>1, LifetimeInvariant, PTL

\* The binding's reference keeps the engine until the binding gives it up.
THEOREM BindingKeeps == Spec => []BindingKeepsEngine
<1>1. LifetimeInv => BindingKeepsEngine
  BY DEF LifetimeInv, LifetimeTypeOK, EngineRefsCounted, BindingKeepsEngine
<1> QED  BY <1>1, LifetimeInvariant, PTL

\* When engine and binding are gone, so is everything they held.
THEOREM NothingIsLeft == Spec => []NothingLeftBehind
<1>1. LifetimeInv => NothingLeftBehind
  BY DEF LifetimeInv, LifetimeTypeOK, EngineRefsCounted, TypeRefsCounted,
         BucketsOwned, CodeOwned, ApplicationLeavesClean, EngineTakesModules,
         NothingLeftBehind, OpenBuckets
<1> QED  BY <1>1, LifetimeInvariant, PTL
=============================================================================
