-------------------------- MODULE NativeContextProofs --------------------------
(***************************************************************************)
(* For any set of loading threads: the locks of mnn-jni.cpp and the single *)
(* thread of MnnEngine's executor keep the context alive while it is used, *)
(* leak no model, and implement a holder of one model.                     *)
(***************************************************************************)
EXTENDS NativeContext, TLAPS

USE DEF Threads, LoaderPlaces, ExecutorPlaces, AskerPlaces

(* Who holds which lock, by where the threads are. *)
LocksHeld ==
    /\ \A t \in Loaders : contextLock = t <=> at[t] \in {"locked", "check", "weights"}
    /\ \A t \in Loaders : llmLock = t <=> at[t] \in {"check", "weights"}
    /\ contextLock = Executor <=> at[Executor] \in {"free", "reset"}
    /\ llmLock = Executor <=> at[Executor] \in {"enter", "respond"}

(***************************************************************************)
(* The context is there while a lock is held or a generation is under way: *)
(* generate takes no g_contextMutex, but only the executor resets it.      *)
(***************************************************************************)
ContextAlive ==
    /\ contextLock # NoThread => context
    /\ at[Executor] \in {"generate", "enter", "respond"} => context
    /\ asked = "found" => context
    /\ CrashOnlyOvertaken

(* Which state llm_ is in, by the flags and where the threads are. *)
WeightsKnown ==
    /\ initialized <=> llm = "loaded"
    /\ llm = "created" <=> \E t \in Loaders : at[t] = "weights"
    /\ ~context => llm = "null"
    /\ at[Executor] = "reset" => llm = "null"
    /\ at[Executor] = "respond" => llm = "loaded"
    /\ OneModel

IInv == NativeTypeOK /\ LocksHeld /\ ContextAlive /\ WeightsKnown

LEMMA InitEstablishes == NativeInit => IInv
<1> SUFFICES ASSUME NativeInit PROVE IInv
  OBVIOUS
<1> USE ThreadsAssumption
<1>1. NativeTypeOK
  BY DEF NativeInit, NativeTypeOK
<1>2. LocksHeld
  BY DEF NativeInit, LocksHeld
<1>3. ContextAlive
  BY DEF NativeInit, ContextAlive, CrashOnlyOvertaken
<1>4. WeightsKnown
  BY DEF NativeInit, WeightsKnown, OneModel
<1> QED BY <1>1, <1>2, <1>3, <1>4 DEF IInv

(* Each step of each thread preserves the invariant. *)
LEMMA StepPreserves == IInv /\ [NativeNext]_native => IInv'
<1> SUFFICES ASSUME IInv, [NativeNext]_native PROVE IInv'
  OBVIOUS
<1> USE ThreadsAssumption DEF IInv
<1>1. ASSUME NEW t \in Loaders, CallLoad(t) PROVE IInv'
  <2>1. NativeTypeOK'
    BY <1>1 DEF CallLoad, NativeTypeOK, Go, locks, usage
  <2>2. LocksHeld'
    BY <1>1 DEF CallLoad, NativeTypeOK, LocksHeld, Go, locks, usage
  <2>3. ContextAlive'
    BY <1>1 DEF CallLoad, NativeTypeOK, LocksHeld, ContextAlive, CrashOnlyOvertaken, Go, locks, usage
  <2>4. WeightsKnown'
    BY <1>1 DEF CallLoad, NativeTypeOK, LocksHeld, ContextAlive, WeightsKnown, OneModel, Go, locks, usage
  <2> QED BY <2>1, <2>2, <2>3, <2>4
<1>2. ASSUME NEW t \in Loaders, LockForLoad(t) PROVE IInv'
  <2>1. NativeTypeOK'
    BY <1>2 DEF LockForLoad, NativeTypeOK, Go, locks, usage
  <2>2. LocksHeld'
    BY <1>2 DEF LockForLoad, NativeTypeOK, LocksHeld, Go, locks, usage
  <2>3. ContextAlive'
    BY <1>2 DEF LockForLoad, NativeTypeOK, LocksHeld, ContextAlive, CrashOnlyOvertaken, Go, locks, usage
  <2>4. WeightsKnown'
    BY <1>2 DEF LockForLoad, NativeTypeOK, LocksHeld, ContextAlive, WeightsKnown, OneModel, Go, locks, usage
  <2> QED BY <2>1, <2>2, <2>3, <2>4
<1>3. ASSUME NEW t \in Loaders, EnterLoad(t) PROVE IInv'
  <2>1. NativeTypeOK'
    BY <1>3 DEF EnterLoad, NativeTypeOK, Go, locks, usage
  <2>2. LocksHeld'
    BY <1>3 DEF EnterLoad, NativeTypeOK, LocksHeld, Go, locks, usage
  <2>3. ContextAlive'
    BY <1>3 DEF EnterLoad, NativeTypeOK, LocksHeld, ContextAlive, CrashOnlyOvertaken, Go, locks, usage
  <2>4. WeightsKnown'
    BY <1>3 DEF EnterLoad, NativeTypeOK, LocksHeld, ContextAlive, WeightsKnown, OneModel, Go, locks, usage
  <2> QED BY <2>1, <2>2, <2>3, <2>4
<1>4. ASSUME NEW t \in Loaders, RefuseLoad(t) PROVE IInv'
  <2>1. NativeTypeOK'
    BY <1>4 DEF RefuseLoad, NativeTypeOK, Go, locks, usage, LoadReturns
  <2>2. LocksHeld'
    BY <1>4 DEF RefuseLoad, NativeTypeOK, LocksHeld, Go, locks, usage, LoadReturns
  <2>3. ContextAlive'
    BY <1>4 DEF RefuseLoad, NativeTypeOK, LocksHeld, ContextAlive, CrashOnlyOvertaken, Go, locks, usage, LoadReturns
  <2>4. WeightsKnown'
    BY <1>4 DEF RefuseLoad, NativeTypeOK, LocksHeld, ContextAlive, WeightsKnown, OneModel, Go, locks, usage, LoadReturns
  <2> QED BY <2>1, <2>2, <2>3, <2>4
<1>5. ASSUME NEW t \in Loaders, CreateLlm(t) PROVE IInv'
  <2>1. NativeTypeOK'
    BY <1>5 DEF CreateLlm, NativeTypeOK, Go, locks, usage
  <2>2. LocksHeld'
    BY <1>5 DEF CreateLlm, NativeTypeOK, LocksHeld, Go, locks, usage
  <2>3. ContextAlive'
    BY <1>5 DEF CreateLlm, NativeTypeOK, LocksHeld, ContextAlive, CrashOnlyOvertaken, Go, locks, usage
  <2>4. WeightsKnown'
    BY <1>5 DEF CreateLlm, NativeTypeOK, LocksHeld, ContextAlive, WeightsKnown, OneModel, Go, locks, usage
  <2> QED BY <2>1, <2>2, <2>3, <2>4
<1>6. ASSUME NEW t \in Loaders, LoadWeights(t) PROVE IInv'
  <2>1. NativeTypeOK'
    <3>1. instances' \in Nat
      BY <1>6 DEF LoadWeights, NativeTypeOK, LocksHeld, WeightsKnown, OneModel
    <3> QED BY <1>6, <3>1 DEF LoadWeights, NativeTypeOK, Go, locks, usage, LoadReturns
  <2>2. LocksHeld'
    BY <1>6 DEF LoadWeights, NativeTypeOK, LocksHeld, Go, locks, usage, LoadReturns
  <2>3. ContextAlive'
    BY <1>6 DEF LoadWeights, NativeTypeOK, LocksHeld, ContextAlive, CrashOnlyOvertaken, Go, locks, usage, LoadReturns
  <2>4. WeightsKnown'
    <3>1. /\ contextLock = t /\ llm = "created" /\ instances = 1 /\ context
          /\ at[Executor] \notin {"reset", "respond"} /\ at'[Executor] = at[Executor]
          /\ \A u \in Loaders : at'[u] # "weights"
      BY <1>6 DEF LoadWeights, NativeTypeOK, LocksHeld, ContextAlive, WeightsKnown, OneModel, Go, LoadReturns
    <3>2. initialized' <=> llm' = "loaded"
      BY <1>6, <3>1 DEF LoadWeights, WeightsKnown
    <3>3. OneModel' /\ llm' # "created" /\ context'
      BY <1>6, <3>1 DEF LoadWeights, OneModel
    <3> QED BY <3>1, <3>2, <3>3 DEF WeightsKnown
  <2> QED BY <2>1, <2>2, <2>3, <2>4
<1>7. CASE CallDispose
  <2>1. NativeTypeOK'
    BY <1>7 DEF CallDispose, NativeTypeOK, Go, locks, usage
  <2>2. LocksHeld'
    BY <1>7 DEF CallDispose, NativeTypeOK, LocksHeld, Go, locks, usage
  <2>3. ContextAlive'
    BY <1>7 DEF CallDispose, NativeTypeOK, LocksHeld, ContextAlive, CrashOnlyOvertaken, Go, locks, usage
  <2>4. WeightsKnown'
    BY <1>7 DEF CallDispose, NativeTypeOK, LocksHeld, ContextAlive, WeightsKnown, OneModel, Go, locks, usage
  <2> QED BY <2>1, <2>2, <2>3, <2>4
<1>8. CASE LockForDispose
  <2>1. NativeTypeOK'
    BY <1>8 DEF LockForDispose, NativeTypeOK, Go, locks, usage
  <2>2. LocksHeld'
    BY <1>8 DEF LockForDispose, NativeTypeOK, LocksHeld, Go, locks, usage
  <2>3. ContextAlive'
    BY <1>8 DEF LockForDispose, NativeTypeOK, LocksHeld, ContextAlive, CrashOnlyOvertaken, Go, locks, usage
  <2>4. WeightsKnown'
    BY <1>8 DEF LockForDispose, NativeTypeOK, LocksHeld, ContextAlive, WeightsKnown, OneModel, Go, locks, usage
  <2> QED BY <2>1, <2>2, <2>3, <2>4
<1>9. CASE FreeLlm
  <2>1. NativeTypeOK'
    <3>1. instances' \in Nat
      BY <1>9 DEF FreeLlm, DisposeLlm, NativeTypeOK, LocksHeld, WeightsKnown, OneModel
    <3> QED BY <1>9, <3>1 DEF FreeLlm, DisposeLlm, NativeTypeOK, Go, locks, usage
  <2>2. LocksHeld'
    BY <1>9 DEF FreeLlm, DisposeLlm, NativeTypeOK, LocksHeld, Go, locks, usage
  <2>3. ContextAlive'
    BY <1>9 DEF FreeLlm, DisposeLlm, NativeTypeOK, LocksHeld, ContextAlive, CrashOnlyOvertaken, Go, locks, usage
  <2>4. WeightsKnown'
    <3>1. /\ \A t \in Loaders : at[t] # "weights" /\ at'[t] = at[t]
          /\ at'[Executor] = "reset" /\ llm # "created"
      BY <1>9 DEF FreeLlm, DisposeLlm, NativeTypeOK, LocksHeld, WeightsKnown, Go
    <3>2. OneModel'
      BY <1>9, <3>1 DEF FreeLlm, DisposeLlm, NativeTypeOK, WeightsKnown, OneModel
    <3> QED BY <1>9, <3>1, <3>2 DEF FreeLlm, DisposeLlm, WeightsKnown
  <2> QED BY <2>1, <2>2, <2>3, <2>4
<1>10. CASE ResetContext
  <2>0. /\ llm = "null" /\ llm' = "null" /\ instances' = instances /\ initialized' = FALSE
        /\ context' = FALSE /\ contextLock' = NoThread /\ UNCHANGED <<llmLock, crashed>>
    BY <1>10 DEF ResetContext, DestroyContext, DisposeLlm, WeightsKnown
  <2>1. NativeTypeOK'
    BY <1>10, <2>0 DEF ResetContext, NativeTypeOK, Go
  <2>2. LocksHeld'
    BY <1>10 DEF ResetContext, DestroyContext, DisposeLlm, NativeTypeOK, LocksHeld, Go, locks, usage
  <2>3. ContextAlive'
    BY <1>10 DEF ResetContext, DestroyContext, DisposeLlm, NativeTypeOK, LocksHeld, ContextAlive, CrashOnlyOvertaken, Go, locks, usage
  <2>4. WeightsKnown'
    BY <1>10 DEF ResetContext, DestroyContext, DisposeLlm, NativeTypeOK, LocksHeld, ContextAlive, WeightsKnown, OneModel, Go, locks, usage
  <2> QED BY <2>1, <2>2, <2>3, <2>4
<1>11. CASE CallGenerate
  <2>1. NativeTypeOK'
    BY <1>11 DEF CallGenerate, IsInitialized, NativeTypeOK, Go, locks, usage
  <2>2. LocksHeld'
    BY <1>11 DEF CallGenerate, IsInitialized, NativeTypeOK, LocksHeld, Go, locks, usage
  <2>3. ContextAlive'
    BY <1>11 DEF CallGenerate, IsInitialized, NativeTypeOK, LocksHeld, ContextAlive, CrashOnlyOvertaken, Go, locks, usage
  <2>4. WeightsKnown'
    BY <1>11 DEF CallGenerate, IsInitialized, NativeTypeOK, LocksHeld, ContextAlive, WeightsKnown, OneModel, Go, locks, usage
  <2> QED BY <2>1, <2>2, <2>3, <2>4
<1>12. CASE EnterGenerate
  <2>1. NativeTypeOK'
    BY <1>12 DEF EnterGenerate, NativeTypeOK, Go, locks, usage
  <2>2. LocksHeld'
    BY <1>12 DEF EnterGenerate, NativeTypeOK, LocksHeld, Go, locks, usage
  <2>3. ContextAlive'
    BY <1>12 DEF EnterGenerate, NativeTypeOK, LocksHeld, ContextAlive, CrashOnlyOvertaken, Go, locks, usage
  <2>4. WeightsKnown'
    BY <1>12 DEF EnterGenerate, NativeTypeOK, LocksHeld, ContextAlive, WeightsKnown, OneModel, Go, locks, usage
  <2> QED BY <2>1, <2>2, <2>3, <2>4
<1>13. CASE Respond
  <2>1. NativeTypeOK'
    BY <1>13 DEF Respond, IsInitialized, NativeTypeOK, Go, locks, usage
  <2>2. LocksHeld'
    BY <1>13 DEF Respond, IsInitialized, NativeTypeOK, LocksHeld, Go, locks, usage
  <2>3. ContextAlive'
    BY <1>13 DEF Respond, IsInitialized, NativeTypeOK, LocksHeld, ContextAlive, CrashOnlyOvertaken, Go, locks, usage
  <2>4. WeightsKnown'
    BY <1>13 DEF Respond, IsInitialized, NativeTypeOK, LocksHeld, ContextAlive, WeightsKnown, OneModel, Go, locks, usage
  <2> QED BY <2>1, <2>2, <2>3, <2>4
<1>14. CASE ResponseEnds
  <2>1. NativeTypeOK'
    BY <1>14 DEF ResponseEnds, NativeTypeOK, Go, locks, usage
  <2>2. LocksHeld'
    BY <1>14 DEF ResponseEnds, NativeTypeOK, LocksHeld, Go, locks, usage
  <2>3. ContextAlive'
    BY <1>14 DEF ResponseEnds, NativeTypeOK, LocksHeld, ContextAlive, CrashOnlyOvertaken, Go, locks, usage
  <2>4. WeightsKnown'
    BY <1>14 DEF ResponseEnds, NativeTypeOK, LocksHeld, ContextAlive, WeightsKnown, OneModel, Go, locks, usage
  <2> QED BY <2>1, <2>2, <2>3, <2>4
<1>15. ASSUME NEW t \in Threads, Returns(t) PROVE IInv'
  <2>1. NativeTypeOK'
    BY <1>15 DEF Returns, NativeTypeOK, Returned, Go, locks, usage
  <2>2. LocksHeld'
    BY <1>15 DEF Returns, NativeTypeOK, LocksHeld, Returned, Go, locks, usage
  <2>3. ContextAlive' /\ WeightsKnown'
    BY <1>15 DEF Returns, NativeTypeOK, ContextAlive, CrashOnlyOvertaken, WeightsKnown, OneModel, Returned, Go, locks, usage
  <2> QED BY <2>1, <2>2, <2>3
<1>16. CASE TestContext
  <2>1. NativeTypeOK'
    BY <1>16 DEF TestContext, NativeTypeOK, locks
  <2>2. LocksHeld' /\ WeightsKnown'
    BY <1>16 DEF TestContext, LocksHeld, WeightsKnown, OneModel, locks
  <2>3. ContextAlive'
    BY <1>16 DEF TestContext, ContextAlive, CrashOnlyOvertaken, locks
  <2> QED BY <2>1, <2>2, <2>3
<1>17. CASE UseContext
  <2>1. NativeTypeOK'
    BY <1>17 DEF UseContext, NativeTypeOK, locks
  <2>2. LocksHeld' /\ WeightsKnown'
    BY <1>17 DEF UseContext, LocksHeld, WeightsKnown, OneModel, locks
  <2>3. ContextAlive'
    BY <1>17 DEF UseContext, ContextAlive, CrashOnlyOvertaken, locks
  <2> QED BY <2>1, <2>2, <2>3
<1>18. CASE UNCHANGED native
  BY <1>18 DEF native, locks, usage, NativeTypeOK, LocksHeld, ContextAlive, CrashOnlyOvertaken, WeightsKnown, OneModel
<1> QED
  BY <1>1, <1>2, <1>3, <1>4, <1>5, <1>6, <1>7, <1>8, <1>9, <1>10, <1>11, <1>12, <1>13, <1>14, <1>15, <1>16, <1>17, <1>18
     DEF NativeNext, NativeStep, ContextLoadStep, DisposeStep, GenerateStep

LEMMA Invariance == NativeSpec => []IInv
BY InitEstablishes, StepPreserves, PTL DEF NativeSpec

(* Every variable of the native side keeps its type. *)
THEOREM NativeTypeCorrect == NativeSpec => []NativeTypeOK
<1>1. IInv => NativeTypeOK
  BY DEF IInv
<1> QED BY <1>1, Invariance, PTL

(***************************************************************************)
(* No instance is leaked: loadModel refuses a second load under the lock   *)
(* that is held from its check to its end.                                 *)
(***************************************************************************)
THEOREM NoModelLeaked == NativeSpec => []OneModel
<1>1. IInv => OneModel
  BY DEF IInv, WeightsKnown
<1> QED BY <1>1, Invariance, PTL

(***************************************************************************)
(* generate uses g_mnnContext without its lock, and never finds it reset:  *)
(* the generation and the disposal are jobs of the one executor thread.    *)
(* isInitialized on the main thread is overtaken by a reset between its    *)
(* test and its use, and only then does it use what is not there.          *)
(***************************************************************************)
THEOREM OnlyOvertakenCrash == NativeSpec => []CrashOnlyOvertaken
<1>1. IInv => CrashOnlyOvertaken
  BY DEF IInv, ContextAlive
<1> QED BY <1>1, Invariance, PTL

-------------------------------------------------------------------------------

USE DEF Model

(* A model that is neither made nor freed, while the executor's response   *)
(* neither begins nor ends, is a stutter of the holder.                     *)
LEMMA NothingMade ==
    ASSUME UNCHANGED <<llm, instances>>,
           at'[Executor] = "respond" <=> at[Executor] = "respond"
    PROVE  UNCHANGED <<Model, at[Executor] = "respond">>
BY DEF Model

(* Each step of the native side is a step of the holder or a stutter. *)
LEMMA StepRefines ==
    ASSUME IInv, IInv', [NativeNext]_native
    PROVE  [Holder!Next]_<<Model, at[Executor] = "respond">>
<1> USE ThreadsAssumption
<1> DEFINE answering == at[Executor] = "respond"
<1>0. /\ instances = IF llm = "null" THEN 0 ELSE 1
      /\ instances' = IF llm' = "null" THEN 0 ELSE 1
      /\ NativeTypeOK /\ NativeTypeOK' /\ LocksHeld /\ WeightsKnown
  BY DEF IInv, WeightsKnown, OneModel
<1>1. ASSUME NEW t \in Loaders, CreateLlm(t) PROVE Holder!Create
  <2>1. llm = "null" /\ llm' = "created"
    BY <1>0, <1>1 DEF CreateLlm, NativeTypeOK, LocksHeld, WeightsKnown
  <2>2. answering' = answering
    BY <1>0, <1>1 DEF CreateLlm, NativeTypeOK, Go
  <2>3. Model = "none" /\ Model' = "loading"
    BY <1>0, <2>1 DEF Model
  <2> QED BY <2>2, <2>3 DEF Holder!Create
<1>2. ASSUME NEW t \in Loaders, LoadWeights(t) PROVE Holder!EndLoad
  <2>1. llm = "created" /\ llm' \in {"null", "loaded"}
    BY <1>0, <1>2 DEF LoadWeights, WeightsKnown
  <2>2. answering' = answering
    BY <1>0, <1>2 DEF LoadWeights, LoadReturns, NativeTypeOK, Go
  <2>3. Model = "loading" /\ Model' \in {"none", "loaded"}
    BY <1>0, <2>1 DEF Model
  <2> QED BY <2>2, <2>3 DEF Holder!EndLoad
<1>3. CASE FreeLlm
  <2>1. ~answering /\ ~answering' /\ llm \in {"null", "loaded"} /\ llm' = "null"
    BY <1>0, <1>3 DEF FreeLlm, DisposeLlm, NativeTypeOK, LocksHeld, WeightsKnown, Go
  <2>2. CASE llm = "loaded"
    <3>1. Model = "loaded" /\ Model' = "none"
      BY <1>0, <2>1, <2>2 DEF Model
    <3> QED BY <2>1, <3>1 DEF Holder!Next, Holder!Free
  <2>3. CASE llm = "null"
    BY <1>0, <2>1, <2>3 DEF Model
  <2> QED BY <2>1, <2>2, <2>3
<1>4. CASE Respond
  <2>1. ~answering /\ UNCHANGED <<llm, instances>>
    BY <1>4 DEF Respond
  <2>2. CASE IsInitialized
    <3>1. answering'
      BY <1>0, <1>4, <2>2 DEF Respond, IsInitialized, NativeTypeOK, Go
    <3>2. Model = "loaded" /\ Model' = Model
      BY <1>0, <2>1, <2>2 DEF Model, WeightsKnown, IsInitialized
    <3> QED BY <2>1, <3>1, <3>2 DEF Holder!Next, Holder!Answer
  <2>3. CASE ~IsInitialized
    <3>1. ~answering'
      BY <1>0, <1>4, <2>3 DEF Respond, IsInitialized, NativeTypeOK, Go
    <3> QED BY <2>1, <3>1, NothingMade
  <2> QED BY <2>2, <2>3
<1>5. CASE ResponseEnds
  <2>1. answering /\ ~answering' /\ UNCHANGED <<llm, instances>>
    BY <1>0, <1>5 DEF ResponseEnds, NativeTypeOK, Go
  <2>2. Model' = Model
    BY <2>1 DEF Model
  <2> QED BY <2>1, <2>2 DEF Holder!Next, Holder!Reset
<1>6. ASSUME NEW t \in Loaders, CallLoad(t) \/ LockForLoad(t) \/ EnterLoad(t) \/ RefuseLoad(t)
      PROVE  UNCHANGED <<Model, answering>>
  <2>1. UNCHANGED <<llm, instances>> /\ (answering' <=> answering)
    BY <1>0, <1>6 DEF CallLoad, LockForLoad, EnterLoad, RefuseLoad, LoadReturns, NativeTypeOK, Go
  <2> QED BY <2>1, NothingMade
<1>7. ASSUME CallDispose \/ LockForDispose \/ ResetContext \/ CallGenerate \/ EnterGenerate
      PROVE  UNCHANGED <<Model, answering>>
  <2>1. CASE ResetContext
    <3>1. UNCHANGED <<llm, instances>>
      BY <1>0, <2>1 DEF ResetContext, DestroyContext, DisposeLlm, WeightsKnown
    <3>2. answering' <=> answering
      BY <1>0, <2>1 DEF ResetContext, NativeTypeOK, Go
    <3> QED BY <3>1, <3>2, NothingMade
  <2>2. CASE CallDispose \/ LockForDispose \/ CallGenerate \/ EnterGenerate
    <3>1. UNCHANGED <<llm, instances>> /\ (answering' <=> answering)
      BY <1>0, <2>2 DEF CallDispose, LockForDispose, CallGenerate, EnterGenerate, IsInitialized,
                        NativeTypeOK, Go
    <3> QED BY <3>1, NothingMade
  <2> QED BY <1>7, <2>1, <2>2
<1>8. ASSUME NEW t \in Threads, Returns(t) PROVE UNCHANGED <<Model, answering>>
  <2>1. UNCHANGED <<llm, instances>> /\ (answering' <=> answering)
    BY <1>0, <1>8 DEF Returns, Returned, NativeTypeOK, Go
  <2> QED BY <2>1, NothingMade
<1>9. ASSUME TestContext \/ UseContext \/ UNCHANGED native PROVE UNCHANGED <<Model, answering>>
  <2>1. UNCHANGED <<llm, instances>> /\ (answering' <=> answering)
    BY <1>9 DEF native, TestContext, UseContext
  <2> QED BY <2>1, NothingMade
<1> QED
  BY <1>1, <1>2, <1>3, <1>4, <1>5, <1>6, <1>7, <1>8, <1>9
     DEF NativeNext, NativeStep, ContextLoadStep, DisposeStep, GenerateStep, Holder!Next

(***************************************************************************)
(* The native functions implement a holder of one model: none is created   *)
(* while one is there, none is freed while it loads or answers, and only a *)
(* model that is loaded answers.                                           *)
(***************************************************************************)
THEOREM ImplementsHolder == NativeSpec => HoldsOneModel
<1>1. NativeInit => Holder!Init
  BY DEF NativeInit, Holder!Init, Model
<1>2. IInv /\ IInv' /\ [NativeNext]_native => [Holder!Next]_<<Model, at[Executor] = "respond">>
  BY StepRefines
<1> QED BY <1>1, <1>2, Invariance, PTL DEF NativeSpec, HoldsOneModel, Holder!Spec
================================================================================
