----------------------------- MODULE NativeContext -----------------------------
(***************************************************************************)
(* The native context of the local model (mnn-jni.cpp): MnnLlmContext with *)
(* its mutex_, the global g_mnnContext with g_contextMutex, and the JNI    *)
(* functions of MnnEngine.  Threads of MainActivity call loadModel, the    *)
(* executor of MnnEngine calls generate and dispose, one at a time, and    *)
(* the main thread asks isInitialized, which takes no lock.                *)
(***************************************************************************)
EXTENDS Naturals

CONSTANTS
    Loaders,        \* threads that load the model
    Executor,       \* the thread of MnnEngine's executor
    NoThread        \* nobody holds a lock

ASSUME ThreadsAssumption ==
    /\ Executor \notin Loaders
    /\ NoThread \notin Loaders \union {Executor}

Threads == Loaders \union {Executor}

VARIABLES
    contextLock,    \* who holds g_contextMutex
    llmLock,        \* who holds mutex_ of the context
    context,        \* g_mnnContext is not null
    llm,            \* llm_: null, created, or loaded
    initialized,    \* initialized_ of the context
    instances,      \* models created and not destroyed
    at,             \* where each thread is in a native function
    asked,          \* where the main thread is in isInitialized
    crashed         \* who has used a null or destroyed context

locks == <<contextLock, llmLock>>
usage == <<asked, crashed>>
native == <<locks, context, llm, initialized, instances, at, usage>>

(* Outside of a call a thread is idle; it has returned until its caller goes on. *)
LoaderPlaces == {"idle", "load", "locked", "check", "weights", "true", "false"}
ExecutorPlaces ==
    {"idle", "dispose", "free", "reset", "generate", "enter", "respond", "returned"}

(***************************************************************************)
(* isInitialized is not called, or its test of g_mnnContext has found null *)
(* or a context, which a disposal may reset before it is used.             *)
(***************************************************************************)
AskerPlaces == {"no", "null", "found", "overtaken"}

NativeInit ==
    /\ contextLock = NoThread /\ llmLock = NoThread
    /\ context = FALSE
    /\ llm = "null"
    /\ initialized = FALSE
    /\ instances = 0
    /\ at = [t \in Threads |-> "idle"]
    /\ asked = "no" /\ crashed = {}

(* isInitialized() of the context *)
IsInitialized == initialized /\ llm # "null"

Go(t, place) == at' = [at EXCEPT ![t] = place]

-------------------------------------------------------------------------------
(* loadModel *)

CallLoad(t) ==
    /\ at[t] = "idle"
    /\ Go(t, "load")
    /\ UNCHANGED <<locks, context, llm, initialized, instances, usage>>

(* g_contextMutex is held until the function returns. *)
LockForLoad(t) ==
    /\ at[t] = "load" /\ contextLock = NoThread
    /\ contextLock' = t
    /\ context' = TRUE
    /\ Go(t, "locked")
    /\ UNCHANGED <<llmLock, llm, initialized, instances, usage>>

EnterLoad(t) ==
    /\ at[t] = "locked" /\ llmLock = NoThread
    /\ llmLock' = t
    /\ Go(t, "check")
    /\ UNCHANGED <<contextLock, context, llm, initialized, instances, usage>>

LoadReturns(t, answer) ==
    /\ contextLock' = NoThread /\ llmLock' = NoThread
    /\ Go(t, answer)

(* Already loaded, a file is missing, or createLLM returns null. *)
RefuseLoad(t) ==
    /\ at[t] = "check"
    /\ LoadReturns(t, "false")
    /\ UNCHANGED <<context, llm, initialized, instances, usage>>

(* A bug: a second load is not refused. *)
CreateLlmAgain(t) ==
    /\ at[t] = "check"
    /\ llm' = "created"
    /\ instances' = instances + 1
    /\ Go(t, "weights")
    /\ UNCHANGED <<locks, context, initialized, usage>>

CreateLlm(t) ==
    /\ at[t] = "check"
    /\ ~initialized
    /\ llm' = "created"
    /\ instances' = instances + 1
    /\ Go(t, "weights")
    /\ UNCHANGED <<locks, context, initialized, usage>>

LoadWeights(t) ==
    /\ at[t] = "weights"
    /\ \/ llm' = "loaded" /\ initialized' = TRUE /\ LoadReturns(t, "true")
          /\ UNCHANGED instances
       \/ llm' = "null" /\ instances' = instances - 1 /\ LoadReturns(t, "false")
          /\ UNCHANGED initialized
    /\ UNCHANGED <<context, usage>>

ContextLoadStep(t) == LockForLoad(t) \/ EnterLoad(t) \/ RefuseLoad(t) \/ CreateLlm(t) \/ LoadWeights(t)

-------------------------------------------------------------------------------
(* dispose, on the executor *)

CallDispose ==
    /\ at[Executor] = "idle"
    /\ Go(Executor, "dispose")
    /\ UNCHANGED <<locks, context, llm, initialized, instances, usage>>

LockForDispose ==
    /\ at[Executor] = "dispose" /\ contextLock = NoThread
    /\ IF context
       THEN contextLock' = Executor /\ Go(Executor, "free")
       ELSE Go(Executor, "returned") /\ UNCHANGED contextLock
    /\ UNCHANGED <<llmLock, context, llm, initialized, instances, usage>>

(* dispose() of the context, with mutex_ *)
DisposeLlm ==
    /\ llmLock = NoThread
    /\ llm' = "null"
    /\ instances' = IF llm = "null" THEN instances ELSE instances - 1
    /\ initialized' = FALSE

FreeLlm ==
    /\ at[Executor] = "free"
    /\ DisposeLlm
    /\ Go(Executor, "reset")
    /\ UNCHANGED <<locks, context, usage>>

(* ~MnnLlmContext disposes once more. *)
DestroyContext == DisposeLlm /\ context' = FALSE

(* g_mnnContext.reset(); isInitialized may be about to use the context. *)
ResetContext ==
    /\ at[Executor] = "reset"
    /\ DestroyContext
    /\ contextLock' = NoThread
    /\ asked' = IF asked = "found" THEN "overtaken" ELSE asked
    /\ Go(Executor, "returned")
    /\ UNCHANGED <<llmLock, crashed>>

-------------------------------------------------------------------------------
(* generate, on the executor: it does not take g_contextMutex. *)

(* A bug: generate does not ask whether there is a context. *)
CallGenerateUnchecked ==
    /\ at[Executor] = "idle"
    /\ Go(Executor, "generate")
    /\ UNCHANGED <<locks, context, llm, initialized, instances, usage>>

CallGenerate ==
    /\ at[Executor] = "idle"
    /\ Go(Executor, IF context /\ IsInitialized THEN "generate" ELSE "returned")
    /\ UNCHANGED <<locks, context, llm, initialized, instances, usage>>

EnterGenerate ==
    /\ at[Executor] = "generate"
    /\ IF context
       THEN /\ llmLock = NoThread
            /\ llmLock' = Executor
            /\ Go(Executor, "enter")
            /\ UNCHANGED crashed
       ELSE crashed' = crashed \union {"generate"} /\ UNCHANGED <<llmLock, at>>
    /\ UNCHANGED <<contextLock, context, llm, initialized, instances, asked>>

Respond ==
    /\ at[Executor] = "enter"
    /\ IF IsInitialized
       THEN Go(Executor, "respond") /\ UNCHANGED llmLock
       ELSE Go(Executor, "returned") /\ llmLock' = NoThread
    /\ UNCHANGED <<contextLock, context, llm, initialized, instances, usage>>

(* The KV cache is cleared. *)
ResponseEnds ==
    /\ at[Executor] = "respond"
    /\ llmLock' = NoThread
    /\ Go(Executor, "returned")
    /\ UNCHANGED <<contextLock, context, llm, initialized, instances, usage>>

(* The caller goes on. *)
Returned(t) == at[t] \in {"true", "false", "returned"}

Returns(t) ==
    /\ Returned(t)
    /\ Go(t, "idle")
    /\ UNCHANGED <<locks, context, llm, initialized, instances, usage>>

DisposeStep == LockForDispose \/ FreeLlm \/ ResetContext
GenerateStep == EnterGenerate \/ Respond \/ ResponseEnds

-------------------------------------------------------------------------------
(* isInitialized, on the main thread: it takes no lock. *)

TestContext ==
    /\ asked = "no"
    /\ asked' = IF context THEN "found" ELSE "null"
    /\ UNCHANGED <<locks, context, llm, initialized, instances, at, crashed>>

(* The answer of a context that was destroyed meanwhile is undefined. *)
IsInitializedAnswers ==
    IF asked = "null" THEN {FALSE} ELSE IF asked = "found" THEN {IsInitialized} ELSE BOOLEAN

UseContext ==
    /\ asked # "no"
    /\ asked' = "no"
    /\ crashed' = IF asked = "overtaken" \/ (asked = "found" /\ ~context)
                  THEN crashed \union {asked}
                  ELSE crashed
    /\ UNCHANGED <<locks, context, llm, initialized, instances, at>>

NativeStep == (\E t \in Loaders : ContextLoadStep(t)) \/ DisposeStep \/ GenerateStep

NativeNext ==
    \/ \E t \in Loaders : CallLoad(t)
    \/ CallDispose
    \/ CallGenerate
    \/ \E t \in Threads : Returns(t)
    \/ TestContext
    \/ UseContext
    \/ NativeStep

NativeSpec == NativeInit /\ [][NativeNext]_native

-------------------------------------------------------------------------------

NativeTypeOK ==
    /\ contextLock \in Threads \union {NoThread}
    /\ llmLock \in Threads \union {NoThread}
    /\ context \in BOOLEAN
    /\ llm \in {"null", "created", "loaded"}
    /\ initialized \in BOOLEAN
    /\ instances \in Nat
    /\ at \in [Threads -> LoaderPlaces \union ExecutorPlaces]
    /\ \A t \in Loaders : at[t] \in LoaderPlaces
    /\ at[Executor] \in ExecutorPlaces
    /\ asked \in AskerPlaces
    /\ crashed \subseteq {"generate", "found", "overtaken"}

(***************************************************************************)
(* Every instance that createLLM has made is the one llm_ points to, or    *)
(* has been destroyed: however loads, disposals and generations overlap,   *)
(* no model is leaked by a second load or a failed one.                    *)
(***************************************************************************)
OneModel == instances = IF llm = "null" THEN 0 ELSE 1

(***************************************************************************)
(* generate and isInitialized test g_mnnContext and then use it without    *)
(* the lock under which dispose resets it.  generate never finds it null   *)
(* or destroyed, because it and dispose run on the one thread of the       *)
(* executor; isInitialized, on the main thread, does, but only when the    *)
(* reset falls between its test and its use.                               *)
(***************************************************************************)
CrashOnlyOvertaken == crashed \subseteq {"overtaken"}

(* The locks and the executor make the native side a holder of one model. *)
Model ==
    CASE llm = "null" /\ instances = 0 -> "none"
      [] llm = "created" /\ instances = 1 -> "loading"
      [] llm = "loaded" /\ instances = 1 -> "loaded"
      [] OTHER -> "leaked"

Holder == INSTANCE ModelHolder WITH model <- Model, answering <- at[Executor] = "respond"

HoldsOneModel == Holder!Spec
================================================================================
