----------------------------- MODULE LlmLoadProofs -----------------------------
(***************************************************************************)
(* For any number of loads, disposals and recognitions, any set of loading *)
(* threads and any limit on the polls of a stale load: the flags of        *)
(* LlmService stay true to the loads and disposals that are under way, and *)
(* what NativeContextProofs shows of the native context holds under these  *)
(* callers.                                                                *)
(***************************************************************************)
EXTENDS LlmLoad, NativeContextProofs

USE DEF Threads, LoaderPlaces, ExecutorPlaces

Origins == ({"load", "dispose"} \X Generations) \union ({"recognition"} \X Recognitions)

Methods == {"initialize", "getStatus", "disposeLlm", "generate"}

Calls == [method : Methods, from : Origins]

Answers == [to : Origins, status : StatusType]

Jobs == {"dispose", "generate"} \X Origins

Posts == {"freed", "complete"} \X Origins

DartTyped ==
    /\ isInitialized \in BOOLEAN /\ isLoading \in BOOLEAN
    /\ isModelLoading \in BOOLEAN /\ loadError \in BOOLEAN
    /\ generation \in 0 .. MaxGenerations
    /\ wanted \in {0, generation}
    /\ load \in [Generations -> LoadPlaces]
    /\ polls \in [Generations -> 0 .. MaxStalePolls]
    /\ disposal \subseteq Generations
    /\ recognition \in [Recognitions -> RecognitionPlaces]

ChannelTyped ==
    /\ calls \in Seq(Calls)
    /\ replies \in Seq(Answers)

KotlinTyped ==
    /\ engine \in BOOLEAN /\ isLlmLoading \in BOOLEAN
    /\ llmLoadError \in BOOLEAN /\ supported \in BOOLEAN /\ loadingRead \in BOOLEAN
    /\ loader \in [Loaders -> LoaderStates]
    /\ jobs \in Seq(Jobs)
    /\ job \in Jobs \union {<<>>}
    /\ posted \in Seq(Posts)

(* A thread of MainActivity or MnnEngine is in a native function exactly   *)
(* while its caller waits for it.                                          *)
CallersWait ==
    /\ job = <<>> <=> at[Executor] = "idle"
    /\ \A t \in Loaders : loader[t] = "native" <=> at[t] # "idle"

Typed == DartTyped /\ ChannelTyped /\ KotlinTyped /\ CallersWait /\ IInv

LEMMA TypedIsTypeOK == Typed => TypeOK
<1> SUFFICES ASSUME Typed PROVE TypeOK
  OBVIOUS
<1>1. \A i \in DOMAIN replies : replies[i].status \in StatusType
  <2>1. replies \in Seq(Answers)
    BY DEF Typed, ChannelTyped
  <2>2. \A i \in DOMAIN replies : replies[i] \in Answers
    BY <2>1
  <2> QED BY <2>2 DEF Answers
<1>2. \A flag \in {isInitialized, isLoading, isModelLoading, loadError,
                   engine, isLlmLoading, llmLoadError, supported, loadingRead} : flag \in BOOLEAN
  BY DEF Typed, DartTyped, KotlinTyped
<1>3. NativeTypeOK /\ CallersWait
  BY DEF Typed, IInv
<1> QED BY <1>1, <1>2, <1>3 DEF Typed, DartTyped, KotlinTyped, CallersWait, TypeOK

LEMMA LlmInit == Init => Typed
<1> SUFFICES ASSUME Init PROVE Typed
  OBVIOUS
<1> USE ThreadsAssumption, LlmAssumption
<1>1. IInv
  BY InitEstablishes DEF Init
<1>2. DartTyped
  <2>1. 0 \in 0 .. MaxGenerations /\ MaxStalePolls \in 0 .. MaxStalePolls
    OBVIOUS
  <2>2. "none" \in LoadPlaces /\ "idle" \in RecognitionPlaces
    BY DEF LoadPlaces, RecognitionPlaces
  <2> QED BY <2>1, <2>2 DEF Init, DartTyped
<1>3. ChannelTyped
  <2>1. calls = <<>> /\ replies = <<>>
    BY DEF Init
  <2> QED BY <2>1 DEF ChannelTyped
<1>4. KotlinTyped
  <2>1. jobs = <<>> /\ posted = <<>> /\ job = <<>>
    BY DEF Init
  <2>2. jobs \in Seq(Jobs) /\ posted \in Seq(Posts) /\ job \in Jobs \union {<<>>}
    BY <2>1
  <2> QED BY <2>2 DEF Init, KotlinTyped, LoaderStates
<1>5. CallersWait
  BY DEF Init, NativeInit, CallersWait
<1> QED BY <1>1, <1>2, <1>3, <1>4, <1>5 DEF Typed

(* What these callers do to the native context, NativeContext allows. *)
LEMMA NativeAllows == [Next]_vars => [NativeNext]_native
<1> SUFFICES ASSUME [Next]_vars PROVE [NativeNext]_native
  OBVIOUS
<1>0. CASE AskEngine \/ HandleCall
  BY <1>0 DEF AskEngine, HandleCall, HandleUnsupported, HandleInitialize, HandleGetStatus,
              HandleDispose, HandleGenerate, EngineAnswers, NativeNext
<1>1. ASSUME ReplyHandled \/ TimerFires \/ UserLoads \/ UserDisposes \/ RunPosted
      PROVE  UNCHANGED native
  <2>1. CASE ReplyHandled
    BY <2>1 DEF ReplyHandled, LoadAnswered, DisposeAnswered, RecognitionAnswered
  <2>2. CASE TimerFires
    BY <2>2 DEF TimerFires, LoadStep, LoadStarts, LoadPolls, StaleDelayEnds,
                RecognitionStep, RecognitionDelayEnds, RecognitionTimesOut
  <2>3. CASE UserLoads \/ UserDisposes
    BY <2>3 DEF UserLoads, UserDisposes
  <2>4. CASE RunPosted
    BY <2>4 DEF RunPosted
  <2> QED BY <1>1, <2>1, <2>2, <2>3, <2>4
<1>2. ASSUME NEW r \in Recognitions, RecognitionStarts(r) PROVE UNCHANGED native
  BY <1>2 DEF RecognitionStarts
<1>3. CASE ExecutorStep
  BY <1>3 DEF ExecutorStep, TakeJob, JobEnds, NativeNext, NativeStep
<1>4. ASSUME NEW t \in Loaders, LoaderStep(t) PROVE [NativeNext]_native
  BY <1>4 DEF LoaderStep, Prepare, CallEngine, EngineReturns, NativeNext, NativeStep
<1>5. CASE UNCHANGED vars
  BY <1>5 DEF vars
<1> QED BY <1>0, <1>1, <1>2, <1>3, <1>4, <1>5 DEF Next

(***************************************************************************)
(* The behaviours of the whole system are behaviours of the native context *)
(* alone, so that what holds of those holds of these.                      *)
(***************************************************************************)
THEOREM CallersObeyContext == Spec => NativeSpec
<1>1. Init => NativeInit
  BY DEF Init
<1> QED BY <1>1, NativeAllows, PTL DEF Spec, NativeSpec

-------------------------------------------------------------------------------
(* Calls, answers and the flags that are set from them *)

LEMMA OriginsTyped ==
    /\ \A g \in Generations : LoadOf(g) \in Origins /\ DisposalOf(g) \in Origins
    /\ \A r \in Recognitions : RecognitionOf(r) \in Origins
BY DEF Origins, LoadOf, DisposalOf, RecognitionOf

LEMMA SendingTyped ==
    ASSUME ChannelTyped, NEW method \in Methods, NEW from \in Origins, Sends(method, from)
    PROVE  calls' \in Seq(Calls)
<1>1. Call(method, from) \in Calls
  BY DEF Call, Calls
<1>2. calls \in Seq(Calls) /\ calls' = Append(calls, Call(method, from))
  BY DEF Sends, ChannelTyped
<1> QED BY <1>1, <1>2

LEMMA ReplyingTyped ==
    ASSUME ChannelTyped, NEW to \in Origins, NEW status \in StatusType, Replies(to, status)
    PROVE  replies' \in Seq(Answers)
<1>1. [to |-> to, status |-> status] \in Answers
  BY DEF Answers
<1> QED BY <1>1 DEF Replies, ChannelTyped

LEMMA TakingTyped ==
    ASSUME ChannelTyped, NEW method, Takes(method)
    PROVE  From \in Origins /\ calls' \in Seq(Calls)
<1>1. Head(calls) \in Calls /\ Tail(calls) \in Seq(Calls)
  BY DEF Takes, ChannelTyped
<1> QED BY <1>1 DEF Takes, From, Calls

LEMMA AnswerTyped ==
    ASSUME ChannelTyped, NEW from, Answered(from)
    PROVE  Status \in StatusType /\ replies' \in Seq(Answers)
<1>1. Head(replies) \in Answers /\ Tail(replies) \in Seq(Answers)
  BY DEF Answered, ChannelTyped
<1> QED BY <1>1 DEF Answered, Status, Answers

FlagsTyped ==
    /\ isInitialized \in BOOLEAN /\ isLoading \in BOOLEAN
    /\ isModelLoading \in BOOLEAN /\ loadError \in BOOLEAN

LEMMA ApplyTyped ==
    ASSUME DartTyped, NEW status \in StatusType, NEW ended, Apply(status, ended)
    PROVE  FlagsTyped'
BY DEF DartTyped, StatusType, Apply, FlagsTyped

LEMMA LoadTyped ==
    ASSUME DartTyped, NEW g \in Generations, NEW place \in LoadPlaces, MovesLoad(g, place)
    PROVE  load' \in [Generations -> LoadPlaces]
BY DEF DartTyped, MovesLoad

LEMMA RecognitionTyped ==
    ASSUME DartTyped, NEW r \in Recognitions, NEW place \in RecognitionPlaces,
           MovesRecognition(r, place)
    PROVE  recognition' \in [Recognitions -> RecognitionPlaces]
BY DEF DartTyped, MovesRecognition

-------------------------------------------------------------------------------
(* LlmService *)

LEMMA InitializeTyped ==
    ASSUME DartTyped, Initialize
    PROVE  /\ FlagsTyped'
           /\ generation' \in 0 .. MaxGenerations /\ wanted' \in {0, generation'}
           /\ load' \in [Generations -> LoadPlaces]
           /\ generation' \in Generations
<1>1. generation' \in Generations
  BY LlmAssumption DEF Initialize, DartTyped, Generations
<1>2. load' \in [Generations -> LoadPlaces]
  BY <1>1, LoadTyped DEF Initialize, LoadPlaces
<1>3. FlagsTyped'
  BY DEF Initialize, DartTyped, FlagsTyped
<1> QED BY <1>1, <1>2, <1>3, LlmAssumption DEF Initialize, Generations

(* What a load that is not current does after an answer or a delay. *)
LEMMA StaleTyped ==
    ASSUME DartTyped, ChannelTyped, NEW g \in Generations, StalePolls(g) \/ StaleDecides(g)
    PROVE  FlagsTyped' /\ load' \in [Generations -> LoadPlaces] /\ calls' \in Seq(Calls)
<1>1. FlagsTyped'
  BY DEF StalePolls, StaleDecides, DartTyped, FlagsTyped, flags
<1>2. PICK place \in LoadPlaces : MovesLoad(g, place)
  BY DEF StalePolls, StaleDecides, LoadPlaces
<1>3. load' \in [Generations -> LoadPlaces]
  BY <1>2, LoadTyped
<1>4. calls' = calls \/ \E method \in Methods : Sends(method, LoadOf(g))
  <2>1. "getStatus" \in Methods /\ "disposeLlm" \in Methods
    BY DEF Methods
  <2>2. calls' = calls \/ Sends("getStatus", LoadOf(g)) \/ Sends("disposeLlm", LoadOf(g))
    BY DEF StalePolls, StaleDecides
  <2> QED BY <2>1, <2>2
<1>5. calls' \in Seq(Calls)
  BY <1>4, OriginsTyped, SendingTyped DEF ChannelTyped
<1> QED BY <1>1, <1>3, <1>5

LEMMA LoadAnsweredTyped ==
    ASSUME DartTyped, ChannelTyped, NEW g \in Generations, LoadAnswered(g)
    PROVE  DartTyped' /\ ChannelTyped'
<1>1. Status \in StatusType /\ replies' \in Seq(Answers)
  BY AnswerTyped DEF LoadAnswered
<1> USE DEF LoadPlaces
<1>2. /\ FlagsTyped'
      /\ load' \in [Generations -> LoadPlaces]
      /\ calls' \in Seq(Calls)
      /\ polls' \in [Generations -> 0 .. MaxStalePolls]
  <2>1. CASE InitializeAnswered(g)
    <3>1. polls' \in [Generations -> 0 .. MaxStalePolls]
      BY <2>1 DEF InitializeAnswered, DartTyped
    <3>2. CASE ~IsCurrentLoad(g)
      BY <2>1, <3>1, <3>2, StaleTyped DEF InitializeAnswered
    <3>3. CASE IsCurrentLoad(g)
      <4>1. /\ Apply(Status, Status.error) /\ calls' = calls
            /\ \E place \in LoadPlaces : MovesLoad(g, place)
        BY <2>1, <3>3 DEF InitializeAnswered
      <4> QED BY <1>1, <3>1, <4>1, ApplyTyped, LoadTyped DEF ChannelTyped
    <3> QED BY <3>2, <3>3
  <2>2. CASE LoadStatusAnswered(g)
    <3>1. polls' \in [Generations -> 0 .. MaxStalePolls]
      BY <2>2 DEF LoadStatusAnswered, DartTyped
    <3>2. CASE ~IsCurrentLoad(g)
      BY <2>2, <3>1, <3>2, StaleTyped DEF LoadStatusAnswered
    <3>3. CASE IsCurrentLoad(g)
      <4>1. /\ Apply(Status, LoadEnded(Status)) /\ calls' = calls
            /\ \E place \in LoadPlaces : MovesLoad(g, place)
        BY <2>2, <3>3 DEF LoadStatusAnswered
      <4> QED BY <1>1, <3>1, <4>1, ApplyTyped, LoadTyped DEF ChannelTyped
    <3> QED BY <3>2, <3>3
  <2>3. CASE StaleStatusAnswered(g)
    <3>1. CASE Status.loading
      <4>1. polls' = [polls EXCEPT ![g] = IF @ = 0 THEN 0 ELSE @ - 1]
            /\ MovesLoad(g, "stale delay") /\ UNCHANGED <<calls, flags>>
        BY <2>3, <3>1 DEF StaleStatusAnswered
      <4>2. \A n \in 0 .. MaxStalePolls : (IF n = 0 THEN 0 ELSE n - 1) \in 0 .. MaxStalePolls
        BY LlmAssumption
      <4>3. polls' \in [Generations -> 0 .. MaxStalePolls]
        BY <4>1, <4>2 DEF DartTyped
      <4> QED BY <4>1, <4>3, LoadTyped DEF DartTyped, ChannelTyped, FlagsTyped, flags
    <3>2. CASE ~Status.loading
      <4>1. StaleDecides(g) /\ polls' = polls
        BY <2>3, <3>2 DEF StaleStatusAnswered
      <4> QED BY <4>1, StaleTyped DEF DartTyped
    <3> QED BY <3>1, <3>2
  <2>4. CASE StaleDisposeAnswered(g)
    <3>1. MovesLoad(g, "done") /\ UNCHANGED <<calls, flags, polls>>
      BY <2>4 DEF StaleDisposeAnswered
    <3> QED BY <3>1, LoadTyped DEF DartTyped, ChannelTyped, FlagsTyped, flags
  <2> QED BY <2>1, <2>2, <2>3, <2>4 DEF LoadAnswered
<1>3. UNCHANGED <<generation, wanted, disposal, recognition>>
  BY DEF LoadAnswered
<1> QED BY <1>1, <1>2, <1>3 DEF DartTyped, ChannelTyped, FlagsTyped

LEMMA LoadStepTyped ==
    ASSUME DartTyped, ChannelTyped, NEW g \in Generations, LoadStep(g)
    PROVE  DartTyped' /\ ChannelTyped'
<1>1. /\ UNCHANGED <<generation, wanted, polls, disposal, recognition, replies>>
      /\ \/ StalePolls(g) \/ StaleDecides(g)
         \/ /\ UNCHANGED flags
            /\ \E method \in Methods : Sends(method, LoadOf(g))
            /\ \E place \in LoadPlaces : MovesLoad(g, place)
  <2>1. "initialize" \in Methods /\ "getStatus" \in Methods
        /\ "initialize" \in LoadPlaces /\ "status" \in LoadPlaces
    BY DEF Methods, LoadPlaces
  <2>2. CASE LoadStarts(g)
    BY <2>1, <2>2 DEF LoadStarts
  <2>3. CASE LoadPolls(g)
    BY <2>1, <2>3 DEF LoadPolls
  <2>4. CASE StaleDelayEnds(g)
    BY <2>4 DEF StaleDelayEnds
  <2> QED BY <2>2, <2>3, <2>4 DEF LoadStep
<1>2. FlagsTyped' /\ load' \in [Generations -> LoadPlaces] /\ calls' \in Seq(Calls)
  <2>1. CASE StalePolls(g) \/ StaleDecides(g)
    BY <2>1, StaleTyped
  <2>2. CASE /\ UNCHANGED flags
             /\ \E method \in Methods : Sends(method, LoadOf(g))
             /\ \E place \in LoadPlaces : MovesLoad(g, place)
    <3>1. FlagsTyped'
      BY <2>2 DEF DartTyped, FlagsTyped, flags
    <3> QED BY <2>2, <3>1, LoadTyped, SendingTyped, OriginsTyped
  <2> QED BY <1>1, <2>1, <2>2
<1> QED BY <1>1, <1>2 DEF DartTyped, ChannelTyped, FlagsTyped

LEMMA DisposalTyped ==
    ASSUME DartTyped, ChannelTyped,
           UserDisposes \/ \E g \in Generations : DisposeAnswered(g)
    PROVE  DartTyped' /\ ChannelTyped'
<1>1. CASE UserDisposes
  <2>1. generation' \in Generations
    BY <1>1, LlmAssumption DEF UserDisposes, DartTyped, Generations
  <2>2. DartTyped'
    BY <1>1, <2>1, LlmAssumption DEF UserDisposes, DartTyped, Generations, flags
  <2>3. calls' \in Seq(Calls)
    BY <1>1, <2>1, OriginsTyped, SendingTyped DEF UserDisposes, Methods
  <2> QED BY <1>1, <2>2, <2>3 DEF UserDisposes, ChannelTyped
<1>2. ASSUME NEW g \in Generations, DisposeAnswered(g) PROVE DartTyped' /\ ChannelTyped'
  <2>1. replies' \in Seq(Answers)
    BY <1>2, AnswerTyped DEF DisposeAnswered
  <2> QED BY <1>2, <2>1 DEF DisposeAnswered, DartTyped, ChannelTyped
<1> QED BY <1>1, <1>2

(* A recognition asks for the status or for a text, or ends. *)
LEMMA RecognitionMovesTyped ==
    ASSUME DartTyped, ChannelTyped, NEW r \in Recognitions,
           Generates(r) \/ Asks(r) \/ GivesUp(r)
    PROVE  recognition' \in [Recognitions -> RecognitionPlaces] /\ calls' \in Seq(Calls)
<1>1. /\ "generate" \in Methods /\ "getStatus" \in Methods
      /\ {"generate", "status", "done"} \subseteq RecognitionPlaces
  BY DEF Methods, RecognitionPlaces
<1>2. RecognitionOf(r) \in Origins
  BY OriginsTyped
<1>3. CASE Generates(r)
  BY <1>1, <1>2, <1>3, RecognitionTyped, SendingTyped DEF Generates
<1>4. CASE Asks(r)
  BY <1>1, <1>2, <1>4, RecognitionTyped, SendingTyped DEF Asks
<1>5. CASE GivesUp(r)
  BY <1>1, <1>5, RecognitionTyped DEF GivesUp, ChannelTyped
<1> QED BY <1>3, <1>4, <1>5

LEMMA RecognitionStepTyped ==
    ASSUME DartTyped, ChannelTyped, NEW r \in Recognitions,
           RecognitionStarts(r) \/ RecognitionStep(r) \/ RecognitionAnswered(r)
    PROVE  DartTyped' /\ ChannelTyped'
<1>1. CASE RecognitionStarts(r)
  <2>1. recognition' \in [Recognitions -> RecognitionPlaces] /\ calls' \in Seq(Calls)
    BY <1>1, RecognitionMovesTyped DEF RecognitionStarts
  <2>2. CASE Initialize
    BY <1>1, <2>1, <2>2, InitializeTyped
       DEF RecognitionStarts, Initialize, DartTyped, ChannelTyped, FlagsTyped
  <2>3. CASE UNCHANGED <<flags, generation, wanted, load, polls, disposal>>
    BY <1>1, <2>1, <2>3 DEF RecognitionStarts, DartTyped, ChannelTyped, flags
  <2> QED BY <1>1, <2>2, <2>3 DEF RecognitionStarts
<1>2. CASE RecognitionStep(r)
  <2>1. recognition' \in [Recognitions -> RecognitionPlaces] /\ calls' \in Seq(Calls)
    BY <1>2, RecognitionMovesTyped
       DEF RecognitionStep, RecognitionDelayEnds, RecognitionTimesOut
  <2>2. UNCHANGED <<flags, generation, wanted, load, polls, disposal, replies>>
    BY <1>2 DEF RecognitionStep, RecognitionDelayEnds, RecognitionTimesOut
  <2> QED BY <2>1, <2>2 DEF DartTyped, ChannelTyped, flags
<1>3. CASE RecognitionAnswered(r)
  <2>1. Status \in StatusType /\ replies' \in Seq(Answers)
    BY <1>3, AnswerTyped DEF RecognitionAnswered
  <2>2. UNCHANGED <<generation, wanted, load, polls, disposal>>
    BY <1>3 DEF RecognitionAnswered
  <2>3. FlagsTyped'
    <3>1. Apply(Status, FALSE) \/ UNCHANGED flags
      BY <1>3 DEF RecognitionAnswered, RecognitionStatusAnswered, TextAnswered
    <3>2. CASE UNCHANGED flags
      BY <3>2 DEF DartTyped, FlagsTyped, flags
    <3> QED BY <2>1, <3>1, <3>2, ApplyTyped
  <2>4. \/ Generates(r) \/ GivesUp(r)
        \/ MovesRecognition(r, "delay") /\ UNCHANGED calls
    BY <1>3 DEF RecognitionAnswered, RecognitionStatusAnswered, TextAnswered
  <2>5. recognition' \in [Recognitions -> RecognitionPlaces] /\ calls' \in Seq(Calls)
    BY <2>4, RecognitionMovesTyped, RecognitionTyped DEF RecognitionPlaces, ChannelTyped
  <2> QED BY <2>1, <2>2, <2>3, <2>5 DEF DartTyped, ChannelTyped, FlagsTyped
<1> QED BY <1>1, <1>2, <1>3

(* A step of Dart leaves MainActivity, MnnEngine and the library alone. *)
DartStep ==
    \/ UserLoads \/ UserDisposes \/ ReplyHandled \/ TimerFires
    \/ \E r \in Recognitions : RecognitionStarts(r)

LEMMA DartStepTyped ==
    ASSUME DartTyped, ChannelTyped, DartStep
    PROVE  DartTyped' /\ ChannelTyped' /\ UNCHANGED <<kotlin, native>>
<1>1. CASE UserLoads
  <2>1. DartTyped'
    BY <1>1, InitializeTyped DEF UserLoads, Initialize, DartTyped, FlagsTyped
  <2> QED BY <1>1, <2>1 DEF UserLoads, ChannelTyped, channel
<1>2. CASE UserDisposes
  BY <1>2, DisposalTyped DEF UserDisposes
<1>3. CASE ReplyHandled
  BY <1>3, LoadAnsweredTyped, DisposalTyped, RecognitionStepTyped
     DEF ReplyHandled, LoadAnswered, DisposeAnswered, RecognitionAnswered
<1>4. CASE TimerFires
  <2>1. DartTyped' /\ ChannelTyped'
    BY <1>4, LoadStepTyped, RecognitionStepTyped DEF TimerFires
  <2>2. UNCHANGED <<kotlin, native>>
    BY <1>4 DEF TimerFires, LoadStep, LoadStarts, LoadPolls, StaleDelayEnds,
                RecognitionStep, RecognitionDelayEnds, RecognitionTimesOut
  <2> QED BY <2>1, <2>2
<1>5. ASSUME NEW r \in Recognitions, RecognitionStarts(r)
      PROVE  DartTyped' /\ ChannelTyped' /\ UNCHANGED <<kotlin, native>>
  BY <1>5, RecognitionStepTyped DEF RecognitionStarts
<1> QED BY <1>1, <1>2, <1>3, <1>4, <1>5 DEF DartStep

-------------------------------------------------------------------------------
(* MainActivity and MnnEngine *)

LEMMA StatusesTyped ==
    /\ Nothing \in StatusType
    /\ \A ready \in {"yes", "no", "same"}, loading, error \in BOOLEAN :
          Answer(ready, loading, error) \in StatusType
BY DEF Nothing, Answer, StatusType

(* What is left of the native context when the main thread has asked. *)
Kept == <<locks, context, llm, initialized, instances, at>>

LEMMA AskingLeaves ==
    ASSUME AskEngine
    PROVE  UNCHANGED <<dart, channel, Kept, engine, isLlmLoading, llmLoadError, loader, jobs, job, posted,
                       supported, overlooked>>
BY DEF AskEngine, TestContext, Kept

LEMMA HandlersLeave ==
    ASSUME HandleCall
    PROVE  UNCHANGED <<dart, Kept, engine, job, supported, overlooked>>
<1>1. ASSUME NEW ready, EngineAnswers(ready) PROVE UNCHANGED Kept
  BY <1>1 DEF EngineAnswers, UseContext, Kept, native, locks
<1> QED BY <1>1 DEF HandleCall, HandleUnsupported, HandleInitialize, HandleGetStatus, HandleDispose,
                    HandleGenerate, Kept, native, mainThread, kotlin

LEMMA AskingTyped ==
    ASSUME DartTyped, ChannelTyped, KotlinTyped, CallersWait, AskEngine
    PROVE  DartTyped' /\ ChannelTyped' /\ KotlinTyped' /\ CallersWait'
<1>1. loadingRead' \in BOOLEAN
  BY DEF AskEngine
<1> QED BY <1>1, AskingLeaves
        DEF DartTyped, ChannelTyped, KotlinTyped, CallersWait, dart, channel, flags, Kept

LEMMA AppendTyped ==
    ASSUME NEW S, NEW s \in Seq(S), NEW e \in S
    PROVE  Append(s, e) \in Seq(S)
OBVIOUS

LEMMA HandleCallTyped ==
    ASSUME DartTyped, ChannelTyped, KotlinTyped, CallersWait, HandleCall
    PROVE  DartTyped' /\ ChannelTyped' /\ KotlinTyped' /\ CallersWait'
<1>1. DartTyped' /\ loadingRead' \in BOOLEAN
  <2>1. loadingRead' \in {FALSE, loadingRead}
    BY DEF HandleCall, HandleUnsupported, HandleInitialize, HandleGetStatus, HandleDispose, HandleGenerate,
           EngineAnswers, mainThread
  <2> QED BY <2>1, HandlersLeave DEF DartTyped, KotlinTyped, dart, flags
<1>2. From \in Origins /\ calls' \in Seq(Calls)
  BY TakingTyped DEF HandleCall, HandleUnsupported, HandleInitialize, HandleGetStatus,
                     HandleDispose, HandleGenerate
<1>3. <<"dispose", From>> \in Jobs /\ <<"generate", From>> \in Jobs
      /\ <<"complete", From>> \in Posts
  BY <1>2 DEF Jobs, Posts
<1>4. replies' \in Seq(Answers)
  <2>1. \/ replies' = replies
        \/ \E status \in StatusType : Replies(From, status)
    <3>1. CASE HandleUnsupported
      BY <3>1, StatusesTyped DEF HandleUnsupported
    <3>2. CASE HandleInitialize
      BY <3>2, StatusesTyped DEF HandleInitialize
    <3>3. CASE HandleGetStatus
      <4>1. PICK ready \in BOOLEAN : Replies(From, StatusFor(ready))
        BY <3>3 DEF HandleGetStatus
      <4>2. StatusFor(ready) \in StatusType
        BY StatusesTyped DEF KotlinTyped, Told, StatusFor
      <4> QED BY <4>1, <4>2
    <3>4. CASE HandleDispose
      BY <3>4 DEF HandleDispose
    <3>5. CASE HandleGenerate
      BY <3>5, StatusesTyped DEF HandleGenerate
    <3> QED BY <3>1, <3>2, <3>3, <3>4, <3>5 DEF HandleCall
  <2> QED BY <1>2, <2>1, ReplyingTyped DEF ChannelTyped
<1>5. job' = job /\ at' = at /\ engine' = engine /\ supported' = supported
  BY HandlersLeave DEF Kept
<1>6. isLlmLoading' \in BOOLEAN /\ llmLoadError' \in BOOLEAN
  BY DEF HandleCall, HandleUnsupported, HandleInitialize, HandleGetStatus, HandleDispose,
         HandleGenerate, kotlin, KotlinTyped, StartLoader
<1>7. jobs' \in Seq(Jobs) /\ posted' \in Seq(Posts)
  <2>1. /\ jobs' = jobs \/ jobs' = Append(jobs, <<"dispose", From>>)
           \/ jobs' = Append(jobs, <<"generate", From>>)
        /\ posted' = posted \/ posted' = Append(posted, <<"complete", From>>)
    BY DEF HandleCall, HandleUnsupported, HandleInitialize, HandleGetStatus, HandleDispose,
           HandleGenerate, kotlin
  <2>2. jobs \in Seq(Jobs) /\ posted \in Seq(Posts)
    BY DEF KotlinTyped
  <2>3. /\ Append(jobs, <<"dispose", From>>) \in Seq(Jobs)
        /\ Append(jobs, <<"generate", From>>) \in Seq(Jobs)
        /\ Append(posted, <<"complete", From>>) \in Seq(Posts)
    BY <1>3, <2>2, AppendTyped, Zenon
  <2> QED BY <2>1, <2>2, <2>3, Zenon
<1>8. /\ loader' \in [Loaders -> LoaderStates]
      /\ \A t \in Loaders : loader'[t] = "native" <=> loader[t] = "native"
  <2>1. loader' = loader \/ \E t \in Loaders : loader[t] = "unused" /\ loader' = [loader EXCEPT ![t] = "prepare"]
    BY DEF HandleCall, HandleUnsupported, HandleInitialize, HandleGetStatus, HandleDispose,
           HandleGenerate, kotlin, StartLoader
  <2> QED BY <2>1 DEF KotlinTyped, LoaderStates
<1> QED BY <1>1, <1>2, <1>4, <1>5, <1>6, <1>7, <1>8 DEF ChannelTyped, KotlinTyped, CallersWait

LEMMA RunPostedTyped ==
    ASSUME DartTyped, ChannelTyped, KotlinTyped, CallersWait, RunPosted
    PROVE  DartTyped' /\ ChannelTyped' /\ KotlinTyped' /\ CallersWait'
<1>1. posted \in Seq(Posts) /\ posted # <<>>
  BY DEF KotlinTyped, RunPosted
<1>2. Head(posted) \in Posts /\ Tail(posted) \in Seq(Posts)
  BY <1>1
<1>3. Head(posted)[2] \in Origins
  BY <1>2 DEF Posts
<1>4. <<"complete", Head(posted)[2]>> \in Posts
  BY <1>3 DEF Posts
<1>5. posted' \in Seq(Posts)
  <2>1. posted' = Tail(posted) \/ posted' = Append(Tail(posted), <<"complete", Head(posted)[2]>>)
    BY DEF RunPosted
  <2>2. Append(Tail(posted), <<"complete", Head(posted)[2]>>) \in Seq(Posts)
    BY <1>2, <1>4, AppendTyped, Zenon
  <2> QED BY <1>2, <2>1, <2>2, Zenon
<1>6. replies' \in Seq(Answers)
  <2>1. replies' = replies \/ Replies(Head(posted)[2], Nothing)
    BY DEF RunPosted
  <2> QED BY <1>3, <2>1, ReplyingTyped, StatusesTyped DEF ChannelTyped
<1>7. engine' \in BOOLEAN /\ isLlmLoading' \in BOOLEAN
  BY DEF RunPosted, KotlinTyped
<1> QED BY <1>5, <1>6, <1>7
        DEF RunPosted, DartTyped, ChannelTyped, KotlinTyped, CallersWait, dart, flags, mainThread, native

LEMMA ExecutorTyped ==
    ASSUME DartTyped, ChannelTyped, KotlinTyped, CallersWait, IInv, ExecutorStep
    PROVE  DartTyped' /\ ChannelTyped' /\ KotlinTyped' /\ CallersWait'
<1> USE ThreadsAssumption
<1>0. at \in [Threads -> LoaderPlaces \union ExecutorPlaces]
  BY DEF IInv, NativeTypeOK
<1>1. \A j \in Jobs : j # <<>>
  BY DEF Jobs
<1>2. CASE TakeJob
  <2>1. jobs \in Seq(Jobs) /\ jobs # <<>>
    BY <1>2 DEF KotlinTyped, TakeJob
  <2>2. Head(jobs) \in Jobs /\ Tail(jobs) \in Seq(Jobs)
    BY <2>1
  <2>3. job' \in Jobs /\ jobs' \in Seq(Jobs)
    BY <1>2, <2>2 DEF TakeJob
  <2>4. at'[Executor] # "idle" /\ \A t \in Loaders : at'[t] = at[t]
    BY <1>0, <1>2 DEF TakeJob, CallDispose, CallGenerate, Go
  <2>5. CallersWait'
    BY <1>1, <1>2, <2>3, <2>4 DEF TakeJob, CallersWait
  <2> QED BY <1>2, <2>3, <2>5
          DEF TakeJob, DartTyped, ChannelTyped, KotlinTyped, dart, channel, flags, mainThread
<1>3. CASE JobEnds
  <2>1. job \in Jobs
    BY <1>3 DEF JobEnds, KotlinTyped
  <2>2. job[2] \in Origins
    BY <2>1 DEF Jobs
  <2>3. <<IF job[1] = "dispose" THEN "freed" ELSE "complete", job[2]>> \in Posts
    BY <2>2 DEF Posts
  <2>4. posted' \in Seq(Posts)
    <3>1. posted \in Seq(Posts)
      BY DEF KotlinTyped
    <3> QED BY <1>3, <2>3, <3>1 DEF JobEnds
  <2>5. at'[Executor] = "idle" /\ \A t \in Loaders : at'[t] = at[t]
    BY <1>0, <1>3 DEF JobEnds, Returns, Go
  <2>6. CallersWait'
    BY <1>3, <2>5 DEF JobEnds, CallersWait
  <2> QED BY <1>3, <2>4, <2>6
          DEF JobEnds, DartTyped, ChannelTyped, KotlinTyped, dart, channel, flags, mainThread
<1>4. CASE (DisposeStep \/ GenerateStep) /\ UNCHANGED <<dart, channel, kotlin>>
  <2>1. /\ at[Executor] # "idle" /\ at'[Executor] # "idle"
        /\ \A t \in Loaders : at'[t] = at[t]
    BY <1>0, <1>4 DEF DisposeStep, GenerateStep, LockForDispose, FreeLlm, ResetContext,
                      EnterGenerate, Respond, ResponseEnds, Go
  <2> QED BY <1>4, <2>1 DEF DartTyped, ChannelTyped, KotlinTyped, CallersWait,
                            dart, channel, kotlin, flags, mainThread
<1> QED BY <1>2, <1>3, <1>4 DEF ExecutorStep

LEMMA LoaderTyped ==
    ASSUME DartTyped, ChannelTyped, KotlinTyped, CallersWait, IInv,
           NEW t \in Loaders, LoaderStep(t)
    PROVE  DartTyped' /\ ChannelTyped' /\ KotlinTyped' /\ CallersWait'
<1> USE ThreadsAssumption
<1>0. at \in [Threads -> LoaderPlaces \union ExecutorPlaces] /\ loader \in [Loaders -> LoaderStates]
  BY DEF IInv, NativeTypeOK, KotlinTyped
<1>1. UNCHANGED <<dart, channel, jobs, job, posted, supported, loadingRead>>
  BY DEF LoaderStep, kotlin, mainThread
<1>2. /\ engine' \in BOOLEAN /\ isLlmLoading' \in BOOLEAN /\ llmLoadError' \in BOOLEAN
  BY DEF LoaderStep, Prepare, CallEngine, EngineReturns, LoaderEnds, KotlinTyped, kotlin
<1>3. /\ loader' \in [Loaders -> LoaderStates]
      /\ at'[Executor] = at[Executor]
      /\ \A u \in Loaders : loader'[u] = "native" <=> at'[u] # "idle"
  <2>1. CASE Prepare(t)
    BY <1>0, <2>1 DEF Prepare, LoaderEnds, LoaderGoes, LoaderStates, CallersWait, native
  <2>2. CASE CallEngine(t)
    BY <1>0, <2>2 DEF CallEngine, CallLoad, Go, LoaderEnds, LoaderGoes, LoaderStates, CallersWait, native
  <2>3. CASE EngineReturns(t)
    BY <1>0, <2>3 DEF EngineReturns, Returns, Go, LoaderEnds, LoaderGoes, LoaderStates, CallersWait
  <2>4. CASE ContextLoadStep(t) /\ UNCHANGED loader
    <3>1. at[t] # "idle" /\ at'[t] # "idle" /\ \A u \in Threads \ {t} : at'[u] = at[u]
      BY <1>0, <2>4 DEF ContextLoadStep, LockForLoad, EnterLoad, RefuseLoad, CreateLlm,
                        LoadWeights, LoadReturns, Go
    <3> QED BY <1>0, <2>4, <3>1 DEF CallersWait
  <2> QED BY <2>1, <2>2, <2>3, <2>4 DEF LoaderStep, kotlin
<1> QED BY <1>1, <1>2, <1>3 DEF DartTyped, ChannelTyped, KotlinTyped, CallersWait,
                                dart, channel, flags

-------------------------------------------------------------------------------
(* Types *)

LEMMA TypedStep == Typed /\ [Next]_vars => Typed'
<1> SUFFICES ASSUME Typed, [Next]_vars PROVE Typed'
  OBVIOUS
<1>1. IInv'
  BY NativeAllows, StepPreserves DEF Typed
<1>2. DartTyped' /\ ChannelTyped' /\ KotlinTyped' /\ CallersWait'
  <2>1. CASE DartStep
    BY <2>1, DartStepTyped DEF Typed, KotlinTyped, CallersWait, kotlin, mainThread, native
  <2>2. CASE HandleCall
    BY <2>2, HandleCallTyped DEF Typed
  <2>3. CASE RunPosted
    BY <2>3, RunPostedTyped DEF Typed
  <2>4. CASE ExecutorStep
    BY <2>4, ExecutorTyped DEF Typed
  <2>5. ASSUME NEW t \in Loaders, LoaderStep(t)
        PROVE  DartTyped' /\ ChannelTyped' /\ KotlinTyped' /\ CallersWait'
    BY <2>5, LoaderTyped DEF Typed
  <2>6. CASE UNCHANGED vars
    BY <2>6 DEF Typed, DartTyped, ChannelTyped, KotlinTyped, CallersWait,
                vars, dart, channel, kotlin, mainThread, flags, native
  <2>7. CASE AskEngine
    BY <2>7, AskingTyped DEF Typed
  <2> QED BY <2>1, <2>2, <2>3, <2>4, <2>5, <2>6, <2>7 DEF Next, DartStep
<1> QED BY <1>1, <1>2 DEF Typed

LEMMA AlwaysTyped == Spec => []Typed
BY LlmInit, TypedStep, PTL DEF Spec

(***************************************************************************)
(* Every field of LlmService, MainActivity and MnnEngine, every call and   *)
(* every answer keeps its type, and a caller of the native library waits   *)
(* exactly while its thread is in it.                                      *)
(***************************************************************************)
THEOREM LlmTypeCorrect == Spec => []TypeOK
BY AlwaysTyped, TypedIsTypeOK, PTL

(* generate and dispose keep to the one executor under these callers, too: *)
(* of all that read g_mnnContext without its lock only isInitialized uses  *)
(* a context that is not there, when a disposal overtakes it.              *)
THEOREM CallersCrashOvertaken == Spec => []CrashOnlyOvertaken
BY CallersObeyContext, OnlyOvertakenCrash, PTL

(* However often Dart loads and disposes of it, and MainActivity forgets   *)
(* its engine, the native side holds one model at most, or none.           *)
THEOREM CallersHoldOneModel == Spec => HoldsOneModel
BY CallersObeyContext, ImplementsHolder

-------------------------------------------------------------------------------
(* The flags *)

(* What a step of another part than Dart leaves as it is. *)
LEMMA DartAlone ==
    ASSUME [Next]_vars, ~DartStep
    PROVE  UNCHANGED dart
<1>1. CASE AskEngine \/ HandleCall
  BY <1>1, AskingLeaves, HandlersLeave
<1>2. CASE RunPosted
  BY <1>2 DEF RunPosted
<1>3. CASE ExecutorStep
  BY <1>3 DEF ExecutorStep, TakeJob, JobEnds
<1>4. ASSUME NEW t \in Loaders, LoaderStep(t) PROVE UNCHANGED dart
  BY <1>4 DEF LoaderStep
<1>5. CASE UNCHANGED vars
  BY <1>5 DEF vars
<1> QED BY <1>1, <1>2, <1>3, <1>4, <1>5 DEF Next, DartStep

(* An answer to a load changes the flags only while the load is current.   *)
LEMMA OnlyCurrentApplies ==
    ASSUME NEW g \in Generations, LoadAnswered(g) \/ LoadStep(g), ~IsCurrentLoad(g)
    PROVE  UNCHANGED <<flags, generation, wanted, disposal, recognition>>
<1>1. CASE LoadAnswered(g)
  BY <1>1 DEF LoadAnswered, InitializeAnswered, LoadStatusAnswered, StaleStatusAnswered,
              StaleDisposeAnswered, StalePolls, StaleDecides, flags
<1>2. CASE LoadStep(g)
  BY <1>2 DEF LoadStep, LoadStarts, LoadPolls, StaleDelayEnds, StalePolls, StaleDecides
<1> QED BY <1>1, <1>2

LEMMA DisposedStep == Typed /\ DisposedStaysReset /\ [Next]_vars => DisposedStaysReset'
<1> SUFFICES ASSUME Typed, DisposedStaysReset, [Next]_vars PROVE DisposedStaysReset'
  OBVIOUS
<1> USE DEF DisposedStaysReset
<1>0. DartTyped
  BY DEF Typed
<1>1. CASE UserLoads
  BY <1>0, <1>1 DEF UserLoads, Initialize, DartTyped
<1>2. CASE UserDisposes
  BY <1>2 DEF UserDisposes
<1>3. ASSUME NEW r \in Recognitions,
             RecognitionStarts(r) \/ RecognitionStep(r) \/ RecognitionAnswered(r)
      PROVE  DisposedStaysReset'
  <2>1. recognition'[r] # "idle"
    <3>1. recognition[r] # "idle" => recognition'[r] # "idle"
      BY <1>0, <1>3 DEF RecognitionStarts, RecognitionStep, RecognitionAnswered, DartTyped,
         RecognitionDelayEnds, RecognitionTimesOut, RecognitionStatusAnswered, TextAnswered,
         Generates, Asks, GivesUp, MovesRecognition
    <3>2. RecognitionStarts(r) => recognition'[r] # "idle"
      BY <1>0 DEF RecognitionStarts, Generates, Asks, MovesRecognition, DartTyped
    <3>3. RecognitionStep(r) \/ RecognitionAnswered(r) => recognition[r] # "idle"
      BY DEF RecognitionStep, RecognitionDelayEnds, RecognitionTimesOut, RecognitionAnswered,
             RecognitionStatusAnswered, TextAnswered
    <3> QED BY <1>3, <3>1, <3>2, <3>3
  <2> QED BY <2>1
<1>4. ASSUME NEW g \in Generations, LoadAnswered(g) \/ LoadStep(g)
      PROVE  DisposedStaysReset'
  <2>1. CASE IsCurrentLoad(g)
    <3>1. wanted # 0
      BY <2>1 DEF IsCurrentLoad, Generations
    <3>2. wanted' = wanted
      BY <1>4 DEF LoadAnswered, LoadStep, LoadStarts, LoadPolls, StaleDelayEnds
    <3> QED BY <3>1, <3>2
  <2>2. CASE ~IsCurrentLoad(g)
    BY <1>4, <2>2, OnlyCurrentApplies DEF flags
  <2> QED BY <2>1, <2>2
<1>5. ASSUME NEW g \in Generations, DisposeAnswered(g) PROVE DisposedStaysReset'
  BY <1>5 DEF DisposeAnswered
<1>6. CASE UNCHANGED dart
  BY <1>6 DEF dart, flags
<1> QED BY <1>1, <1>2, <1>3, <1>4, <1>5, <1>6, DartAlone DEF DartStep, ReplyHandled, TimerFires

(***************************************************************************)
(* After a disposal no late answer to a load that it has cancelled brings  *)
(* the flags back, however many loads there were and in whatever order     *)
(* their answers come: a load applies what it is told only while it is the *)
(* newest and wanted, and a disposal leaves none wanted.                   *)
(***************************************************************************)
THEOREM DisposedStaysSo == Spec => []DisposedStaysReset
<1>1. Init => DisposedStaysReset
  BY DEF Init, DisposedStaysReset
<1> QED BY <1>1, DisposedStep, AlwaysTyped, PTL DEF Spec

(***************************************************************************)
(* LoadingIsReal is not inductive: it needs that no load of a number that  *)
(* is not given away yet has begun, and that a load which has turned stale *)
(* does not become current again.                                          *)
(***************************************************************************)
StalePlaces == {"stale status", "stale delay", "stale dispose"}

LoadsKnown ==
    /\ LoadingIsReal
    /\ \A g \in Generations : g > generation => load[g] = "none"
    /\ \A g \in Generations : load[g] \in StalePlaces => ~IsCurrentLoad(g)

LEMMA InitializeKeepsLoads ==
    ASSUME DartTyped, LoadsKnown, Initialize
    PROVE  LoadsKnown'
<1>1. generation \in Nat /\ generation' = generation + 1 /\ generation' \in Generations
      /\ wanted' = generation'
  BY LlmAssumption DEF DartTyped, Initialize, Generations
<1>2. /\ load'[generation'] = "scheduled"
      /\ \A g \in Generations \ {generation'} : load'[g] = load[g]
  BY <1>1 DEF Initialize, MovesLoad, DartTyped
<1>3. LoadingIsReal'
  BY <1>1, <1>2 DEF LoadingIsReal, IsCurrentLoad
<1>4. \A g \in Generations : g > generation' => load'[g] = "none"
  BY <1>1, <1>2 DEF LoadsKnown, Generations
<1>5. \A g \in Generations : load'[g] \in StalePlaces => ~IsCurrentLoad(g)'
  BY <1>1, <1>2 DEF StalePlaces, IsCurrentLoad
<1> QED BY <1>3, <1>4, <1>5 DEF LoadsKnown

(* One load moves, and no number, wish or disposal changes. *)
LEMMA LoadKeepsLoads ==
    ASSUME DartTyped, LoadsKnown, NEW g \in Generations, LoadAnswered(g) \/ LoadStep(g)
    PROVE  LoadsKnown'
<1>1. UNCHANGED <<generation, wanted, disposal>>
  BY DEF LoadAnswered, LoadStep, LoadStarts, LoadPolls, StaleDelayEnds
<1>2. load[g] # "none" /\ \A h \in Generations \ {g} : load'[h] = load[h]
  BY DEF LoadAnswered, LoadStep, LoadStarts, LoadPolls, StaleDelayEnds, InitializeAnswered,
         LoadStatusAnswered, StaleStatusAnswered, StaleDisposeAnswered, StalePolls, StaleDecides,
         MovesLoad, DartTyped
<1>3. \A h \in Generations : h > generation' => load'[h] = "none"
  BY <1>1, <1>2 DEF LoadsKnown
<1>4. CASE IsCurrentLoad(g)
  <2>1. /\ load'[g] \in {"initialize", "delay", "status", "found", "done"}
        /\ isLoading' => isLoading /\ load'[g] # "done"
    <3>1. load[g] \notin StalePlaces
      BY <1>4 DEF LoadsKnown
    <3>2. CASE LoadAnswered(g)
      <4>1. CASE InitializeAnswered(g)
        BY <1>4, <4>1 DEF InitializeAnswered, Apply, MovesLoad, DartTyped, LoadPlaces
      <4>2. CASE LoadStatusAnswered(g)
        <5>1. /\ Apply(Status, LoadEnded(Status))
              /\ load'[g] = IF LoadEnded(Status) THEN "done" ELSE "delay"
          BY <1>4, <4>2 DEF LoadStatusAnswered, MovesLoad, DartTyped
        <5> QED BY <5>1 DEF Apply
      <4>3. ~StaleStatusAnswered(g) /\ ~StaleDisposeAnswered(g)
        BY <3>1 DEF StaleStatusAnswered, StaleDisposeAnswered, StalePlaces
      <4>4. InitializeAnswered(g) \/ LoadStatusAnswered(g)
        BY <3>2, <4>3 DEF LoadAnswered
      <4> QED BY <4>1, <4>2, <4>4, Zenon
    <3>3. CASE LoadStep(g)
      <4>1. ~StaleDelayEnds(g)
        BY <3>1 DEF StaleDelayEnds, StalePlaces
      <4>2. CASE LoadStarts(g)
        BY <4>2 DEF LoadStarts, MovesLoad, DartTyped, flags
      <4>3. CASE LoadPolls(g)
        BY <1>4, <4>3 DEF LoadPolls, MovesLoad, DartTyped, flags
      <4> QED BY <3>3, <4>1, <4>2, <4>3 DEF LoadStep
    <3> QED BY <3>2, <3>3
  <2>2. IsCurrentLoad(g)'
    BY <1>1, <1>4 DEF IsCurrentLoad
  <2>3. LoadingIsReal'
    BY <2>1, <2>2 DEF LoadingIsReal
  <2>4. \A h \in Generations : load'[h] \in StalePlaces => ~IsCurrentLoad(h)'
    BY <1>1, <1>2, <2>1 DEF LoadsKnown, StalePlaces, IsCurrentLoad
  <2> QED BY <1>3, <2>3, <2>4 DEF LoadsKnown
<1>5. CASE ~IsCurrentLoad(g)
  <2>1. UNCHANGED flags
    BY <1>5, OnlyCurrentApplies
  <2>2. LoadingIsReal'
    BY <1>1, <1>2, <1>5, <2>1 DEF LoadsKnown, LoadingIsReal, IsCurrentLoad, flags
  <2>3. \A h \in Generations : load'[h] \in StalePlaces => ~IsCurrentLoad(h)'
    BY <1>1, <1>2, <1>5 DEF LoadsKnown, IsCurrentLoad
  <2> QED BY <1>3, <2>2, <2>3 DEF LoadsKnown
<1> QED BY <1>4, <1>5

LEMMA DisposeKeepsLoads ==
    ASSUME DartTyped, LoadsKnown, UserDisposes \/ \E g \in Generations : DisposeAnswered(g)
    PROVE  LoadsKnown'
<1>1. CASE UserDisposes
  <2>1. generation \in Nat /\ generation' = generation + 1 /\ wanted' = 0
        /\ disposal' # {} /\ load' = load
    BY <1>1, LlmAssumption DEF UserDisposes, DartTyped
  <2>2. \A g \in Generations : ~IsCurrentLoad(g)'
    BY <2>1 DEF IsCurrentLoad, Generations
  <2> QED BY <2>1, <2>2 DEF LoadsKnown, LoadingIsReal, Generations
<1>2. CASE \E g \in Generations : DisposeAnswered(g)
  <2>1. ~isLoading' /\ UNCHANGED <<generation, wanted, load>>
    BY <1>2 DEF DisposeAnswered
  <2> QED BY <2>1 DEF LoadsKnown, LoadingIsReal, IsCurrentLoad
<1> QED BY <1>1, <1>2

(* A recognition starts a load, or changes no load; isLoading it can only  *)
(* leave as it is.                                                         *)
LEMMA RecognitionKeepsLoads ==
    ASSUME DartTyped, LoadsKnown, NEW r \in Recognitions,
           RecognitionStarts(r) \/ RecognitionStep(r) \/ RecognitionAnswered(r)
    PROVE  LoadsKnown'
<1>1. \/ Initialize
      \/ UNCHANGED <<isLoading, generation, wanted, load, disposal>>
  BY DEF RecognitionStarts, RecognitionStep, RecognitionDelayEnds, RecognitionTimesOut,
         RecognitionAnswered, RecognitionStatusAnswered, TextAnswered, Apply, flags, DartTyped
<1>2. CASE UNCHANGED <<isLoading, generation, wanted, load, disposal>>
  BY <1>2 DEF LoadsKnown, LoadingIsReal, IsCurrentLoad
<1> QED BY <1>1, <1>2, InitializeKeepsLoads

LEMMA LoadsStep == Typed /\ LoadsKnown /\ [Next]_vars => LoadsKnown'
<1> SUFFICES ASSUME Typed, LoadsKnown, [Next]_vars PROVE LoadsKnown'
  OBVIOUS
<1>0. DartTyped
  BY DEF Typed
<1>1. CASE UserLoads
  BY <1>0, <1>1, InitializeKeepsLoads DEF UserLoads
<1>2. CASE UserDisposes
  BY <1>0, <1>2, DisposeKeepsLoads
<1>3. CASE ReplyHandled
  BY <1>0, <1>3, LoadKeepsLoads, DisposeKeepsLoads, RecognitionKeepsLoads DEF ReplyHandled
<1>4. CASE TimerFires
  BY <1>0, <1>4, LoadKeepsLoads, RecognitionKeepsLoads DEF TimerFires
<1>5. ASSUME NEW r \in Recognitions, RecognitionStarts(r) PROVE LoadsKnown'
  BY <1>0, <1>5, RecognitionKeepsLoads
<1>6. CASE UNCHANGED dart
  BY <1>6 DEF dart, flags, LoadsKnown, LoadingIsReal, IsCurrentLoad
<1> QED BY <1>1, <1>2, <1>3, <1>4, <1>5, <1>6, DartAlone DEF DartStep

(***************************************************************************)
(* The settings never show a model that loads when no load is under way    *)
(* that would end it, and no disposal that will reset it: isLoading is set *)
(* with a new number, and only the load of that number may still end       *)
(* without resetting it, when it finds the model initialized.              *)
(***************************************************************************)
THEOREM LoadingReal == Spec => []LoadingIsReal
<1>1. Init => LoadsKnown
  BY DEF Init, LoadsKnown, LoadingIsReal, StalePlaces
<1>2. LoadsKnown => LoadingIsReal
  BY DEF LoadsKnown
<1> QED BY <1>1, <1>2, LoadsStep, AlwaysTyped, PTL DEF Spec

-------------------------------------------------------------------------------
(* The model is freed *)

(***************************************************************************)
(* What MainActivity knows of its threads.  As long as the engine has not  *)
(* been forgotten at the wrong time there is one loading thread at most,   *)
(* isLlmLoading says whether there is one, and the engine is known while   *)
(* there is a model to free.                                               *)
(***************************************************************************)
Loads(t) == loader[t] # "unused"

Holding == llm # "null" \/ \E t \in Loaders : Loads(t)

JobDisposes == job # <<>> /\ job[1] = "dispose"

EngineKnown ==
    /\ llm # "null" => engine
    /\ \A t \in Loaders : loader[t] \in {"call", "native"} => engine

OneLoader ==
    /\ isLlmLoading <=> \E t \in Loaders : Loads(t)
    /\ \A t, u \in Loaders : Loads(t) /\ Loads(u) => t = u
    /\ \A t \in Loaders : Loads(t) => ~llmLoadError

ThreadsKnown ==
    /\ at[Executor] \in {"dispose", "free", "reset"} => JobDisposes
    /\ \A t \in Loaders : Loads(t) => supported
    /\ ~overlooked => EngineKnown /\ OneLoader

LEMMA AskingKeepsThreads ==
    ASSUME ThreadsKnown, AskEngine
    PROVE  ThreadsKnown'
BY AskingLeaves DEF Kept, ThreadsKnown, JobDisposes, EngineKnown, OneLoader, Loads

LEMMA HandleKeepsThreads ==
    ASSUME Typed, ThreadsKnown, HandleCall
    PROVE  ThreadsKnown'
<1>1. UNCHANGED <<engine, supported, job, overlooked, llm, at>>
  BY HandlersLeave DEF Kept
<1>2. /\ at[Executor]' \in {"dispose", "free", "reset"} => JobDisposes'
      /\ EngineKnown => (llm' # "null" => engine')
  BY <1>1 DEF ThreadsKnown, JobDisposes, EngineKnown
<1>3. CASE UNCHANGED <<isLlmLoading, llmLoadError, loader>>
  BY <1>1, <1>2, <1>3 DEF ThreadsKnown, EngineKnown, OneLoader, Loads
<1>4. CASE HandleUnsupported
  <2>1. \A t \in Loaders : ~Loads(t)
    BY <1>4 DEF HandleUnsupported, ThreadsKnown
  <2>2. UNCHANGED <<isLlmLoading, loader>>
    BY <1>4 DEF HandleUnsupported
  <2> QED BY <1>1, <1>2, <2>1, <2>2 DEF ThreadsKnown, EngineKnown, OneLoader, Loads
<1>5. CASE supported /\ ~isLlmLoading /\ StartLoader
  <2>1. PICK t \in Loaders : loader[t] = "unused" /\ loader' = [loader EXCEPT ![t] = "prepare"]
    BY <1>5 DEF StartLoader
  <2>2. isLlmLoading' /\ ~llmLoadError'
    BY <1>5 DEF StartLoader
  <2>3. /\ loader'[t] = "prepare"
        /\ \A u \in Loaders \ {t} : loader'[u] = loader[u]
    BY <2>1 DEF Typed, KotlinTyped
  <2>4. \A u \in Loaders : Loads(u)' => supported'
    BY <1>1, <1>5
  <2>5. ASSUME ~overlooked' PROVE (EngineKnown /\ OneLoader)'
    <3>1. EngineKnown /\ OneLoader
      BY <1>1, <2>5 DEF ThreadsKnown
    <3>2. \A u \in Loaders : ~Loads(u)
      BY <1>5, <3>1 DEF OneLoader
    <3> QED BY <1>1, <1>2, <2>2, <2>3, <3>1, <3>2 DEF EngineKnown, OneLoader, Loads
  <2> QED BY <1>2, <2>4, <2>5 DEF ThreadsKnown
<1>6. \/ UNCHANGED <<isLlmLoading, llmLoadError, loader>>
      \/ HandleUnsupported
      \/ supported /\ ~isLlmLoading /\ StartLoader
  BY DEF HandleCall, HandleInitialize, HandleGetStatus, HandleDispose, HandleGenerate
<1> QED BY <1>3, <1>4, <1>5, <1>6

LEMMA PostedKeepsThreads ==
    ASSUME Typed, ThreadsKnown, RunPosted
    PROVE  ThreadsKnown'
<1>1. UNCHANGED <<job, supported, loader, llmLoadError, native>>
  BY DEF RunPosted, mainThread
<1>2. CASE UNCHANGED <<engine, isLlmLoading, overlooked>>
  BY <1>1, <1>2 DEF ThreadsKnown, JobDisposes, EngineKnown, OneLoader, Loads, native
<1>3. CASE /\ ~isLlmLoading'
           /\ overlooked' = (overlooked \/ llm # "null" \/ \E t \in Loaders : loader[t] # "unused")
  <2>1. ~overlooked' => llm' = "null" /\ \A t \in Loaders : loader'[t] = "unused"
    BY <1>1, <1>3 DEF native
  <2>2. ~overlooked' => (EngineKnown /\ OneLoader)'
    BY <1>3, <2>1 DEF EngineKnown, OneLoader, Loads
  <2> QED BY <1>1, <2>2 DEF ThreadsKnown, JobDisposes, Loads, native
<1> QED BY <1>2, <1>3 DEF RunPosted

LEMMA ExecutorKeepsThreads ==
    ASSUME Typed, ThreadsKnown, ExecutorStep
    PROVE  ThreadsKnown'
<1> USE ThreadsAssumption
<1>0. at \in [Threads -> LoaderPlaces \union ExecutorPlaces]
  BY DEF Typed, IInv, NativeTypeOK
<1>1. UNCHANGED <<engine, isLlmLoading, llmLoadError, loader, supported, overlooked>>
  BY DEF ExecutorStep, TakeJob, JobEnds, kotlin, mainThread
<1>2. llm' \in {llm, "null"}
  BY DEF ExecutorStep, TakeJob, JobEnds, CallDispose, CallGenerate, Returns, DisposeStep, GenerateStep,
         LockForDispose, FreeLlm, ResetContext, DestroyContext, DisposeLlm, EnterGenerate, Respond,
         ResponseEnds
<1>3. (EngineKnown => EngineKnown') /\ (OneLoader => OneLoader')
  BY <1>1, <1>2 DEF EngineKnown, OneLoader, Loads
<1>4. at'[Executor] \in {"dispose", "free", "reset"} => JobDisposes'
  <2>1. CASE TakeJob
    <3>1. jobs \in Seq(Jobs) /\ jobs # <<>>
      BY <2>1 DEF TakeJob, Typed, KotlinTyped
    <3>2. Head(jobs) \in Jobs
      BY <3>1
    <3>3. Head(jobs) # <<>> /\ job' = Head(jobs)
      BY <2>1, <3>2 DEF Jobs, TakeJob
    <3>4. at'[Executor] \in {"dispose", "free", "reset"} => Head(jobs)[1] = "dispose"
      BY <1>0, <2>1 DEF TakeJob, CallGenerate, Go
    <3> QED BY <3>3, <3>4 DEF JobDisposes
  <2>2. CASE JobEnds
    BY <1>0, <2>2 DEF JobEnds, Returns, Go
  <2>3. CASE (DisposeStep \/ GenerateStep) /\ UNCHANGED <<dart, channel, kotlin>>
    <3>1. job' = job
      BY <2>3 DEF kotlin
    <3>2. at'[Executor] \in {"dispose", "free", "reset"} =>
              at[Executor] \in {"dispose", "free", "reset"}
      BY <1>0, <2>3 DEF DisposeStep, GenerateStep, LockForDispose, FreeLlm, ResetContext,
                        EnterGenerate, Respond, ResponseEnds, Go
    <3> QED BY <3>1, <3>2 DEF ThreadsKnown, JobDisposes
  <2> QED BY <2>1, <2>2, <2>3 DEF ExecutorStep
<1> QED BY <1>1, <1>3, <1>4 DEF ThreadsKnown, Loads

LEMMA LoaderKeepsThreads ==
    ASSUME Typed, ThreadsKnown, NEW t \in Loaders, LoaderStep(t)
    PROVE  ThreadsKnown'
<1> USE ThreadsAssumption
<1>0. /\ at \in [Threads -> LoaderPlaces \union ExecutorPlaces]
      /\ loader \in [Loaders -> LoaderStates]
      /\ \A u \in Loaders : loader[u] = "native" <=> at[u] # "idle"
  BY DEF Typed, IInv, NativeTypeOK, KotlinTyped, CallersWait
<1>1. UNCHANGED <<supported, job, overlooked>> /\ at'[Executor] = at[Executor]
  BY <1>0 DEF LoaderStep, Prepare, CallEngine, CallLoad, EngineReturns, Returns, ContextLoadStep,
              LockForLoad, EnterLoad, RefuseLoad, CreateLlm, LoadWeights, LoadReturns, Go, kotlin, mainThread, native
<1>2. Loads(t)
  BY <1>0 DEF LoaderStep, Prepare, CallEngine, EngineReturns, ContextLoadStep, LockForLoad, EnterLoad,
              RefuseLoad, CreateLlm, LoadWeights, Loads
<1>3. /\ \A u \in Loaders \ {t} : loader'[u] = loader[u]
      /\ \/ loader'[t] \in {"call", "native"} /\ UNCHANGED <<isLlmLoading, llmLoadError>>
         \/ loader'[t] = "unused" /\ ~isLlmLoading'
  <2>1. CASE Prepare(t)
    BY <1>0, <2>1 DEF Prepare, LoaderEnds, LoaderGoes
  <2>2. CASE CallEngine(t)
    BY <1>0, <2>2 DEF CallEngine, LoaderEnds, LoaderGoes
  <2>3. CASE EngineReturns(t)
    BY <1>0, <2>3 DEF EngineReturns, LoaderEnds, LoaderGoes
  <2>4. CASE ContextLoadStep(t) /\ UNCHANGED <<dart, channel, kotlin>>
    <3>1. loader[t] = "native"
      BY <1>0, <2>4 DEF ContextLoadStep, LockForLoad, EnterLoad, RefuseLoad, CreateLlm, LoadWeights
    <3> QED BY <2>4, <3>1 DEF kotlin
  <2> QED BY <2>1, <2>2, <2>3, <2>4 DEF LoaderStep
<1>4. \A u \in Loaders : Loads(u)' => Loads(u)
  BY <1>2, <1>3 DEF Loads
<1>5. ASSUME ~overlooked PROVE (EngineKnown /\ OneLoader)'
  <2>0. EngineKnown /\ OneLoader
    BY <1>5 DEF ThreadsKnown
  <2>1. \A u \in Loaders \ {t} : ~Loads(u) /\ ~Loads(u)'
    BY <1>2, <1>3, <2>0 DEF OneLoader, Loads
  <2>2. OneLoader'
    BY <1>2, <1>3, <2>0, <2>1 DEF OneLoader, Loads
  <2>3. EngineKnown'
    <3>1. CASE Prepare(t)
      BY <1>0, <1>3, <2>0, <2>1, <3>1
         DEF Prepare, LoaderEnds, LoaderGoes, EngineKnown, Loads, native
    <3>2. CASE CallEngine(t)
      <4>1. llm' = llm /\ engine' = engine
        BY <3>2 DEF CallEngine, CallLoad, native
      <4> QED BY <1>0, <1>3, <2>0, <2>1, <3>2, <4>1
              DEF CallEngine, LoaderEnds, LoaderGoes, EngineKnown, Loads
    <3>3. CASE EngineReturns(t)
      <4>1. llm' = llm /\ engine' = engine /\ loader'[t] = "unused"
        BY <1>0, <3>3 DEF EngineReturns, Returns, LoaderEnds, LoaderGoes
      <4> QED BY <2>0, <2>1, <4>1 DEF EngineKnown, Loads
    <3>4. CASE ContextLoadStep(t) /\ UNCHANGED <<dart, channel, kotlin>>
      <4>1. loader[t] = "native"
        BY <1>0, <3>4 DEF ContextLoadStep, LockForLoad, EnterLoad, RefuseLoad, CreateLlm, LoadWeights
      <4>2. engine /\ engine' = engine /\ loader' = loader
        BY <2>0, <3>4, <4>1 DEF EngineKnown, kotlin
      <4> QED BY <2>1, <4>1, <4>2 DEF EngineKnown, Loads
    <3> QED BY <3>1, <3>2, <3>3, <3>4 DEF LoaderStep
  <2> QED BY <2>2, <2>3
<1> QED BY <1>1, <1>4, <1>5 DEF ThreadsKnown, JobDisposes

LEMMA ThreadsStep == Typed /\ ThreadsKnown /\ [Next]_vars => ThreadsKnown'
<1> SUFFICES ASSUME Typed, ThreadsKnown, [Next]_vars PROVE ThreadsKnown'
  OBVIOUS
<1>1. CASE UNCHANGED <<kotlin, native>>
  BY <1>1 DEF kotlin, mainThread, native, ThreadsKnown, JobDisposes, EngineKnown, OneLoader, Loads
<1>2. CASE DartStep
  BY <1>1, <1>2, DartStepTyped DEF Typed
<1>3. CASE UNCHANGED vars
  BY <1>1, <1>3 DEF vars
<1> QED BY <1>2, <1>3, AskingKeepsThreads, HandleKeepsThreads, PostedKeepsThreads,
           ExecutorKeepsThreads, LoaderKeepsThreads DEF Next, DartStep

-------------------------------------------------------------------------------
(* Calls and answers, one by one *)

LEMMA AppendElements ==
    ASSUME NEW S, NEW s \in Seq(S), NEW e \in S
    PROVE  /\ \A i \in DOMAIN s : i \in DOMAIN Append(s, e) /\ Append(s, e)[i] = s[i]
           /\ Len(s) + 1 \in DOMAIN Append(s, e) /\ Append(s, e)[Len(s) + 1] = e
           /\ \A i \in DOMAIN Append(s, e) : i \in DOMAIN s \/ i = Len(s) + 1
OBVIOUS

LEMMA TailElements ==
    ASSUME NEW S, NEW s \in Seq(S), s # <<>>
    PROVE  /\ 1 \in DOMAIN s /\ Head(s) = s[1]
           /\ \A i \in DOMAIN Tail(s) : i + 1 \in DOMAIN s /\ i + 1 # 1 /\ Tail(s)[i] = s[i + 1]
           /\ \A i \in DOMAIN s : i = 1 \/ (i - 1 \in DOMAIN Tail(s) /\ Tail(s)[i - 1] = s[i])
OBVIOUS

CallsOf(g) == {i \in DOMAIN calls : calls[i].from = LoadOf(g)}
RepliesTo(g) == {i \in DOMAIN replies : replies[i].to = LoadOf(g)}

(* The load of g is told nothing new, and what it was told may be gone. *)
KeepsCalls(g) ==
    \E k \in {0, 1} : \A i \in CallsOf(g)' : i + k \in CallsOf(g) /\ calls'[i] = calls[i + k]
KeepsReplies(g) ==
    \E k \in {0, 1} : \A i \in RepliesTo(g)' : i + k \in RepliesTo(g) /\ replies'[i] = replies[i + k]

LEMMA OriginsDiffer ==
    /\ \A g, h \in Generations : LoadOf(g) = LoadOf(h) => g = h
    /\ \A g, h \in Generations : LoadOf(g) # DisposalOf(h)
    /\ \A g \in Generations, r \in Recognitions : LoadOf(g) # RecognitionOf(r)
BY DEF LoadOf, DisposalOf, RecognitionOf

LEMMA SameKeeps ==
    ASSUME ChannelTyped, NEW g
    PROVE  /\ UNCHANGED calls => KeepsCalls(g)
           /\ UNCHANGED replies => KeepsReplies(g)
<1>1. CallsOf(g) \subseteq Nat /\ RepliesTo(g) \subseteq Nat
  BY DEF CallsOf, RepliesTo, ChannelTyped
<1>2. ASSUME UNCHANGED calls PROVE KeepsCalls(g)
  <2>1. \A i \in CallsOf(g)' : i + 0 \in CallsOf(g) /\ calls'[i] = calls[i + 0]
    BY <1>1, <1>2 DEF CallsOf
  <2> QED BY <2>1 DEF KeepsCalls
<1>3. ASSUME UNCHANGED replies PROVE KeepsReplies(g)
  <2>1. \A i \in RepliesTo(g)' : i + 0 \in RepliesTo(g) /\ replies'[i] = replies[i + 0]
    BY <1>1, <1>3 DEF RepliesTo
  <2> QED BY <2>1 DEF KeepsReplies
<1> QED BY <1>2, <1>3

LEMMA SendingAppends ==
    ASSUME ChannelTyped, NEW method \in Methods, NEW from \in Origins, Sends(method, from)
    PROVE  /\ calls'[Len(calls) + 1] = Call(method, from)
           /\ \A i \in DOMAIN calls : i \in DOMAIN calls' /\ calls'[i] = calls[i]
           /\ \A i \in DOMAIN calls' : i \in DOMAIN calls \/ i = Len(calls) + 1
           /\ Len(calls) + 1 \in DOMAIN calls'
<1>1. calls \in Seq(Calls) /\ Call(method, from) \in Calls
  BY DEF ChannelTyped, Call, Calls
<1>2. calls' = Append(calls, Call(method, from))
  BY DEF Sends
<1> QED BY <1>1, <1>2, AppendElements

LEMMA SendingKeeps ==
    ASSUME ChannelTyped, NEW method \in Methods, NEW from \in Origins, Sends(method, from),
           NEW g \in Generations
    PROVE  /\ from # LoadOf(g) => KeepsCalls(g)
           /\ CallsOf(g) = {} => \A i \in CallsOf(g)' : i = Len(calls) + 1
<1>1. /\ Call(method, from).from = from
      /\ calls'[Len(calls) + 1] = Call(method, from)
      /\ \A i \in DOMAIN calls : i \in DOMAIN calls' /\ calls'[i] = calls[i]
      /\ \A i \in DOMAIN calls' : i \in DOMAIN calls \/ i = Len(calls) + 1
  BY SendingAppends DEF Call
<1>2. CallsOf(g) = {} => \A i \in CallsOf(g)' : i = Len(calls) + 1
  BY <1>1 DEF CallsOf
<1>3. ASSUME from # LoadOf(g) PROVE KeepsCalls(g)
  <2>1. \A i \in CallsOf(g)' : i \in CallsOf(g) /\ calls'[i] = calls[i]
    BY <1>1, <1>3 DEF CallsOf
  <2>2. CallsOf(g) \subseteq Nat
    BY DEF CallsOf, ChannelTyped
  <2>3. \A i \in CallsOf(g)' : i + 0 \in CallsOf(g) /\ calls'[i] = calls[i + 0]
    BY <2>1, <2>2
  <2> QED BY <2>3 DEF KeepsCalls
<1> QED BY <1>2, <1>3

LEMMA TakingKeeps ==
    ASSUME ChannelTyped, calls # <<>>, calls' = Tail(calls), NEW g \in Generations
    PROVE  /\ KeepsCalls(g)
           /\ From = LoadOf(g) => 1 \in CallsOf(g) /\ Head(calls) = calls[1]
           /\ (\A i, j \in CallsOf(g) : i = j) /\ From = LoadOf(g) => CallsOf(g)' = {}
<1>1. /\ 1 \in DOMAIN calls /\ Head(calls) = calls[1]
      /\ \A i \in DOMAIN calls' : i + 1 \in DOMAIN calls /\ i + 1 # 1 /\ calls'[i] = calls[i + 1]
  BY TailElements DEF ChannelTyped
<1>2. \A i \in CallsOf(g)' : i + 1 \in CallsOf(g) /\ i + 1 # 1 /\ calls'[i] = calls[i + 1]
  BY <1>1 DEF CallsOf
<1>3. From = LoadOf(g) => 1 \in CallsOf(g)
  BY <1>1 DEF CallsOf, From
<1> QED BY <1>1, <1>2, <1>3 DEF KeepsCalls

LEMMA ReplyingKeeps ==
    ASSUME ChannelTyped, NEW to \in Origins, NEW status \in StatusType, Replies(to, status),
           NEW g \in Generations
    PROVE  /\ to # LoadOf(g) => KeepsReplies(g)
           /\ RepliesTo(g) = {} => \A i \in RepliesTo(g)' : i = Len(replies) + 1
           /\ replies'[Len(replies) + 1].status = status
<1>1. /\ replies \in Seq(Answers) /\ [to |-> to, status |-> status] \in Answers
      /\ replies' = Append(replies, [to |-> to, status |-> status])
  BY DEF ChannelTyped, Answers, Replies
<1>2. /\ replies'[Len(replies) + 1] = [to |-> to, status |-> status]
      /\ \A i \in DOMAIN replies : i \in DOMAIN replies' /\ replies'[i] = replies[i]
      /\ \A i \in DOMAIN replies' : i \in DOMAIN replies \/ i = Len(replies) + 1
  BY <1>1, AppendElements
<1>3. RepliesTo(g) = {} => \A i \in RepliesTo(g)' : i = Len(replies) + 1
  BY <1>2 DEF RepliesTo
<1>4. ASSUME to # LoadOf(g) PROVE KeepsReplies(g)
  <2>1. \A i \in RepliesTo(g)' : i \in RepliesTo(g) /\ replies'[i] = replies[i]
    BY <1>2, <1>4 DEF RepliesTo
  <2>2. RepliesTo(g) \subseteq Nat
    BY <1>1 DEF RepliesTo
  <2>3. \A i \in RepliesTo(g)' : i + 0 \in RepliesTo(g) /\ replies'[i] = replies[i + 0]
    BY <2>1, <2>2
  <2> QED BY <2>3 DEF KeepsReplies
<1> QED BY <1>2, <1>3, <1>4

LEMMA AnsweredKeeps ==
    ASSUME ChannelTyped, NEW from \in Origins, Answered(from), NEW g \in Generations
    PROVE  /\ KeepsReplies(g)
           /\ from = LoadOf(g) => 1 \in RepliesTo(g) /\ Status = replies[1].status
           /\ (\A i, j \in RepliesTo(g) : i = j) /\ from = LoadOf(g) => RepliesTo(g)' = {}
<1>1. replies # <<>> /\ replies' = Tail(replies) /\ Head(replies).to = from
  BY DEF Answered
<1>2. /\ 1 \in DOMAIN replies /\ Head(replies) = replies[1]
      /\ \A i \in DOMAIN replies' : i + 1 \in DOMAIN replies /\ i + 1 # 1 /\ replies'[i] = replies[i + 1]
  BY <1>1, TailElements DEF ChannelTyped
<1>3. \A i \in RepliesTo(g)' : i + 1 \in RepliesTo(g) /\ i + 1 # 1 /\ replies'[i] = replies[i + 1]
  BY <1>2 DEF RepliesTo
<1>4. from = LoadOf(g) => 1 \in RepliesTo(g) /\ Status = replies[1].status
  BY <1>1, <1>2 DEF RepliesTo, Status
<1> QED BY <1>3, <1>4 DEF KeepsReplies

(***************************************************************************)
(* A load has one call or answer under way at most, and while it waits for *)
(* no answer it has none; until it frees the model nothing of the executor *)
(* is its own.                                                             *)
(***************************************************************************)
Resting == {"none", "scheduled", "delay", "stale delay"}
Asking == {"initialize", "status", "stale status"}

AskedBy(place) == IF place = "initialize" THEN "initialize" ELSE "getStatus"

(* It is still to find out what there is, and to decide. *)
Decides(g) == load[g] \in Resting \union Asking

NoWork(from) ==
    /\ \A i \in DOMAIN jobs : jobs[i][2] # from
    /\ \A i \in DOMAIN posted : posted[i][2] # from
    /\ job # <<>> => job[2] # from

LettersOf(g) ==
    Decides(g) =>
        /\ NoWork(LoadOf(g))
        /\ load[g] \in Resting => CallsOf(g) = {} /\ RepliesTo(g) = {}
        /\ load[g] \in Asking => \A i \in CallsOf(g) : calls[i].method = AskedBy(load[g])
        /\ CallsOf(g) = {} \/ RepliesTo(g) = {}
        /\ \A i, j \in CallsOf(g) : i = j
        /\ \A i, j \in RepliesTo(g) : i = j

InitialCalls ==
    \A i \in DOMAIN calls :
        calls[i].method = "initialize" =>
            \E g \in Generations : calls[i].from = LoadOf(g) /\ load[g] = "initialize"

Letters == InitialCalls /\ \A g \in Generations : LettersOf(g)

LEMMA LettersKept ==
    ASSUME ChannelTyped', NEW g \in Generations, LettersOf(g), load'[g] = load[g],
           NoWork(LoadOf(g)) /\ Decides(g) => NoWork(LoadOf(g))', KeepsCalls(g), KeepsReplies(g)
    PROVE  LettersOf(g)'
<1> SUFFICES ASSUME Decides(g)' PROVE LettersOf(g)'
  BY DEF LettersOf
<1>1. PICK k \in {0, 1} : \A i \in CallsOf(g)' : i + k \in CallsOf(g) /\ calls'[i] = calls[i + k]
  BY DEF KeepsCalls
<1>2. PICK m \in {0, 1} : \A i \in RepliesTo(g)' :
          i + m \in RepliesTo(g) /\ replies'[i] = replies[i + m]
  BY DEF KeepsReplies
<1>3. CallsOf(g)' \subseteq Nat /\ RepliesTo(g)' \subseteq Nat
  BY DEF CallsOf, RepliesTo, ChannelTyped
<1>4. Decides(g)
  BY DEF Decides
<1> QED BY <1>1, <1>2, <1>3, <1>4 DEF LettersOf, Decides

(* A handler takes one call, and answers it, hands it on or posts the end. *)
LEMMA HandlerTakesOne ==
    ASSUME Typed, HandleCall
    PROVE  /\ calls # <<>> /\ calls' = Tail(calls) /\ From \in Origins
           /\ load' = load /\ job' = job
           /\ \/ /\ Head(calls).method \in {"initialize", "getStatus"}
                 /\ \E status \in StatusType : Replies(From, status)
                 /\ UNCHANGED <<jobs, posted>>
              \/ /\ Head(calls).method = "disposeLlm"
                 /\ \/ engine /\ jobs' = Append(jobs, <<"dispose", From>>) /\ UNCHANGED posted
                    \/ ~engine /\ posted' = Append(posted, <<"complete", From>>) /\ UNCHANGED jobs
                 /\ UNCHANGED replies
              \/ /\ Head(calls).method = "generate"
                 /\ jobs' = jobs \/ jobs' = Append(jobs, <<"generate", From>>)
                 /\ replies' = replies \/ Replies(From, Nothing)
                 /\ UNCHANGED posted
<1>0. ChannelTyped /\ KotlinTyped /\ Nothing \in StatusType
  BY StatusesTyped DEF Typed
<1>1. CASE HandleUnsupported
  BY <1>0, <1>1, TakingTyped, StatusesTyped DEF HandleUnsupported, Takes, dart
<1>2. CASE HandleInitialize
  <2>1. \E status \in StatusType : Replies(From, status)
    BY <1>2, StatusesTyped DEF HandleInitialize
  <2> QED BY <1>0, <1>2, <2>1, TakingTyped DEF HandleInitialize, Takes, dart
<1>3. CASE HandleGetStatus
  <2>1. PICK ready \in BOOLEAN : Replies(From, StatusFor(ready))
    BY <1>3 DEF HandleGetStatus
  <2>2. StatusFor(ready) \in StatusType
    BY <1>0, StatusesTyped DEF KotlinTyped, Told, StatusFor
  <2> QED BY <1>0, <1>3, <2>1, <2>2, TakingTyped DEF HandleGetStatus, Takes, dart, kotlin
<1>4. CASE HandleDispose
  BY <1>0, <1>4, TakingTyped DEF HandleDispose, Takes, dart
<1>5. CASE HandleGenerate
  BY <1>0, <1>5, TakingTyped DEF HandleGenerate, Takes, dart
<1> QED BY <1>1, <1>2, <1>3, <1>4, <1>5 DEF HandleCall

LEMMA AppendNoWork ==
    ASSUME KotlinTyped, NEW from, NEW to \in Origins, from # to, NoWork(from)
    PROVE  /\ \A kind \in {"dispose", "generate"} :
                \A i \in DOMAIN Append(jobs, <<kind, to>>) : Append(jobs, <<kind, to>>)[i][2] # from
           /\ \A i \in DOMAIN Append(posted, <<"complete", to>>) :
                Append(posted, <<"complete", to>>)[i][2] # from
<1>1. ASSUME NEW kind \in {"dispose", "generate"}, NEW i \in DOMAIN Append(jobs, <<kind, to>>)
      PROVE  Append(jobs, <<kind, to>>)[i][2] # from
  <2>1. jobs \in Seq(Jobs) /\ <<kind, to>> \in Jobs
    BY DEF KotlinTyped, Jobs
  <2>2. \/ i \in DOMAIN jobs /\ Append(jobs, <<kind, to>>)[i] = jobs[i]
        \/ Append(jobs, <<kind, to>>)[i] = <<kind, to>>
    BY <2>1, AppendElements
  <2> QED BY <2>2 DEF NoWork
<1>2. ASSUME NEW i \in DOMAIN Append(posted, <<"complete", to>>)
      PROVE  Append(posted, <<"complete", to>>)[i][2] # from
  <2>1. posted \in Seq(Posts) /\ <<"complete", to>> \in Posts
    BY DEF KotlinTyped, Posts
  <2>2. \/ i \in DOMAIN posted /\ Append(posted, <<"complete", to>>)[i] = posted[i]
        \/ Append(posted, <<"complete", to>>)[i] = <<"complete", to>>
    BY <2>1, AppendElements
  <2> QED BY <2>2 DEF NoWork
<1> QED BY <1>1, <1>2

LEMMA HandleKeepsLetters ==
    ASSUME Typed, Typed', Letters, HandleCall
    PROVE  Letters'
<1>0. /\ ChannelTyped /\ ChannelTyped' /\ KotlinTyped
      /\ calls # <<>> /\ calls' = Tail(calls) /\ From \in Origins /\ load' = load /\ job' = job
  BY HandlerTakesOne DEF Typed
<1>1. InitialCalls'
  <2>1. \A i \in DOMAIN calls' : i + 1 \in DOMAIN calls /\ calls'[i] = calls[i + 1]
    BY <1>0, TailElements DEF ChannelTyped
  <2> QED BY <1>0, <2>1 DEF Letters, InitialCalls
<1>2. ASSUME NEW g \in Generations PROVE LettersOf(g)'
  <2>0. LettersOf(g)
    BY DEF Letters
  <2>1. /\ KeepsCalls(g)
        /\ From = LoadOf(g) => 1 \in CallsOf(g) /\ Head(calls) = calls[1]
        /\ (\A i, j \in CallsOf(g) : i = j) /\ From = LoadOf(g) => CallsOf(g)' = {}
    BY <1>0, TakingKeeps
  <2>2. From = LoadOf(g) /\ Decides(g) =>
            /\ load[g] \in Asking /\ RepliesTo(g) = {} /\ CallsOf(g)' = {}
            /\ Head(calls).method \in {"initialize", "getStatus"}
    BY <2>0, <2>1 DEF LettersOf, Decides, AskedBy
  <2>3. CASE ~Decides(g)
    BY <1>0, <2>3 DEF LettersOf, Decides
  <2>4. CASE Decides(g) /\ From # LoadOf(g)
    <3>1. KeepsReplies(g)
      <4>1. replies' = replies \/ \E status \in StatusType : Replies(From, status)
        BY HandlerTakesOne, StatusesTyped
      <4> QED BY <1>0, <2>4, <4>1, SameKeeps, ReplyingKeeps
    <3>2. NoWork(LoadOf(g)) => NoWork(LoadOf(g))'
      <4>1. /\ jobs' = jobs \/ \E kind \in {"dispose", "generate"} : jobs' = Append(jobs, <<kind, From>>)
            /\ posted' = posted \/ posted' = Append(posted, <<"complete", From>>)
        BY HandlerTakesOne
      <4>2. SUFFICES ASSUME NoWork(LoadOf(g)) PROVE NoWork(LoadOf(g))'
        OBVIOUS
      <4>3. \A i \in DOMAIN jobs' : jobs'[i][2] # LoadOf(g)
        BY <1>0, <2>4, <4>1, <4>2, AppendNoWork DEF NoWork
      <4>4. \A i \in DOMAIN posted' : posted'[i][2] # LoadOf(g)
        BY <1>0, <2>4, <4>1, <4>2, AppendNoWork DEF NoWork
      <4> QED BY <1>0, <4>2, <4>3, <4>4 DEF NoWork, LoadOf
    <3> QED BY <1>0, <2>0, <2>1, <3>1, <3>2, LettersKept
  <2>5. CASE Decides(g) /\ From = LoadOf(g)
    <3>1. /\ UNCHANGED <<jobs, posted>>
          /\ \E status \in StatusType : Replies(From, status)
      BY <2>2, <2>5, HandlerTakesOne
    <3>2. \A i, j \in RepliesTo(g)' : i = j
      BY <1>0, <2>2, <2>5, <3>1, ReplyingKeeps
    <3>3. NoWork(LoadOf(g))'
      BY <1>0, <2>0, <2>5, <3>1 DEF LettersOf, NoWork, LoadOf
    <3>4. load[g] \notin Resting
      BY <2>2, <2>5 DEF Resting, Asking
    <3> QED BY <1>0, <2>2, <2>5, <3>2, <3>3, <3>4 DEF LettersOf
  <2> QED BY <2>3, <2>4, <2>5
<1> QED BY <1>1, <1>2 DEF Letters

LEMMA PostedKeepsLetters ==
    ASSUME Typed, Typed', Letters, RunPosted
    PROVE  Letters'
<1>0. /\ ChannelTyped /\ ChannelTyped' /\ KotlinTyped /\ UNCHANGED <<load, calls, jobs, job>>
      /\ posted \in Seq(Posts) /\ posted # <<>>
  BY DEF Typed, KotlinTyped, RunPosted, dart
<1>1. /\ 1 \in DOMAIN posted /\ Head(posted) = posted[1] /\ Head(posted) \in Posts
      /\ Tail(posted) \in Seq(Posts)
      /\ \A i \in DOMAIN Tail(posted) : i + 1 \in DOMAIN posted /\ Tail(posted)[i] = posted[i + 1]
  BY <1>0, TailElements
<1>2. Head(posted)[2] \in Origins /\ <<"complete", Head(posted)[2]>> \in Posts
  BY <1>1 DEF Posts
<1>3. InitialCalls'
  BY <1>0 DEF Letters, InitialCalls
<1>4. ASSUME NEW g \in Generations PROVE LettersOf(g)'
  <2>0. LettersOf(g)
    BY DEF Letters
  <2>1. CASE ~Decides(g)
    BY <1>0, <2>1 DEF LettersOf, Decides
  <2>2. CASE Decides(g)
    <3>1. Head(posted)[2] # LoadOf(g) /\ NoWork(LoadOf(g))
      BY <1>1, <2>0, <2>2 DEF LettersOf, NoWork
    <3>2. KeepsReplies(g)
      <4>1. replies' = replies \/ Replies(Head(posted)[2], Nothing)
        BY DEF RunPosted
      <4> QED BY <1>0, <1>2, <3>1, <4>1, SameKeeps, ReplyingKeeps, StatusesTyped
    <3>3. \A i \in DOMAIN posted' : posted'[i][2] # LoadOf(g)
      <4>1. \A i \in DOMAIN Tail(posted) : Tail(posted)[i][2] # LoadOf(g)
        BY <1>1, <3>1 DEF NoWork
      <4>2. CASE posted' = Tail(posted)
        BY <4>1, <4>2
      <4>3. CASE posted' = Append(Tail(posted), <<"complete", Head(posted)[2]>>)
        <5>1. ASSUME NEW i \in DOMAIN posted' PROVE posted'[i][2] # LoadOf(g)
          <6>1. \/ i \in DOMAIN Tail(posted) /\ posted'[i] = Tail(posted)[i]
                \/ posted'[i] = <<"complete", Head(posted)[2]>>
            BY <1>1, <1>2, <4>3, AppendElements
          <6> QED BY <3>1, <4>1, <6>1
        <5> QED BY <5>1
      <4> QED BY <4>2, <4>3 DEF RunPosted
    <3>4. NoWork(LoadOf(g))'
      BY <1>0, <3>1, <3>3 DEF NoWork, LoadOf
    <3> QED BY <1>0, <2>0, <3>2, <3>4, SameKeeps, LettersKept
  <2> QED BY <2>1, <2>2
<1> QED BY <1>3, <1>4 DEF Letters

LEMMA ThreadsKeepLetters ==
    ASSUME Typed, Typed', Letters, ExecutorStep \/ \E t \in Loaders : LoaderStep(t)
    PROVE  Letters'
<1>0. /\ ChannelTyped /\ ChannelTyped' /\ KotlinTyped /\ UNCHANGED <<load, calls, replies>>
  BY DEF Typed, ExecutorStep, TakeJob, JobEnds, LoaderStep, dart, channel
<1>1. InitialCalls'
  BY <1>0 DEF Letters, InitialCalls
<1>2. ASSUME NEW from, NoWork(from) PROVE NoWork(from)'
  <2>1. CASE TakeJob
    <3>1. jobs \in Seq(Jobs) /\ jobs # <<>> /\ jobs' = Tail(jobs) /\ job' = Head(jobs) /\ posted' = posted
      BY <2>1 DEF TakeJob, Typed, KotlinTyped
    <3>2. /\ 1 \in DOMAIN jobs /\ Head(jobs) = jobs[1]
          /\ \A i \in DOMAIN Tail(jobs) : i + 1 \in DOMAIN jobs /\ Tail(jobs)[i] = jobs[i + 1]
      BY <3>1, TailElements
    <3> QED BY <1>2, <3>1, <3>2 DEF NoWork
  <2>2. CASE JobEnds
    <3>1. job \in Jobs /\ posted \in Seq(Posts) /\ job # <<>>
      BY <2>2 DEF JobEnds, Typed, KotlinTyped
    <3>2. <<IF job[1] = "dispose" THEN "freed" ELSE "complete", job[2]>> \in Posts
      BY <3>1 DEF Jobs, Posts
    <3>3. \A i \in DOMAIN posted' : posted'[i][2] # from
      <4>1. ASSUME NEW i \in DOMAIN posted' PROVE posted'[i][2] # from
        <5>1. \/ i \in DOMAIN posted /\ posted'[i] = posted[i]
              \/ posted'[i] = <<IF job[1] = "dispose" THEN "freed" ELSE "complete", job[2]>>
          BY <2>2, <3>1, <3>2, AppendElements DEF JobEnds
        <5> QED BY <1>2, <3>1, <5>1 DEF NoWork
      <4> QED BY <4>1
    <3> QED BY <1>2, <2>2, <3>3 DEF JobEnds, NoWork
  <2>3. CASE UNCHANGED <<jobs, job, posted>>
    BY <1>2, <2>3 DEF NoWork
  <2> QED BY <2>1, <2>2, <2>3 DEF ExecutorStep, LoaderStep, kotlin
<1>3. ASSUME NEW g \in Generations PROVE LettersOf(g)'
  <2>1. NoWork(LoadOf(g)) => NoWork(LoadOf(g))'
    BY <1>2 DEF NoWork, LoadOf
  <2> QED BY <1>0, <2>1, SameKeeps, LettersKept DEF Letters
<1> QED BY <1>1, <1>3 DEF Letters

(* A load goes on with a call, waits, or has decided. *)
LEMMA LoadGoesOn ==
    ASSUME DartTyped, NEW g \in Generations, LoadAnswered(g) \/ LoadStep(g)
    PROVE  /\ \A h \in Generations \ {g} : load'[h] = load[h]
           /\ \/ LoadAnswered(g) /\ load[g] \in Asking \union {"stale dispose"}
              \/ LoadStep(g) /\ load[g] \in Resting /\ UNCHANGED replies
           /\ \/ /\ Decides(g) /\ load'[g] \in Asking
                 /\ load'[g] = "initialize" => load[g] = "scheduled"
                 /\ Sends(AskedBy(load'[g]), LoadOf(g))
              \/ Decides(g) /\ load'[g] \in {"delay", "stale delay"} /\ UNCHANGED calls
              \/ /\ load'[g] \notin Resting \union Asking
                 /\ UNCHANGED calls \/ Sends("disposeLlm", LoadOf(g))
<1> USE DEF Resting, Asking, AskedBy, Decides, MovesLoad, DartTyped
<1>1. ASSUME StalePolls(g), Decides(g)
      PROVE  /\ \A h \in Generations \ {g} : load'[h] = load[h]
             /\ load'[g] \in Asking /\ load'[g] # "initialize" /\ Sends(AskedBy(load'[g]), LoadOf(g))
  BY <1>1 DEF StalePolls
<1>2. ASSUME StaleDecides(g)
      PROVE  /\ \A h \in Generations \ {g} : load'[h] = load[h]
             /\ load'[g] \notin Resting \union Asking
             /\ UNCHANGED calls \/ Sends("disposeLlm", LoadOf(g))
  BY <1>2 DEF StaleDecides
<1>3. CASE LoadStep(g)
  <2>1. CASE LoadStarts(g)
    BY <1>3, <2>1 DEF LoadStarts
  <2>2. CASE LoadPolls(g)
    BY <1>1, <1>3, <2>2 DEF LoadPolls
  <2>3. CASE StaleDelayEnds(g)
    BY <1>1, <1>2, <1>3, <2>3 DEF StaleDelayEnds
  <2> QED BY <1>3, <2>1, <2>2, <2>3 DEF LoadStep
<1>4. CASE LoadAnswered(g)
  <2>1. CASE InitializeAnswered(g)
    <3>1. CASE ~IsCurrentLoad(g)
      BY <1>1, <1>4, <2>1, <3>1 DEF InitializeAnswered
    <3>2. CASE IsCurrentLoad(g)
      BY <1>4, <2>1, <3>2 DEF InitializeAnswered
    <3> QED BY <3>1, <3>2
  <2>2. CASE LoadStatusAnswered(g)
    <3>1. CASE ~IsCurrentLoad(g)
      BY <1>1, <1>4, <2>2, <3>1 DEF LoadStatusAnswered
    <3>2. CASE IsCurrentLoad(g)
      BY <1>4, <2>2, <3>2 DEF LoadStatusAnswered
    <3> QED BY <3>1, <3>2
  <2>3. CASE StaleStatusAnswered(g)
    BY <1>2, <1>4, <2>3 DEF StaleStatusAnswered
  <2>4. CASE StaleDisposeAnswered(g)
    BY <1>4, <2>4 DEF StaleDisposeAnswered
  <2> QED BY <1>4, <2>1, <2>2, <2>3, <2>4 DEF LoadAnswered
<1> QED BY <1>3, <1>4

LEMMA LoadKeepsLetters ==
    ASSUME Typed, Typed', Letters, NEW g \in Generations, LoadAnswered(g) \/ LoadStep(g)
    PROVE  Letters'
<1>0. /\ ChannelTyped /\ ChannelTyped' /\ DartTyped /\ UNCHANGED <<jobs, job, posted>>
      /\ LoadOf(g) \in Origins /\ "disposeLlm" \in Methods /\ LettersOf(g)
      /\ \A place : AskedBy(place) \in Methods
  BY OriginsTyped DEF Typed, LoadAnswered, LoadStep, LoadStarts, LoadPolls, StaleDelayEnds, kotlin,
                      Methods, AskedBy, Letters
<1>1. calls' = calls \/ \E method \in Methods : Sends(method, LoadOf(g))
  BY <1>0, LoadGoesOn
<1>2. ASSUME NEW h \in Generations \ {g} PROVE LettersOf(h)'
  <2>1. KeepsReplies(h)
    BY <1>0, LoadGoesOn, SameKeeps, AnsweredKeeps DEF LoadAnswered
  <2>2. KeepsCalls(h)
    BY <1>0, <1>1, SameKeeps, SendingKeeps, OriginsDiffer
  <2>3. load'[h] = load[h] /\ LettersOf(h)
    BY <1>0, LoadGoesOn DEF Letters
  <2>4. NoWork(LoadOf(h)) => NoWork(LoadOf(h))'
    BY <1>0 DEF NoWork, LoadOf
  <2> QED BY <1>0, <2>1, <2>2, <2>3, <2>4, LettersKept
<1>3. Decides(g) => CallsOf(g) = {} /\ RepliesTo(g)' = {}
  <2>1. CASE LoadAnswered(g) /\ load[g] \in Asking \union {"stale dispose"}
    <3>1. 1 \in RepliesTo(g)
      BY <1>0, <2>1, AnsweredKeeps DEF LoadAnswered
    <3>2. Decides(g) => (\A i, j \in RepliesTo(g) : i = j) /\ CallsOf(g) = {}
      BY <1>0, <3>1 DEF LettersOf
    <3> QED BY <1>0, <2>1, <3>2, AnsweredKeeps DEF LoadAnswered
  <2>2. CASE LoadStep(g) /\ load[g] \in Resting /\ UNCHANGED replies
    BY <1>0, <2>2 DEF LettersOf, RepliesTo, LoadOf
  <2> QED BY <1>0, <2>1, <2>2, LoadGoesOn
<1>4. LettersOf(g)'
  <2>1. CASE Decides(g) /\ load'[g] \in Asking /\ Sends(AskedBy(load'[g]), LoadOf(g))
    <3>1. /\ \A i \in CallsOf(g)' : i = Len(calls) + 1
          /\ calls'[Len(calls) + 1].method = AskedBy(load'[g])
      <4>1. AskedBy(load'[g]) \in Methods
        BY <1>0
      <4>2. /\ \A i \in CallsOf(g)' : i = Len(calls) + 1
            /\ calls'[Len(calls) + 1] = Call(AskedBy(load'[g]), LoadOf(g))
        BY <1>0, <1>3, <2>1, <4>1, SendingKeeps, SendingAppends
      <4> QED BY <4>2 DEF Call
    <3>2. NoWork(LoadOf(g))'
      BY <1>0, <2>1 DEF LettersOf, NoWork, LoadOf
    <3>3. load'[g] \notin Resting
      BY <2>1 DEF Asking, Resting
    <3> QED BY <1>3, <2>1, <3>1, <3>2, <3>3 DEF LettersOf
  <2>2. CASE Decides(g) /\ load'[g] \in {"delay", "stale delay"} /\ UNCHANGED calls
    <3>1. CallsOf(g)' = {}
      BY <1>3, <2>2 DEF CallsOf, LoadOf
    <3>2. NoWork(LoadOf(g))'
      BY <1>0, <2>2 DEF LettersOf, NoWork, LoadOf
    <3> QED BY <1>3, <2>2, <3>1, <3>2 DEF LettersOf, Asking
  <2>3. CASE load'[g] \notin Resting \union Asking
    BY <2>3 DEF LettersOf, Decides
  <2> QED BY <1>0, <2>1, <2>2, <2>3, LoadGoesOn
<1>5. InitialCalls'
  <2>1. ASSUME NEW i \in DOMAIN calls, calls[i].method = "initialize"
        PROVE  \E h \in Generations : calls[i].from = LoadOf(h) /\ load'[h] = "initialize"
    <3>1. PICK h \in Generations : calls[i].from = LoadOf(h) /\ load[h] = "initialize"
      BY <2>1 DEF Letters, InitialCalls
    <3>2. h # g
      BY <1>3, <3>1 DEF CallsOf, Decides, Asking
    <3> QED BY <1>0, <3>1, <3>2, LoadGoesOn
  <2>2. CASE calls' = calls
    BY <2>1, <2>2 DEF InitialCalls
  <2>3. ASSUME NEW method \in Methods, Sends(method, LoadOf(g)),
               method = "initialize" => load'[g] = "initialize"
        PROVE  InitialCalls'
    <3>1. /\ \A i \in DOMAIN calls : calls'[i] = calls[i]
          /\ \A i \in DOMAIN calls' : i \in DOMAIN calls \/ i = Len(calls) + 1
          /\ calls'[Len(calls) + 1].method = method /\ calls'[Len(calls) + 1].from = LoadOf(g)
      <4>1. calls'[Len(calls) + 1] = Call(method, LoadOf(g))
        BY <1>0, <2>3, SendingAppends
      <4>2. calls'[Len(calls) + 1].method = method /\ calls'[Len(calls) + 1].from = LoadOf(g)
        BY <4>1 DEF Call
      <4> QED BY <1>0, <2>3, <4>2, SendingAppends
    <3>2. ASSUME NEW i \in DOMAIN calls', calls'[i].method = "initialize"
          PROVE  \E h \in Generations : calls'[i].from = LoadOf(h) /\ load'[h] = "initialize"
      BY <2>1, <2>3, <3>1, <3>2
    <3> QED BY <3>2 DEF InitialCalls, LoadOf
  <2>4. \/ calls' = calls
        \/ \E method \in Methods : /\ Sends(method, LoadOf(g))
                                   /\ method = "initialize" => load'[g] = "initialize"
    BY <1>0, LoadGoesOn DEF AskedBy
  <2> QED BY <2>2, <2>3, <2>4
<1> QED BY <1>2, <1>4, <1>5 DEF Letters

(* A disposal or a recognition calls and is answered; it may begin a load. *)
Outsiders == {from \in Origins : \A g \in Generations : from # LoadOf(g)}

OutsiderCalls ==
    \/ UNCHANGED calls
    \/ \E method \in Methods \ {"initialize"}, from \in Outsiders : Sends(method, from)

LoadMayBegin(g) == load'[g] = load[g] \/ (load[g] = "none" /\ load'[g] = "scheduled")

OutsiderStep ==
    /\ \A g \in Generations : LoadMayBegin(g)
    /\ OutsiderCalls
    /\ \/ UNCHANGED replies
       \/ \E from \in Outsiders : Answered(from)
    /\ UNCHANGED <<kotlin, native>>

LEMMA OutsidersStep ==
    ASSUME DartTyped, LoadsKnown, [Next]_vars, DartStep
    PROVE  \/ OutsiderStep
           \/ \E g \in Generations : LoadAnswered(g) \/ LoadStep(g)
<1>1. /\ \A r \in Recognitions : RecognitionOf(r) \in Outsiders
      /\ \A g \in Generations : DisposalOf(g) \in Outsiders
  BY OriginsTyped, OriginsDiffer DEF Outsiders
<1>2. {"getStatus", "disposeLlm", "generate"} \subseteq Methods \ {"initialize"}
  BY DEF Methods
<1>3. ASSUME Initialize PROVE \A g \in Generations : LoadMayBegin(g)
  <2>1. generation' \in Generations /\ generation' > generation
    BY <1>3, LlmAssumption DEF Initialize, DartTyped, Generations
  <2>2. load[generation'] = "none"
    BY <2>1 DEF LoadsKnown
  <2> QED BY <1>3, <2>1, <2>2 DEF Initialize, MovesLoad, DartTyped, LoadMayBegin
<1>4. UNCHANGED load => \A g \in Generations : LoadMayBegin(g)
  BY DEF LoadMayBegin
<1>5. CASE UserLoads
  BY <1>3, <1>5 DEF UserLoads, OutsiderStep, OutsiderCalls, channel
<1>6. CASE UserDisposes
  <2>1. generation' \in Generations
    BY <1>6, LlmAssumption DEF UserDisposes, DartTyped, Generations
  <2>2. OutsiderCalls
    BY <1>1, <1>2, <1>6, <2>1 DEF UserDisposes, OutsiderCalls
  <2> QED BY <1>4, <1>6, <2>2 DEF UserDisposes, OutsiderStep
<1>7. ASSUME NEW g \in Generations, DisposeAnswered(g) PROVE OutsiderStep
  BY <1>1, <1>4, <1>7 DEF DisposeAnswered, OutsiderStep, OutsiderCalls
<1>8. \A r \in Recognitions :
          \/ Generates(r) \/ Asks(r) \/ GivesUp(r)
          \/ MovesRecognition(r, "delay") /\ UNCHANGED calls
          => OutsiderCalls
  BY <1>1, <1>2 DEF Generates, Asks, GivesUp, OutsiderCalls
<1>9. ASSUME NEW r \in Recognitions, RecognitionStarts(r) PROVE OutsiderStep
  <2>1. Generates(r) \/ Asks(r)
    BY <1>9 DEF RecognitionStarts
  <2>2. OutsiderCalls
    BY <1>8, <2>1, Zenon
  <2> QED BY <1>3, <1>4, <1>9, <2>2 DEF RecognitionStarts, OutsiderStep
<1>10. ASSUME NEW r \in Recognitions, RecognitionStep(r) PROVE OutsiderStep
  <2>1. Generates(r) \/ Asks(r) \/ GivesUp(r)
    BY <1>10 DEF RecognitionStep, RecognitionDelayEnds, RecognitionTimesOut
  <2>2. OutsiderCalls
    BY <1>8, <2>1, Zenon
  <2> QED BY <1>4, <1>10, <2>2
          DEF RecognitionStep, RecognitionDelayEnds, RecognitionTimesOut, OutsiderStep
<1>11. ASSUME NEW r \in Recognitions, RecognitionAnswered(r) PROVE OutsiderStep
  <2>1. \/ Generates(r) \/ GivesUp(r)
        \/ MovesRecognition(r, "delay") /\ UNCHANGED calls
    BY <1>11 DEF RecognitionAnswered, RecognitionStatusAnswered, TextAnswered
  <2>2. OutsiderCalls
    BY <1>8, <2>1, Zenon
  <2> QED BY <1>1, <1>4, <1>11, <2>2 DEF RecognitionAnswered, OutsiderStep
<1> QED BY <1>5, <1>6, <1>7, <1>9, <1>10, <1>11 DEF DartStep, ReplyHandled, TimerFires

LEMMA OutsiderKeepsLetters ==
    ASSUME Typed, Typed', Letters, OutsiderStep
    PROVE  Letters'
<1>0. /\ ChannelTyped /\ ChannelTyped' /\ UNCHANGED <<jobs, job, posted>>
      /\ \A g \in Generations : LettersOf(g)
  BY DEF Typed, OutsiderStep, kotlin, Letters
<1>1. ASSUME NEW g \in Generations PROVE LettersOf(g)' /\ KeepsCalls(g) /\ KeepsReplies(g)
  <2>1. KeepsCalls(g)
    BY <1>0, SameKeeps, SendingKeeps DEF OutsiderStep, OutsiderCalls, Outsiders
  <2>2. KeepsReplies(g)
    BY <1>0, SameKeeps, AnsweredKeeps DEF OutsiderStep, Outsiders
  <2>3. NoWork(LoadOf(g)) => NoWork(LoadOf(g))'
    BY <1>0 DEF NoWork, LoadOf
  <2>4. CASE load'[g] = load[g]
    BY <1>0, <2>1, <2>2, <2>3, <2>4, LettersKept
  <2>5. CASE load[g] = "none" /\ load'[g] = "scheduled"
    <3>1. /\ CallsOf(g) = {} /\ RepliesTo(g) = {} /\ NoWork(LoadOf(g))'
      BY <1>0, <2>3, <2>5 DEF LettersOf, Decides, Resting
    <3>2. CallsOf(g)' = {} /\ RepliesTo(g)' = {}
      BY <2>1, <2>2, <3>1 DEF KeepsCalls, KeepsReplies
    <3>3. load'[g] \notin Asking
      BY <2>5 DEF Asking
    <3> QED BY <2>1, <2>2, <3>1, <3>2, <3>3 DEF LettersOf
  <2> QED BY <2>1, <2>2, <2>4, <2>5 DEF OutsiderStep, LoadMayBegin
<1>2. InitialCalls'
  <2>1. ASSUME NEW i \in DOMAIN calls, calls[i].method = "initialize"
        PROVE  \E h \in Generations : calls[i].from = LoadOf(h) /\ load'[h] = "initialize"
    BY <2>1 DEF Letters, InitialCalls, OutsiderStep, LoadMayBegin
  <2>2. CASE calls' = calls
    BY <2>1, <2>2 DEF InitialCalls
  <2>3. ASSUME NEW method \in Methods \ {"initialize"}, NEW from \in Outsiders, Sends(method, from)
        PROVE  InitialCalls'
    <3>1. /\ \A i \in DOMAIN calls : calls'[i] = calls[i]
          /\ \A i \in DOMAIN calls' : i \in DOMAIN calls \/ i = Len(calls) + 1
          /\ calls'[Len(calls) + 1] = Call(method, from)
      BY <1>0, <2>3, SendingAppends DEF Outsiders
    <3>2. Call(method, from).method # "initialize"
      BY DEF Call
    <3> QED BY <2>1, <3>1, <3>2 DEF InitialCalls, LoadOf
  <2> QED BY <2>2, <2>3 DEF OutsiderStep, OutsiderCalls
<1> QED BY <1>1, <1>2 DEF Letters

LEMMA LettersStep == Typed /\ Typed' /\ LoadsKnown /\ Letters /\ [Next]_vars => Letters'
<1> SUFFICES ASSUME Typed, Typed', LoadsKnown, Letters, [Next]_vars PROVE Letters'
  OBVIOUS
<1>1. CASE DartStep
  BY <1>1, OutsidersStep, OutsiderKeepsLetters, LoadKeepsLetters DEF Typed
<1>2. CASE UNCHANGED vars
  BY <1>2 DEF vars, dart, channel, kotlin, Letters, LettersOf, InitialCalls, CallsOf, RepliesTo, NoWork,
              Decides
<1>3. CASE AskEngine
  BY <1>3, AskingLeaves DEF dart, channel, Letters, LettersOf, InitialCalls, CallsOf, RepliesTo, NoWork,
                            Decides
<1> QED BY <1>1, <1>2, <1>3, HandleKeepsLetters, PostedKeepsLetters, ThreadsKeepLetters DEF Next, DartStep

-------------------------------------------------------------------------------
(* Who frees the model *)

DisposeCalled == \E i \in DOMAIN calls : calls[i].method = "disposeLlm"

(* The executor has a disposal to do, does it, or has said that it is done. *)
Disposing ==
    \/ \E i \in DOMAIN jobs : jobs[i][1] = "dispose"
    \/ JobDisposes
    \/ \E i \in DOMAIN posted : posted[i][1] = "freed"

StillDecides(g) == Decides(g) /\ load[g] # "none"

(* A load of Dart that knows, or will be told, that a thread loads. *)
SawLoading(g) ==
    /\ load[g] \in Asking \union {"delay", "stale delay"}
    /\ \A i \in RepliesTo(g) : ~LoadEnded(replies[i].status)
    /\ \A i \in CallsOf(g) : calls[i].method = "getStatus"

(***************************************************************************)
(* A disposal that comes before the engine is known does nothing, so that  *)
(* a thread which then prepares must have a load of Dart that sees it      *)
(* through.                                                                *)
(***************************************************************************)
Watched ==
    ~engine /\ (\E t \in Loaders : loader[t] = "prepare") =>
        Disposing \/ \E g \in Generations : SawLoading(g)

WillFree == DisposeCalled \/ Disposing \/ \E g \in Generations : StillDecides(g)

ModelAccounted == ~overlooked => Watched /\ (wanted = 0 /\ Holding => WillFree)

StartsLoader ==
    HandleInitialize /\ StartLoader /\ Replies(From, Answer("same", TRUE, FALSE))

LEMMA OverlookedStays == [Next]_vars /\ overlooked => overlooked'
<1> SUFFICES ASSUME [Next]_vars, overlooked PROVE overlooked'
  OBVIOUS
<1>1. CASE DartStep
  BY <1>1 DEF DartStep, UserLoads, UserDisposes, ReplyHandled, TimerFires, LoadAnswered, DisposeAnswered,
              RecognitionAnswered, LoadStep, LoadStarts, LoadPolls, StaleDelayEnds, RecognitionStep,
              RecognitionDelayEnds, RecognitionTimesOut, RecognitionStarts, kotlin
<1>2. CASE AskEngine \/ HandleCall
  BY <1>2, AskingLeaves, HandlersLeave
<1>3. CASE RunPosted
  BY <1>3 DEF RunPosted
<1>4. CASE ExecutorStep
  BY <1>4 DEF ExecutorStep, TakeJob, JobEnds, kotlin
<1>5. ASSUME NEW t \in Loaders, LoaderStep(t) PROVE overlooked'
  BY <1>5 DEF LoaderStep, kotlin
<1>6. CASE UNCHANGED vars
  BY <1>6 DEF vars, kotlin
<1> QED BY <1>1, <1>2, <1>3, <1>4, <1>5, <1>6 DEF Next, DartStep

LEMMA DartLeavesThreads ==
    ASSUME Typed, DartStep
    PROVE  UNCHANGED <<kotlin, native>>
BY DartStepTyped DEF Typed

(* There is something to free only after a thread has been started. *)
LEMMA HoldingStarts ==
    ASSUME Typed, [Next]_vars
    PROVE  /\ Holding' => Holding \/ StartsLoader
           /\ \A t \in Loaders : loader'[t] = "prepare" => loader[t] = "prepare" \/ StartsLoader
<1> USE ThreadsAssumption
<1>0. /\ at \in [Threads -> LoaderPlaces \union ExecutorPlaces]
      /\ loader \in [Loaders -> LoaderStates]
      /\ \A u \in Loaders : loader[u] = "native" <=> at[u] # "idle"
  BY DEF Typed, IInv, NativeTypeOK, KotlinTyped, CallersWait
<1>1. CASE UNCHANGED <<loader, llm>>
  BY <1>1 DEF Holding, Loads
<1>2. CASE DartStep
  BY <1>1, <1>2, DartLeavesThreads DEF kotlin, native
<1>3. CASE HandleCall
  <2>1. llm' = llm /\ (UNCHANGED loader \/ StartsLoader)
    <3>1. UNCHANGED loader \/ StartsLoader
      BY <1>3 DEF HandleCall, HandleUnsupported, HandleInitialize, HandleGetStatus, HandleDispose,
                  HandleGenerate, kotlin, StartsLoader
    <3> QED BY <1>3, <3>1, HandlersLeave DEF Kept
  <2> QED BY <1>1, <2>1
<1>4. CASE RunPosted
  BY <1>1, <1>4 DEF RunPosted, native
<1>5. CASE ExecutorStep
  <2>1. loader' = loader
    BY <1>5 DEF ExecutorStep, TakeJob, JobEnds, kotlin
  <2>2. llm' \in {llm, "null"}
    BY <1>5 DEF ExecutorStep, TakeJob, JobEnds, CallDispose, CallGenerate, Returns, DisposeStep,
         GenerateStep, LockForDispose, FreeLlm, ResetContext, DestroyContext, DisposeLlm, EnterGenerate,
         Respond, ResponseEnds
  <2> QED BY <2>1, <2>2 DEF Holding, Loads
<1>6. ASSUME NEW t \in Loaders, LoaderStep(t)
      PROVE  /\ Loads(t)
             /\ \A u \in Loaders : loader'[u] = "prepare" => loader[u] = "prepare"
  <2>1. CASE Prepare(t)
    BY <1>0, <2>1 DEF Prepare, LoaderEnds, LoaderGoes, Loads
  <2>2. CASE CallEngine(t)
    BY <1>0, <2>2 DEF CallEngine, LoaderEnds, LoaderGoes, Loads
  <2>3. CASE EngineReturns(t)
    BY <1>0, <2>3 DEF EngineReturns, LoaderEnds, LoaderGoes, Loads
  <2>4. CASE ContextLoadStep(t) /\ UNCHANGED <<dart, channel, kotlin>>
    BY <1>0, <2>4 DEF ContextLoadStep, LockForLoad, EnterLoad, RefuseLoad, CreateLlm, LoadWeights,
                      kotlin, Loads
  <2> QED BY <1>6, <2>1, <2>2, <2>3, <2>4 DEF LoaderStep
<1>7. CASE UNCHANGED vars
  BY <1>1, <1>7 DEF vars, kotlin, native
<1>8. CASE AskEngine
  BY <1>1, <1>8, AskingLeaves DEF Kept
<1> QED BY <1>2, <1>3, <1>4, <1>5, <1>6, <1>7, <1>8 DEF Next, DartStep, Holding

(* A disposal of the executor is not lost before the engine is forgotten. *)
LEMMA DisposingLasts ==
    ASSUME Typed, [Next]_vars, Disposing
    PROVE  Disposing' \/ (RunPosted /\ Head(posted)[1] = "freed")
<1>0. jobs \in Seq(Jobs) /\ posted \in Seq(Posts) /\ job \in Jobs \union {<<>>}
  BY DEF Typed, KotlinTyped
<1>1. CASE UNCHANGED <<jobs, job, posted>>
  BY <1>1 DEF Disposing, JobDisposes
<1>2. CASE DartStep
  BY <1>1, <1>2, DartLeavesThreads DEF kotlin
<1>3. CASE HandleCall
  <2>1. \A kind \in {"dispose", "generate"} : <<kind, From>> \in Jobs /\ <<"complete", From>> \in Posts
    BY <1>3, HandlerTakesOne DEF Jobs, Posts
  <2>2. \A i \in DOMAIN jobs : i \in DOMAIN jobs' /\ jobs'[i] = jobs[i]
    <3>1. jobs' = jobs \/ \E kind \in {"dispose", "generate"} : jobs' = Append(jobs, <<kind, From>>)
      BY <1>3, HandlerTakesOne
    <3> QED BY <1>0, <2>1, <3>1, AppendElements
  <2>3. \A i \in DOMAIN posted : i \in DOMAIN posted' /\ posted'[i] = posted[i]
    <3>1. posted' = posted \/ posted' = Append(posted, <<"complete", From>>)
      BY <1>3, HandlerTakesOne
    <3> QED BY <1>0, <2>1, <3>1, AppendElements
  <2>4. job' = job
    BY <1>3, HandlerTakesOne
  <2> QED BY <2>2, <2>3, <2>4 DEF Disposing, JobDisposes
<1>4. CASE RunPosted
  <2>1. SUFFICES ASSUME Head(posted)[1] # "freed" PROVE Disposing'
    BY <1>4
  <2>2. posted # <<>> /\ posted' = Tail(posted) /\ UNCHANGED <<jobs, job>>
    BY <1>4, <2>1 DEF RunPosted
  <2>3. \A i \in DOMAIN posted : posted[i][1] = "freed" =>
            i - 1 \in DOMAIN posted' /\ posted'[i - 1] = posted[i]
    BY <1>0, <2>1, <2>2, TailElements
  <2> QED BY <2>2, <2>3 DEF Disposing, JobDisposes
<1>5. CASE TakeJob
  <2>1. jobs # <<>> /\ jobs' = Tail(jobs) /\ job' = Head(jobs) /\ posted' = posted /\ job = <<>>
    BY <1>5 DEF TakeJob
  <2>2. /\ Head(jobs) \in Jobs /\ Head(jobs) = jobs[1]
        /\ \A i \in DOMAIN jobs : i = 1 \/ (i - 1 \in DOMAIN jobs' /\ jobs'[i - 1] = jobs[i])
    BY <1>0, <2>1, TailElements
  <2>3. job' # <<>>
    BY <2>1, <2>2 DEF Jobs
  <2> QED BY <2>1, <2>2, <2>3 DEF Disposing, JobDisposes
<1>6. CASE JobEnds
  <2>1. job \in Jobs /\ jobs' = jobs
        /\ posted' = Append(posted, <<IF job[1] = "dispose" THEN "freed" ELSE "complete", job[2]>>)
    BY <1>0, <1>6 DEF JobEnds
  <2>2. <<IF job[1] = "dispose" THEN "freed" ELSE "complete", job[2]>> \in Posts
    BY <2>1 DEF Jobs, Posts
  <2>3. /\ \A i \in DOMAIN posted : i \in DOMAIN posted' /\ posted'[i] = posted[i]
        /\ Len(posted) + 1 \in DOMAIN posted'
        /\ posted'[Len(posted) + 1] = <<IF job[1] = "dispose" THEN "freed" ELSE "complete", job[2]>>
    BY <1>0, <2>1, <2>2, AppendElements
  <2>4. JobDisposes => posted'[Len(posted) + 1][1] = "freed"
    BY <2>3 DEF JobDisposes
  <2> QED BY <2>1, <2>3, <2>4 DEF Disposing
<1>7. CASE \E t \in Loaders : LoaderStep(t)
  BY <1>1, <1>7 DEF LoaderStep, kotlin
<1>8. CASE UNCHANGED vars
  BY <1>1, <1>8 DEF vars, kotlin
<1>9. CASE (DisposeStep \/ GenerateStep) /\ UNCHANGED <<dart, channel, kotlin>>
  BY <1>1, <1>9 DEF kotlin
<1>10. CASE AskEngine
  BY <1>1, <1>10, AskingLeaves
<1> QED BY <1>2, <1>3, <1>4, <1>5, <1>6, <1>7, <1>8, <1>9, <1>10 DEF Next, DartStep, ExecutorStep

(* What makes MainActivity forget its engine finds nothing left to free. *)
LEMMA ForgettingFrees ==
    ASSUME RunPosted, Head(posted)[1] = "freed", ~overlooked'
    PROVE  ~Holding'
BY DEF RunPosted, native, Holding, Loads

LEMMA SawLoadingKept ==
    ASSUME NEW g \in Generations, SawLoading(g), load'[g] = load[g], KeepsCalls(g), KeepsReplies(g)
    PROVE  SawLoading(g)'
<1>1. PICK k \in {0, 1} : \A i \in CallsOf(g)' : i + k \in CallsOf(g) /\ calls'[i] = calls[i + k]
  BY DEF KeepsCalls
<1>2. PICK m \in {0, 1} : \A i \in RepliesTo(g)' :
          i + m \in RepliesTo(g) /\ replies'[i] = replies[i + m]
  BY DEF KeepsReplies
<1>3. \A i \in RepliesTo(g)' : ~LoadEnded(replies'[i].status)
  BY <1>2 DEF SawLoading
<1>4. \A i \in CallsOf(g)' : calls'[i].method = "getStatus"
  BY <1>1 DEF SawLoading
<1> QED BY <1>3, <1>4 DEF SawLoading, LoadEnded

(* The answer that starts a thread says so to the load that asked for it. *)
LEMMA StartIsSeen ==
    ASSUME Typed, Letters, StartsLoader
    PROVE  \E g \in Generations : SawLoading(g)' /\ StillDecides(g)'
<1>0. /\ ChannelTyped /\ calls # <<>> /\ calls' = Tail(calls) /\ From \in Origins /\ load' = load
      /\ Head(calls).method = "initialize"
      /\ Answer("same", TRUE, FALSE) \in StatusType
      /\ Replies(From, Answer("same", TRUE, FALSE))
  BY TakingTyped, StatusesTyped DEF Typed, StartsLoader, HandleInitialize, Takes, dart
<1>1. 1 \in DOMAIN calls /\ Head(calls) = calls[1]
  BY <1>0, TailElements DEF ChannelTyped
<1>2. PICK g \in Generations : From = LoadOf(g) /\ load[g] = "initialize"
  BY <1>0, <1>1 DEF Letters, InitialCalls, From
<1>3. LettersOf(g) /\ Decides(g) /\ load[g] \in Asking
  BY <1>2 DEF Letters, Decides, Asking
<1>4. CallsOf(g)' = {} /\ RepliesTo(g) = {}
  <2>1. 1 \in CallsOf(g)
    BY <1>0, <1>2, TakingKeeps
  <2>2. RepliesTo(g) = {} /\ \A i, j \in CallsOf(g) : i = j
    BY <1>3, <2>1 DEF LettersOf
  <2> QED BY <1>0, <1>2, <2>2, TakingKeeps
<1>5. \A i \in RepliesTo(g)' : replies'[i].status = Answer("same", TRUE, FALSE)
  BY <1>0, <1>2, <1>4, ReplyingKeeps
<1>6. ~LoadEnded(Answer("same", TRUE, FALSE))
  BY DEF LoadEnded, Answer
<1>7. SawLoading(g)'
  <2>1. \A i \in RepliesTo(g)' : ~LoadEnded(replies'[i].status)
    BY <1>5, <1>6
  <2> QED BY <1>0, <1>3, <1>4, <2>1 DEF SawLoading, LoadEnded
<1> QED BY <1>0, <1>2, <1>3, <1>7 DEF StillDecides, Decides

(* A load that knows of a thread goes on as long as the thread prepares. *)
LEMMA DartKeepsSeen ==
    ASSUME Typed, LoadsKnown, Letters, [Next]_vars, DartStep, NEW t \in Loaders, loader[t] = "prepare",
           NEW g \in Generations, SawLoading(g)
    PROVE  SawLoading(g)'
<1>0. ChannelTyped /\ DartTyped /\ LettersOf(g) /\ Decides(g) /\ load[g] # "none" /\ LoadOf(g) \in Origins
  BY OriginsTyped DEF Typed, Letters, SawLoading, Decides, Asking, Resting
<1>1. CASE OutsiderStep
  <2>1. load'[g] = load[g]
    BY <1>0, <1>1 DEF OutsiderStep, LoadMayBegin
  <2>2. KeepsCalls(g)
    BY <1>0, <1>1, SameKeeps, SendingKeeps DEF OutsiderStep, OutsiderCalls, Outsiders
  <2>3. KeepsReplies(g)
    BY <1>0, <1>1, SameKeeps, AnsweredKeeps DEF OutsiderStep, Outsiders
  <2> QED BY <2>1, <2>2, <2>3, SawLoadingKept
<1>2. ASSUME NEW h \in Generations, h # g, LoadAnswered(h) \/ LoadStep(h) PROVE SawLoading(g)'
  <2>0. LoadOf(h) \in Origins /\ "disposeLlm" \in Methods /\ \A place : AskedBy(place) \in Methods
    BY OriginsTyped DEF Methods, AskedBy
  <2>1. load'[g] = load[g]
    BY <1>0, <1>2, LoadGoesOn
  <2>2. calls' = calls \/ \E method \in Methods : Sends(method, LoadOf(h))
    BY <1>0, <1>2, <2>0, LoadGoesOn
  <2>3. KeepsCalls(g)
    BY <1>0, <1>2, <2>0, <2>2, SameKeeps, SendingKeeps, OriginsDiffer
  <2>4. KeepsReplies(g)
    BY <1>0, <1>2, <2>0, LoadGoesOn, SameKeeps, AnsweredKeeps DEF LoadAnswered
  <2> QED BY <2>1, <2>3, <2>4, SawLoadingKept
<1>3. ASSUME StalePolls(g) \/ (Sends("getStatus", LoadOf(g)) /\ MovesLoad(g, "status")),
             CallsOf(g) = {}, RepliesTo(g)' = {}
      PROVE  SawLoading(g)'
  <2>1. Sends("getStatus", LoadOf(g)) /\ load'[g] \in {"status", "stale status"}
    BY <1>0, <1>3 DEF StalePolls, MovesLoad, DartTyped
  <2>2. "getStatus" \in Methods
    BY DEF Methods
  <2>3. /\ \A i \in CallsOf(g)' : i = Len(calls) + 1
        /\ calls'[Len(calls) + 1] = Call("getStatus", LoadOf(g))
    BY <1>0, <1>3, <2>1, <2>2, SendingKeeps, SendingAppends
  <2>4. \A i \in CallsOf(g)' : calls'[i].method = "getStatus"
    BY <2>3 DEF Call
  <2> QED BY <1>3, <2>1, <2>4 DEF SawLoading, Asking
<1>4. ASSUME load'[g] \in {"delay", "stale delay"}, UNCHANGED calls, CallsOf(g) = {}, RepliesTo(g)' = {}
      PROVE  SawLoading(g)'
  <2>1. CallsOf(g)' = {}
    BY <1>4 DEF CallsOf, LoadOf
  <2> QED BY <1>4, <2>1 DEF SawLoading
<1>5. CASE LoadStep(g)
  <2>1. load[g] \in Resting /\ UNCHANGED replies
    <3>1. ~LoadAnswered(g) \/ load[g] \in Resting
      BY <1>5 DEF LoadStep, LoadStarts, LoadPolls, StaleDelayEnds, Resting
    <3> QED BY <1>0, <1>5, <3>1 DEF LoadStep, LoadStarts, LoadPolls, StaleDelayEnds, Resting
  <2>2. CallsOf(g) = {} /\ RepliesTo(g)' = {}
    BY <1>0, <2>1 DEF LettersOf, RepliesTo, LoadOf
  <2>3. ~OutOfPolls(g) /\ ~LoadStarts(g)
    BY DEF OutOfPolls, LoadStarts, SawLoading, Asking
  <2>4. StalePolls(g) \/ (Sends("getStatus", LoadOf(g)) /\ MovesLoad(g, "status"))
    BY <1>5, <2>3 DEF LoadStep, LoadPolls, StaleDelayEnds
  <2> QED BY <1>3, <2>2, <2>4
<1>6. CASE LoadAnswered(g)
  <2>1. 1 \in RepliesTo(g) /\ Status = replies[1].status
    BY <1>0, <1>6, AnsweredKeeps DEF LoadAnswered
  <2>2. CallsOf(g) = {} /\ RepliesTo(g)' = {}
    <3>1. CallsOf(g) = {} /\ \A i, j \in RepliesTo(g) : i = j
      BY <1>0, <2>1 DEF LettersOf
    <3> QED BY <1>0, <1>6, <3>1, AnsweredKeeps DEF LoadAnswered
  <2>3. ~LoadEnded(Status) /\ Status.loading /\ ~Status.error
    <3>1. ~LoadEnded(Status)
      BY <2>1 DEF SawLoading
    <3>2. Status \in StatusType
      BY <1>0, <1>6, AnswerTyped DEF LoadAnswered
    <3> QED BY <3>1, <3>2 DEF LoadEnded, StatusType
  <2>4. ~StaleDisposeAnswered(g)
    BY DEF StaleDisposeAnswered, SawLoading, Asking
  <2>5. CASE InitializeAnswered(g)
    <3>1. StalePolls(g) \/ (MovesLoad(g, "delay") /\ UNCHANGED calls)
      BY <2>3, <2>5 DEF InitializeAnswered
    <3> QED BY <1>0, <1>3, <1>4, <2>2, <3>1 DEF MovesLoad, DartTyped
  <2>6. CASE LoadStatusAnswered(g)
    <3>1. StalePolls(g) \/ (MovesLoad(g, "delay") /\ UNCHANGED calls)
      BY <2>3, <2>6 DEF LoadStatusAnswered
    <3> QED BY <1>0, <1>3, <1>4, <2>2, <3>1 DEF MovesLoad, DartTyped
  <2>7. CASE StaleStatusAnswered(g)
    BY <1>0, <1>4, <2>2, <2>3, <2>7 DEF StaleStatusAnswered, MovesLoad, DartTyped
  <2> QED BY <1>6, <2>4, <2>5, <2>6, <2>7 DEF LoadAnswered
<1> QED BY <1>0, <1>1, <1>2, <1>5, <1>6, OutsidersStep

(* It is told of the thread when it asks again. *)
LEMMA HandlerKeepsSeen ==
    ASSUME Typed, ThreadsKnown, ~overlooked, ~engine, Letters, HandleCall,
           NEW t \in Loaders, loader[t] = "prepare", NEW g \in Generations, SawLoading(g)
    PROVE  SawLoading(g)'
<1>0. /\ ChannelTyped /\ LettersOf(g) /\ Decides(g)
      /\ calls # <<>> /\ calls' = Tail(calls) /\ From \in Origins /\ load' = load
  BY HandlerTakesOne DEF Typed, Letters, SawLoading, Decides, Asking, Resting
<1>1. KeepsCalls(g)
  BY <1>0, TakingKeeps
<1>2. CASE From # LoadOf(g)
  <2>1. KeepsReplies(g)
    <3>1. replies' = replies \/ \E status \in StatusType : Replies(From, status)
      BY HandlerTakesOne, StatusesTyped
    <3> QED BY <1>0, <1>2, <3>1, SameKeeps, ReplyingKeeps
  <2> QED BY <1>0, <1>1, <2>1, SawLoadingKept
<1>3. CASE From = LoadOf(g)
  <2>1. 1 \in CallsOf(g) /\ Head(calls) = calls[1]
    BY <1>0, <1>3, TakingKeeps
  <2>2. Head(calls).method = "getStatus"
    BY <2>1 DEF SawLoading
  <2>3. RepliesTo(g) = {} /\ CallsOf(g)' = {}
    <3>1. RepliesTo(g) = {} /\ \A i, j \in CallsOf(g) : i = j
      BY <1>0, <2>1 DEF LettersOf
    <3> QED BY <1>0, <1>3, <3>1, TakingKeeps
  <2>4. HandleGetStatus
    BY <2>2 DEF HandleCall, HandleUnsupported, HandleInitialize, HandleDispose, HandleGenerate, Takes
  <2>5. PICK ready \in BOOLEAN : EngineAnswers(ready) /\ Replies(From, StatusFor(ready))
    BY <2>4 DEF HandleGetStatus
  <2>6. isLlmLoading /\ ~llmLoadError
    BY DEF ThreadsKnown, OneLoader, Loads
  <2>7. ~ready /\ StatusFor(ready) = Answer("no", TRUE, FALSE)
    BY <2>5, <2>6 DEF EngineAnswers, StatusFor, Told, Typed, KotlinTyped
  <2>8. StatusFor(ready) \in StatusType /\ ~LoadEnded(StatusFor(ready))
    BY <2>7 DEF LoadEnded, Answer, StatusType
  <2>9. \A i \in RepliesTo(g)' : replies'[i].status = StatusFor(ready)
    BY <1>0, <1>3, <2>3, <2>5, <2>8, ReplyingKeeps
  <2>10. \A i \in RepliesTo(g)' : ~LoadEnded(replies'[i].status)
    BY <2>8, <2>9
  <2> QED BY <1>0, <2>3, <2>10 DEF SawLoading, LoadEnded
<1> QED BY <1>2, <1>3

LEMMA ThreadsKeepSeen ==
    ASSUME Typed, Letters, RunPosted \/ ExecutorStep \/ \E t \in Loaders : LoaderStep(t),
           NEW g \in Generations, SawLoading(g)
    PROVE  SawLoading(g)'
<1>0. ChannelTyped /\ LettersOf(g) /\ Decides(g) /\ load' = load /\ calls' = calls
  BY DEF Typed, Letters, SawLoading, Decides, Asking, Resting, RunPosted, ExecutorStep, TakeJob, JobEnds,
         LoaderStep, dart, channel
<1>1. KeepsReplies(g)
  <2>1. CASE replies' = replies
    BY <1>0, <2>1, SameKeeps
  <2>2. CASE RunPosted /\ Replies(Head(posted)[2], Nothing)
    <3>1. posted \in Seq(Posts) /\ posted # <<>>
      BY <2>2 DEF RunPosted, Typed, KotlinTyped
    <3>2. 1 \in DOMAIN posted /\ Head(posted) = posted[1] /\ Head(posted) \in Posts
      BY <3>1, TailElements
    <3>3. Head(posted)[2] \in Origins /\ Head(posted)[2] # LoadOf(g)
      BY <1>0, <3>2 DEF Posts, LettersOf, NoWork
    <3> QED BY <1>0, <2>2, <3>3, StatusesTyped, ReplyingKeeps
  <2> QED BY <2>1, <2>2 DEF RunPosted, ExecutorStep, TakeJob, JobEnds, LoaderStep, channel
<1> QED BY <1>0, <1>1, SameKeeps, SawLoadingKept

LEMMA WatchedStep ==
    ASSUME Typed, ThreadsKnown, LoadsKnown, Letters, Watched, ~overlooked', ~overlooked, [Next]_vars
    PROVE  Watched'
<1> SUFFICES ASSUME ~engine', NEW t \in Loaders, loader'[t] = "prepare"
             PROVE  Disposing' \/ \E g \in Generations : SawLoading(g)'
  BY DEF Watched
<1>1. CASE StartsLoader
  BY <1>1, StartIsSeen
<1>2. ASSUME loader[t] = "prepare" PROVE ~engine /\ ~(RunPosted /\ Head(posted)[1] = "freed")
  <2>1. ~(RunPosted /\ Head(posted)[1] = "freed")
    BY <1>2, ForgettingFrees DEF Holding, Loads
  <2> SUFFICES ~engine
    BY <2>1
  <2>2. CASE RunPosted
    BY <2>1, <2>2 DEF RunPosted
  <2>3. CASE DartStep
    BY <2>3, DartLeavesThreads DEF kotlin
  <2>4. CASE AskEngine \/ HandleCall
    BY <2>4, AskingLeaves, HandlersLeave
  <2>5. CASE ExecutorStep
    BY <2>5 DEF ExecutorStep, TakeJob, JobEnds, kotlin
  <2>6. ASSUME NEW u \in Loaders, LoaderStep(u) PROVE ~engine
    BY <2>6 DEF LoaderStep, Prepare, CallEngine, EngineReturns, kotlin, Typed, KotlinTyped
  <2>7. CASE UNCHANGED vars
    BY <2>7 DEF vars, kotlin
  <2> QED BY <2>1, <2>2, <2>3, <2>4, <2>5, <2>6, <2>7 DEF Next, DartStep
<1>3. CASE loader[t] = "prepare" /\ Disposing
  BY <1>2, <1>3, DisposingLasts
<1>4. ASSUME loader[t] = "prepare", NEW g \in Generations, SawLoading(g)
      PROVE  SawLoading(g)'
  <2>1. CASE UNCHANGED vars
    BY <1>4, <2>1 DEF vars, dart, channel, SawLoading, RepliesTo, CallsOf, LoadEnded
  <2>2. CASE AskEngine
    BY <1>4, <2>2, AskingLeaves DEF dart, channel, SawLoading, RepliesTo, CallsOf, LoadEnded
  <2> QED BY <1>2, <1>4, <2>1, <2>2, DartKeepsSeen, HandlerKeepsSeen, ThreadsKeepSeen DEF Next, DartStep
<1>5. loader[t] = "prepare" \/ StartsLoader
  BY HoldingStarts
<1> QED BY <1>1, <1>2, <1>3, <1>4, <1>5 DEF Watched

(* Once unwanted, a load that still decides frees the model. *)
LEMMA DeciderLasts ==
    ASSUME Typed, LoadsKnown, [Next]_vars, wanted = 0, NEW g \in Generations, StillDecides(g)
    PROVE  StillDecides(g)' \/ DisposeCalled'
<1>0. ChannelTyped /\ DartTyped /\ Decides(g) /\ load[g] # "none" /\ ~IsCurrentLoad(g)
      /\ LoadOf(g) \in Origins /\ "disposeLlm" \in Methods
  BY OriginsTyped DEF Typed, StillDecides, IsCurrentLoad, Generations, Methods
<1>1. CASE load'[g] = load[g]
  BY <1>0, <1>1 DEF StillDecides, Decides
<1>2. CASE LoadAnswered(g) \/ LoadStep(g)
  <2>1. CASE load'[g] \in Asking \union {"delay", "stale delay"}
    BY <2>1 DEF StillDecides, Decides, Asking, Resting
  <2>2. CASE StaleDecides(g)
    <3>1. Sends("disposeLlm", LoadOf(g))
      BY <2>2 DEF StaleDecides
    <3>2. /\ calls'[Len(calls) + 1] = Call("disposeLlm", LoadOf(g))
          /\ Len(calls) + 1 \in DOMAIN calls'
      BY <1>0, <3>1, SendingAppends
    <3> QED BY <3>2 DEF DisposeCalled, Call
  <2>3. StalePolls(g) => load'[g] \in Asking
    BY <1>0 DEF StalePolls, MovesLoad, DartTyped, Asking
  <2>4. CASE LoadStep(g)
    <3>1. LoadStarts(g) => load'[g] \in Asking
      BY <1>0 DEF LoadStarts, MovesLoad, DartTyped, Asking
    <3>2. LoadPolls(g) => StalePolls(g)
      BY <1>0 DEF LoadPolls
    <3>3. StaleDelayEnds(g) => StaleDecides(g) \/ StalePolls(g)
      BY DEF StaleDelayEnds
    <3> QED BY <2>1, <2>2, <2>3, <2>4, <3>1, <3>2, <3>3 DEF LoadStep
  <2>5. CASE LoadAnswered(g)
    <3>1. InitializeAnswered(g) \/ LoadStatusAnswered(g) => StalePolls(g)
      BY <1>0 DEF InitializeAnswered, LoadStatusAnswered
    <3>2. StaleStatusAnswered(g) => StaleDecides(g) \/ load'[g] = "stale delay"
      BY <1>0 DEF StaleStatusAnswered, MovesLoad, DartTyped
    <3>3. ~StaleDisposeAnswered(g)
      BY <1>0 DEF StaleDisposeAnswered, Decides, Asking, Resting
    <3> QED BY <2>1, <2>2, <2>3, <2>5, <3>1, <3>2, <3>3 DEF LoadAnswered
  <2> QED BY <1>2, <2>4, <2>5
<1>3. CASE DartStep
  <2>1. OutsiderStep => load'[g] = load[g]
    BY <1>0 DEF OutsiderStep, LoadMayBegin
  <2>2. ASSUME NEW h \in Generations, h # g, LoadAnswered(h) \/ LoadStep(h) PROVE load'[g] = load[g]
    BY <1>0, <2>2, LoadGoesOn
  <2> QED BY <1>0, <1>1, <1>2, <1>3, <2>1, <2>2, OutsidersStep
<1>4. CASE ~DartStep
  <2>1. load' = load
    BY <1>4, DartAlone DEF dart
  <2> QED BY <1>1, <2>1
<1> QED BY <1>3, <1>4

(* A called disposal reaches the executor, or finds a thread that another  *)
(* one sees through, or nothing.                                           *)
LEMMA DisposeCallLasts ==
    ASSUME Typed, ThreadsKnown, Watched, ~overlooked, [Next]_vars, DisposeCalled, Holding'
    PROVE  WillFree'
<1>0. ChannelTyped /\ KotlinTyped /\ DartTyped
  BY DEF Typed
<1>1. PICK i \in DOMAIN calls : calls[i].method = "disposeLlm"
  BY DEF DisposeCalled
<1>2. CASE calls' = calls
  BY <1>2 DEF DisposeCalled, WillFree
<1>3. CASE DartStep
  <2>1. calls' = calls \/ \E method \in Methods, from \in Origins : Sends(method, from)
    <3>1. OutsiderStep => calls' = calls \/ \E method \in Methods, from \in Origins : Sends(method, from)
      BY DEF OutsiderStep, OutsiderCalls, Outsiders
    <3>2. ASSUME NEW g \in Generations, LoadAnswered(g) \/ LoadStep(g)
          PROVE  calls' = calls \/ \E method \in Methods, from \in Origins : Sends(method, from)
      <4>1. LoadOf(g) \in Origins /\ "disposeLlm" \in Methods /\ \A place : AskedBy(place) \in Methods
        BY OriginsTyped DEF Methods, AskedBy
      <4> QED BY <1>0, <3>2, <4>1, LoadGoesOn
    <3>3. UserLoads \/ UserDisposes \/ (\E g \in Generations : DisposeAnswered(g)) =>
              calls' = calls \/ \E method \in Methods, from \in Origins : Sends(method, from)
      <4>1. UserDisposes => DisposalOf(generation') \in Origins /\ "disposeLlm" \in Methods
        BY <1>0, LlmAssumption, OriginsTyped DEF UserDisposes, DartTyped, Generations, Methods
      <4> QED BY <4>1 DEF UserLoads, UserDisposes, DisposeAnswered, channel
    <3>4. ASSUME NEW r \in Recognitions,
                 RecognitionStarts(r) \/ RecognitionStep(r) \/ RecognitionAnswered(r)
          PROVE  calls' = calls \/ \E method \in Methods, from \in Origins : Sends(method, from)
      <4>1. \/ Generates(r) \/ Asks(r) \/ GivesUp(r)
            \/ UNCHANGED calls
        BY <3>4 DEF RecognitionStarts, RecognitionStep, RecognitionDelayEnds, RecognitionTimesOut,
                    RecognitionAnswered, RecognitionStatusAnswered, TextAnswered
      <4>2. RecognitionOf(r) \in Origins /\ "generate" \in Methods /\ "getStatus" \in Methods
        BY OriginsTyped DEF Methods
      <4> QED BY <4>1, <4>2 DEF Generates, Asks, GivesUp
    <3> QED BY <1>3, <3>2, <3>3, <3>4 DEF DartStep, ReplyHandled, TimerFires
  <2>2. i \in DOMAIN calls' /\ calls'[i] = calls[i]
    BY <1>0, <1>1, <2>1, SendingAppends
  <2> QED BY <1>1, <2>2 DEF DisposeCalled, WillFree
<1>4. CASE HandleCall
  <2>1. calls # <<>> /\ calls' = Tail(calls) /\ From \in Origins
    BY <1>4, HandlerTakesOne
  <2>2. /\ i = 1 \/ (i - 1 \in DOMAIN calls' /\ calls'[i - 1] = calls[i])
        /\ Head(calls) = calls[1]
    BY <1>0, <1>1, <2>1, TailElements DEF ChannelTyped
  <2>3. CASE Head(calls).method # "disposeLlm"
    BY <1>1, <2>2, <2>3 DEF DisposeCalled, WillFree
  <2>4. CASE Head(calls).method = "disposeLlm" /\ engine
    <3>1. jobs' = Append(jobs, <<"dispose", From>>)
      BY <1>4, <2>4, HandlerTakesOne
    <3>2. jobs \in Seq(Jobs) /\ <<"dispose", From>> \in Jobs
      BY <1>0, <2>1 DEF KotlinTyped, Jobs
    <3>3. Len(jobs) + 1 \in DOMAIN jobs' /\ jobs'[Len(jobs) + 1] = <<"dispose", From>>
      BY <3>1, <3>2, AppendElements
    <3> QED BY <3>3 DEF Disposing, WillFree
  <2>5. CASE Head(calls).method = "disposeLlm" /\ ~engine
    <3>1. HandleDispose
      BY <1>4, <2>5 DEF HandleCall, HandleUnsupported, HandleInitialize, HandleGetStatus, HandleGenerate, Takes
    <3>2. UNCHANGED <<loader, llm, load>>
      BY <3>1 DEF HandleDispose, native, dart
    <3>3. PICK t \in Loaders : loader[t] = "prepare"
      <4>1. EngineKnown
        BY DEF ThreadsKnown
      <4>2. llm = "null" /\ \A t \in Loaders : loader[t] \notin {"call", "native"}
        BY <2>5, <4>1 DEF EngineKnown
      <4>3. \E t \in Loaders : Loads(t)
        BY <3>2, <4>2 DEF Holding, Loads
      <4> QED BY <1>0, <4>2, <4>3 DEF Loads, KotlinTyped, LoaderStates
    <3>4. CASE Disposing
      <4>1. ~overlooked'
        BY <3>1 DEF HandleDispose
      <4>2. Disposing'
        BY <3>4, <4>1, DisposingLasts, ForgettingFrees
      <4> QED BY <4>2 DEF WillFree
    <3>5. ASSUME NEW g \in Generations, SawLoading(g) PROVE WillFree'
      BY <3>2, <3>5 DEF SawLoading, WillFree, StillDecides, Decides, Asking, Resting
    <3> QED BY <2>5, <3>3, <3>4, <3>5 DEF Watched
  <2> QED BY <2>3, <2>4, <2>5
<1>5. CASE RunPosted \/ ExecutorStep \/ (\E t \in Loaders : LoaderStep(t)) \/ UNCHANGED vars \/ AskEngine
  BY <1>2, <1>5, AskingLeaves DEF RunPosted, ExecutorStep, TakeJob, JobEnds, LoaderStep, vars, channel
<1> QED BY <1>3, <1>4, <1>5 DEF Next, DartStep

LEMMA AccountedStep ==
    Typed /\ ThreadsKnown /\ LoadsKnown /\ Letters /\ ModelAccounted /\ [Next]_vars => ModelAccounted'
<1> SUFFICES ASSUME Typed, ThreadsKnown, LoadsKnown, Letters, ModelAccounted, [Next]_vars, ~overlooked'
             PROVE  Watched' /\ (wanted' = 0 /\ Holding' => WillFree')
  BY DEF ModelAccounted
<1>1. ~overlooked
  BY OverlookedStays
<1>2. Watched /\ (wanted = 0 /\ Holding => WillFree)
  BY <1>1 DEF ModelAccounted
<1>3. Watched'
  BY <1>1, <1>2, WatchedStep
<1>4. ASSUME wanted' = 0, Holding' PROVE WillFree'
  <2>1. CASE wanted # 0
    <3>1. UserDisposes
      <4>1. DartStep
        BY <1>4, <2>1, DartAlone DEF dart
      <4>2. Initialize => wanted' # 0
        BY LlmAssumption DEF Initialize, Typed, DartTyped
      <4> QED BY <1>4, <2>1, <4>1, <4>2
              DEF DartStep, UserLoads, ReplyHandled, TimerFires, LoadAnswered, DisposeAnswered,
                  RecognitionAnswered, LoadStep, LoadStarts, LoadPolls, StaleDelayEnds, RecognitionStep,
                  RecognitionDelayEnds, RecognitionTimesOut, RecognitionStarts
    <3>2. DisposalOf(generation') \in Origins /\ "disposeLlm" \in Methods
      BY <3>1, LlmAssumption, OriginsTyped DEF UserDisposes, Typed, DartTyped, Generations, Methods
    <3>3. /\ calls'[Len(calls) + 1] = Call("disposeLlm", DisposalOf(generation'))
          /\ Len(calls) + 1 \in DOMAIN calls'
      BY <3>1, <3>2, SendingAppends DEF UserDisposes, Typed
    <3> QED BY <3>3 DEF WillFree, DisposeCalled, Call
  <2>2. CASE StartsLoader
    BY <2>2, StartIsSeen DEF WillFree
  <2>3. CASE wanted = 0 /\ Holding
    <3>1. CASE DisposeCalled
      BY <1>1, <1>2, <1>4, <3>1, DisposeCallLasts
    <3>2. CASE Disposing
      BY <1>4, <3>2, DisposingLasts, ForgettingFrees DEF WillFree
    <3>3. ASSUME NEW g \in Generations, StillDecides(g) PROVE WillFree'
      BY <2>3, <3>3, DeciderLasts DEF WillFree
    <3> QED BY <1>2, <2>3, <3>1, <3>2, <3>3 DEF WillFree
  <2> QED BY <1>4, <2>1, <2>2, <2>3, HoldingStarts
<1> QED BY <1>3, <1>4

(***************************************************************************)
(* When all is quiet and the model is not wanted, none is in memory,       *)
(* however many loads and disposals crossed: while a model or a thread     *)
(* that loads one is there and nobody wants it, a disposal is called or    *)
(* under way, or a load of Dart has still to decide and will free it.  A   *)
(* disposal that comes before the engine is known frees nothing, and then  *)
(* the load that started the thread waits for it and decides.              *)
(***************************************************************************)
THEOREM FreedInTheEnd == Spec => []FreedUnlessOverlooked
<1>1. Init => ThreadsKnown /\ LoadsKnown /\ Letters /\ ModelAccounted
  <2> SUFFICES ASSUME Init PROVE ThreadsKnown /\ LoadsKnown /\ Letters /\ ModelAccounted
    OBVIOUS
  <2>1. /\ calls = <<>> /\ replies = <<>> /\ jobs = <<>> /\ job = <<>> /\ posted = <<>>
        /\ at[Executor] = "idle" /\ llm = "null" /\ ~isLlmLoading
        /\ \A g \in Generations : load[g] = "none"
        /\ \A t \in Loaders : loader[t] = "unused"
    BY DEF Init, NativeInit
  <2>2. ThreadsKnown
    BY <2>1 DEF ThreadsKnown, EngineKnown, OneLoader, Loads
  <2>3. LoadsKnown
    BY DEF Init, LoadsKnown, LoadingIsReal, StalePlaces
  <2>4. Letters
    BY <2>1 DEF Letters, InitialCalls, LettersOf, CallsOf, RepliesTo, NoWork, Asking
  <2>5. ModelAccounted
    BY <2>1 DEF ModelAccounted, Watched, Holding, Loads
  <2> QED BY <2>2, <2>3, <2>4, <2>5
<1>2. Typed /\ ModelAccounted => FreedUnlessOverlooked
  <2> SUFFICES ASSUME Typed, ModelAccounted, Quiescent, wanted = 0, ~overlooked PROVE instances = 0
    BY DEF FreedUnlessOverlooked
  <2>1. ~DisposeCalled /\ ~Disposing
    <3>1. calls = <<>> /\ jobs = <<>> /\ job = <<>> /\ posted = <<>>
      BY DEF Quiescent
    <3> QED BY <3>1 DEF DisposeCalled, Disposing, JobDisposes
  <2>2. \A g \in Generations : ~StillDecides(g)
    BY DEF Quiescent, StillDecides, Decides, Asking, Resting
  <2>3. llm = "null"
    BY <2>1, <2>2 DEF ModelAccounted, WillFree, Holding
  <2> QED BY <2>3 DEF Typed, IInv, WeightsKnown, OneModel
<1> QED BY <1>1, <1>2, AlwaysTyped, ThreadsStep, LoadsStep, LettersStep, AccountedStep, PTL DEF Spec
================================================================================
