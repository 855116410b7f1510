-------------------------------- MODULE LlmLoad --------------------------------
(***************************************************************************)
(* Loading, using and freeing the local model, from the switch in the      *)
(* settings to the native context: LlmService (Dart), MainActivity and     *)
(* MnnEngine (Kotlin), and NativeContext.  Dart sends calls over a method  *)
(* channel and is answered later; MainActivity loads the model on a thread *)
(* of its own and MnnEngine frees it, and generates, on its executor.      *)
(* A load, a disposal and a recognition are all told apart by the number   *)
(* under which Dart started them; that of a load is its generation.        *)
(***************************************************************************)
EXTENDS NativeContext, Sequences

CONSTANTS
    MaxGenerations,     \* bound on the loads and disposals of LlmService
    MaxRecognitions,    \* bound on the recognitions
    MaxStalePolls       \* _staleNativeLoadMaxPolls

ASSUME LlmAssumption ==
    /\ MaxGenerations \in Nat /\ MaxRecognitions \in Nat
    /\ MaxStalePolls \in Nat \ {0}

Generations == 1 .. MaxGenerations
Recognitions == 1 .. MaxRecognitions

VARIABLES
    \* the fields of LlmService
    isInitialized, isLoading, isModelLoading, loadError,
    generation,     \* _loadGeneration
    wanted,         \* _wantedLoadGeneration, 0 when it is null
    load,           \* where the load of a generation is
    polls,          \* polls a stale load may still make
    disposal,       \* generations whose dispose() awaits its answer
    recognition,    \* where each recognition is
    \* the channel
    calls,          \* calls that MainActivity has not handled
    replies,        \* answers that Dart has not handled
    \* MainActivity and MnnEngine
    engine,         \* mnnEngine is not null
    isLlmLoading, llmLoadError,
    supported,      \* the process can load the library
    loader,         \* where each loading thread is
    jobs,           \* what the executor has still to do
    job,            \* what it does, <<>> when it is idle
    posted,         \* what was posted to the main thread
    loadingRead,    \* isLlmLoading, as read for the status that is being told
    overlooked      \* history: the engine was forgotten with a model loaded or loading

flags == <<isInitialized, isLoading, isModelLoading, loadError>>
dart == <<flags, generation, wanted, load, polls, disposal, recognition>>
channel == <<calls, replies>>
mainThread == <<supported, loadingRead>>
kotlin == <<engine, isLlmLoading, llmLoadError, loader, jobs, job, posted, mainThread, overlooked>>
vars == <<dart, channel, kotlin, native>>

LoadPlaces == {"none", "scheduled", "initialize", "delay", "status",
               "stale status", "stale delay", "stale dispose", "found", "done"}
RecognitionPlaces == {"idle", "status", "delay", "generate", "done"}
LoaderStates == {"unused", "prepare", "call", "native"}

Init ==
    /\ NativeInit
    /\ isInitialized = FALSE /\ isLoading = FALSE /\ isModelLoading = FALSE
    /\ loadError = FALSE
    /\ generation = 0 /\ wanted = 0
    /\ load = [g \in Generations |-> "none"]
    /\ polls = [g \in Generations |-> MaxStalePolls]
    /\ disposal = {}
    /\ recognition = [r \in Recognitions |-> "idle"]
    /\ calls = <<>> /\ replies = <<>>
    /\ engine = FALSE /\ isLlmLoading = FALSE /\ llmLoadError = FALSE
    /\ supported \in BOOLEAN
    /\ loader = [t \in Loaders |-> "unused"]
    /\ jobs = <<>> /\ job = <<>> /\ posted = <<>>
    /\ loadingRead = FALSE /\ overlooked = FALSE

Call(method, from) == [method |-> method, from |-> from]
LoadOf(g) == <<"load", g>>
DisposalOf(g) == <<"dispose", g>>
RecognitionOf(r) == <<"recognition", r>>

Sends(method, from) == calls' = Append(calls, Call(method, from))
MovesLoad(g, place) == load' = [load EXCEPT ![g] = place]
MovesRecognition(r, place) == recognition' = [recognition EXCEPT ![r] = place]

-------------------------------------------------------------------------------
(* LlmService: a load *)

(* initialize(); nothing happens when the flags say that it is under way. *)
Initialize ==
    /\ generation < MaxGenerations
    /\ generation' = generation + 1
    /\ wanted' = generation'
    /\ isLoading' = TRUE /\ isModelLoading' = TRUE /\ loadError' = FALSE
    /\ MovesLoad(generation', "scheduled")
    /\ UNCHANGED <<isInitialized, polls, disposal>>

(* The application starts, or the user chooses the local model. *)
UserLoads ==
    /\ ~isInitialized /\ ~isLoading
    /\ Initialize
    /\ UNCHANGED <<recognition, channel, kotlin, native>>

LoadStarts(g) ==
    /\ load[g] = "scheduled"
    /\ Sends("initialize", LoadOf(g))
    /\ MovesLoad(g, "initialize")
    /\ UNCHANGED <<flags, generation, wanted, polls, disposal, recognition,
                   replies, kotlin, native>>

(* A bug: a load that nobody wants any more counts as current. *)
IsCurrentOrUnwanted(g) == wanted \in {g, 0}

IsCurrentLoad(g) == g = generation /\ wanted = g

(* _disposeStaleNativeLoad: poll, while something is loading ... *)
StalePolls(g) ==
    /\ Sends("getStatus", LoadOf(g))
    /\ MovesLoad(g, "stale status")
    /\ UNCHANGED flags

(* A bug: a stale load is left to itself. *)
StaleForgets(g) == MovesLoad(g, "done") /\ UNCHANGED <<calls, flags>>

(* ... and free the model when nobody has asked for one meanwhile. *)
StaleDecides(g) ==
    /\ IF wanted = 0
       THEN Sends("disposeLlm", LoadOf(g)) /\ MovesLoad(g, "stale dispose")
       ELSE MovesLoad(g, "done") /\ UNCHANGED calls
    /\ UNCHANGED flags

(* A bug: the end of a load leaves isLoading set. *)
ApplyAndKeepLoading(status, ended) ==
    /\ isInitialized' = IF status.ready = "same" THEN isInitialized ELSE status.ready = "yes"
    /\ isModelLoading' = (status.loading /\ ~ended)
    /\ loadError' = status.error
    /\ UNCHANGED isLoading

(***************************************************************************)
(* Dart applies an answer; one without isInitialized leaves the field      *)
(* alone.  When the load has ended, its flags are reset.                   *)
(***************************************************************************)
Apply(status, ended) ==
    /\ isInitialized' = IF status.ready = "same" THEN isInitialized ELSE status.ready = "yes"
    /\ isModelLoading' = (status.loading /\ ~ended)
    /\ isLoading' = (isLoading /\ ~ended)
    /\ loadError' = status.error

Answered(from) == replies # <<>> /\ Head(replies).to = from /\ replies' = Tail(replies)

Status == Head(replies).status

(***************************************************************************)
(* The answer to initialize.  The load ends when there is an error, or     *)
(* when the model is found initialized; then isLoading stays set.          *)
(***************************************************************************)
InitializeAnswered(g) ==
    /\ load[g] = "initialize"
    /\ IF ~IsCurrentLoad(g)
       THEN StalePolls(g)
       ELSE /\ Apply(Status, Status.error)
            /\ MovesLoad(g, IF Status.error THEN "done" ELSE IF Status.loading THEN "delay" ELSE "found")
            /\ UNCHANGED calls
    /\ UNCHANGED polls

(* _pollForLoadingComplete: the delay is over. *)
LoadPolls(g) ==
    /\ load[g] = "delay"
    /\ IF ~IsCurrentLoad(g)
       THEN StalePolls(g)
       ELSE Sends("getStatus", LoadOf(g)) /\ MovesLoad(g, "status") /\ UNCHANGED flags
    /\ UNCHANGED <<generation, wanted, polls, disposal, recognition, replies, kotlin, native>>

LoadEnded(status) == status.ready = "yes" \/ status.error \/ ~status.loading

LoadStatusAnswered(g) ==
    /\ load[g] = "status"
    /\ IF ~IsCurrentLoad(g)
       THEN StalePolls(g)
       ELSE /\ Apply(Status, LoadEnded(Status))
            /\ MovesLoad(g, IF LoadEnded(Status) THEN "done" ELSE "delay")
            /\ UNCHANGED calls
    /\ UNCHANGED polls

StaleStatusAnswered(g) ==
    /\ load[g] = "stale status"
    /\ IF Status.loading
       THEN /\ MovesLoad(g, "stale delay")
            /\ polls' = [polls EXCEPT ![g] = IF @ = 0 THEN 0 ELSE @ - 1]
            /\ UNCHANGED <<calls, flags>>
       ELSE StaleDecides(g) /\ UNCHANGED polls

(***************************************************************************)
(* The polls of a stale load take two minutes; of a loading thread only    *)
(* the native load takes as long, the wait for the library at most 10 s.   *)
(***************************************************************************)
OutOfPolls(g) == polls[g] = 0 /\ \A t \in Loaders : loader[t] \in {"unused", "native"}

StaleDelayEnds(g) ==
    /\ load[g] = "stale delay"
    /\ IF OutOfPolls(g) THEN StaleDecides(g) ELSE StalePolls(g)
    /\ UNCHANGED <<generation, wanted, polls, disposal, recognition, replies, kotlin, native>>

StaleDisposeAnswered(g) ==
    /\ load[g] = "stale dispose"
    /\ MovesLoad(g, "done")
    /\ UNCHANGED <<calls, flags, polls>>

LoadAnswered(g) ==
    /\ Answered(LoadOf(g))
    /\ \/ InitializeAnswered(g)
       \/ LoadStatusAnswered(g)
       \/ StaleStatusAnswered(g)
       \/ StaleDisposeAnswered(g)
    /\ UNCHANGED <<generation, wanted, disposal, recognition, kotlin, native>>

LoadStep(g) == LoadStarts(g) \/ LoadPolls(g) \/ StaleDelayEnds(g)

-------------------------------------------------------------------------------
(* LlmService: dispose(), when the local model is switched off or deleted *)

UserDisposes ==
    /\ generation < MaxGenerations
    /\ generation' = generation + 1
    /\ wanted' = 0
    /\ Sends("disposeLlm", DisposalOf(generation'))
    /\ disposal' = disposal \union {generation'}
    /\ UNCHANGED <<flags, load, polls, recognition, replies, kotlin, native>>

DisposeAnswered(g) ==
    /\ Answered(DisposalOf(g))
    /\ isInitialized' = FALSE /\ isLoading' = FALSE /\ isModelLoading' = FALSE
    /\ loadError' = FALSE
    /\ disposal' = disposal \ {g}
    /\ UNCHANGED <<generation, wanted, load, polls, recognition, calls, kotlin, native>>

-------------------------------------------------------------------------------
(* LlmService: _completeLocal, for a recognition *)

Generates(r) == Sends("generate", RecognitionOf(r)) /\ MovesRecognition(r, "generate")
Asks(r) == Sends("getStatus", RecognitionOf(r)) /\ MovesRecognition(r, "status")
GivesUp(r) == MovesRecognition(r, "done") /\ UNCHANGED calls

(* It loads the model, unless a load is under way, and waits for it. *)
RecognitionStarts(r) ==
    /\ recognition[r] = "idle"
    /\ \/ isInitialized /\ Generates(r) /\ UNCHANGED <<flags, generation, wanted, load, polls, disposal>>
       \/ ~isInitialized /\ isLoading /\ Asks(r)
          /\ UNCHANGED <<flags, generation, wanted, load, polls, disposal>>
       \/ ~isInitialized /\ ~isLoading /\ Asks(r) /\ Initialize
    /\ UNCHANGED <<replies, kotlin, native>>

(* waitForInitialization applies every status it gets. *)
RecognitionStatusAnswered(r) ==
    /\ recognition[r] = "status"
    /\ Apply(Status, FALSE)
    /\ \/ Status.ready = "yes" /\ Generates(r)
       \/ Status.ready # "yes" /\ (Status.error \/ ~Status.loading) /\ GivesUp(r)
       \/ Status.ready # "yes" /\ ~Status.error /\ Status.loading
          /\ MovesRecognition(r, "delay") /\ UNCHANGED calls

RecognitionDelayEnds(r) ==
    /\ recognition[r] = "delay"
    /\ Asks(r)
    /\ UNCHANGED <<flags, generation, wanted, load, polls, disposal, replies, kotlin, native>>

(* The deadline has passed. *)
RecognitionTimesOut(r) ==
    /\ recognition[r] = "delay"
    /\ IF isInitialized THEN Generates(r) ELSE GivesUp(r)
    /\ UNCHANGED <<flags, generation, wanted, load, polls, disposal, replies, kotlin, native>>

TextAnswered(r) ==
    /\ recognition[r] = "generate"
    /\ GivesUp(r)
    /\ UNCHANGED flags

RecognitionAnswered(r) ==
    /\ Answered(RecognitionOf(r))
    /\ RecognitionStatusAnswered(r) \/ TextAnswered(r)
    /\ UNCHANGED <<generation, wanted, load, polls, disposal, kotlin, native>>

RecognitionStep(r) == RecognitionDelayEnds(r) \/ RecognitionTimesOut(r)

-------------------------------------------------------------------------------
(* MainActivity: the handlers of the channel, on the main thread *)

Takes(method) == calls # <<>> /\ Head(calls).method = method /\ calls' = Tail(calls)
From == Head(calls).from

Answer(ready, loading, error) == [ready |-> ready, loading |-> loading, error |-> error]
Replies(to, status) == replies' = Append(replies, [to |-> to, status |-> status])
Told(b) == IF b THEN "yes" ELSE "no"
Nothing == Answer("same", FALSE, FALSE)

(***************************************************************************)
(* mnnEngine?.isInitialized(), in two steps when there is an engine: the   *)
(* main thread does nothing else, the other threads go on.  A status has   *)
(* read isLlmLoading before.                                               *)
(***************************************************************************)
AskEngine ==
    /\ calls # <<>>
    /\ Head(calls).method \in {"initialize", "getStatus", "generate"}
    /\ Head(calls).method = "initialize" => supported
    /\ engine /\ TestContext
    /\ loadingRead' = (isLlmLoading /\ Head(calls).method = "getStatus")
    /\ UNCHANGED <<dart, channel, engine, isLlmLoading, llmLoadError, loader, jobs, job, posted,
                   supported, overlooked>>

EngineAnswers(ready) ==
    /\ \/ engine /\ ready \in IsInitializedAnswers /\ UseContext
       \/ ~engine /\ ~ready /\ UNCHANGED native
    /\ loadingRead' = FALSE

(* A new thread, whichever one is not in use. *)
StartLoader ==
    LET unused == {t \in Loaders : loader[t] = "unused"}
    IN  /\ unused # {}
        /\ loader' = [loader EXCEPT ![CHOOSE t \in unused : TRUE] = "prepare"]
        /\ isLlmLoading' = TRUE /\ llmLoadError' = FALSE

(* initializeLlmAsync on an installation for another processor *)
HandleUnsupported ==
    /\ Takes("initialize") /\ ~supported
    /\ llmLoadError' = TRUE
    /\ Replies(From, Answer("same", FALSE, TRUE))
    /\ UNCHANGED <<dart, engine, isLlmLoading, loader, jobs, job, posted, mainThread, overlooked, native>>

HandleInitialize ==
    /\ Takes("initialize") /\ supported
    /\ \E ready \in BOOLEAN :
         /\ EngineAnswers(ready)
         /\ \/ ready /\ Replies(From, Answer("yes", FALSE, FALSE))
               /\ UNCHANGED <<isLlmLoading, llmLoadError, loader>>
            \/ ~ready /\ isLlmLoading /\ Replies(From, Answer("same", TRUE, FALSE))
               /\ UNCHANGED <<isLlmLoading, llmLoadError, loader>>
            \/ ~ready /\ ~isLlmLoading /\ Replies(From, Answer("same", TRUE, FALSE)) /\ StartLoader
    /\ UNCHANGED <<dart, engine, jobs, job, posted, supported, overlooked>>

StatusFor(ready) ==
    Answer(Told(ready), IF engine THEN loadingRead ELSE isLlmLoading, llmLoadError)

HandleGetStatus ==
    /\ Takes("getStatus")
    /\ \E ready \in BOOLEAN : EngineAnswers(ready) /\ Replies(From, StatusFor(ready))
    /\ UNCHANGED <<dart, engine, isLlmLoading, llmLoadError, loader, jobs, job, posted, supported, overlooked>>

(* A bug: without an engine there is nothing to do, and no answer. *)
HandleDisposeSilently ==
    /\ Takes("disposeLlm")
    /\ jobs' = IF engine THEN Append(jobs, <<"dispose", From>>) ELSE jobs
    /\ UNCHANGED <<dart, replies, engine, isLlmLoading, llmLoadError, loader, job, posted,
                   mainThread, overlooked, native>>

HandleDispose ==
    /\ Takes("disposeLlm")
    /\ IF engine
       THEN jobs' = Append(jobs, <<"dispose", From>>) /\ UNCHANGED posted
       ELSE posted' = Append(posted, <<"complete", From>>) /\ UNCHANGED jobs
    /\ UNCHANGED <<dart, replies, engine, isLlmLoading, llmLoadError, loader, job, mainThread, overlooked, native>>

HandleGenerate ==
    /\ Takes("generate")
    /\ \E ready \in BOOLEAN :
         /\ EngineAnswers(ready)
         /\ \/ ready /\ jobs' = Append(jobs, <<"generate", From>>) /\ UNCHANGED replies
            \/ ~ready /\ Replies(From, Nothing) /\ UNCHANGED jobs
    /\ UNCHANGED <<dart, engine, isLlmLoading, llmLoadError, loader, job, posted, supported, overlooked>>

HandleCall ==
    HandleUnsupported \/ HandleInitialize \/ HandleGetStatus \/ HandleDispose \/ HandleGenerate

(* What the executor has posted: after dispose, the engine is forgotten. *)
RunPosted ==
    /\ posted # <<>> /\ asked = "no"
    /\ IF Head(posted)[1] = "freed"
       THEN /\ engine' = FALSE /\ isLlmLoading' = FALSE
            /\ posted' = Append(Tail(posted), <<"complete", Head(posted)[2]>>)
            /\ overlooked' = (overlooked \/ llm # "null" \/ \E t \in Loaders : loader[t] # "unused")
            /\ UNCHANGED replies
       ELSE /\ Replies(Head(posted)[2], Nothing)
            /\ posted' = Tail(posted)
            /\ UNCHANGED <<engine, isLlmLoading, overlooked>>
    /\ UNCHANGED <<dart, calls, llmLoadError, loader, jobs, job, mainThread, native>>

-------------------------------------------------------------------------------
(* MnnEngine: the executor *)

TakeJob ==
    /\ job = <<>> /\ jobs # <<>>
    /\ job' = Head(jobs) /\ jobs' = Tail(jobs)
    /\ IF Head(jobs)[1] = "dispose" THEN CallDispose ELSE CallGenerate
    /\ UNCHANGED <<dart, channel, engine, isLlmLoading, llmLoadError, loader, posted, mainThread, overlooked>>

JobEnds ==
    /\ job # <<>> /\ Returns(Executor)
    /\ posted' = Append(posted, <<IF job[1] = "dispose" THEN "freed" ELSE "complete", job[2]>>)
    /\ job' = <<>>
    /\ UNCHANGED <<dart, channel, engine, isLlmLoading, llmLoadError, loader, jobs, mainThread, overlooked>>

ExecutorStep ==
    \/ TakeJob
    \/ JobEnds
    \/ (DisposeStep \/ GenerateStep) /\ UNCHANGED <<dart, channel, kotlin>>

-------------------------------------------------------------------------------
(* MainActivity: a loading thread *)

LoaderGoes(t, state) == loader' = [loader EXCEPT ![t] = state]

(* The finally of the thread. *)
LoaderEnds(t, failed) ==
    /\ LoaderGoes(t, "unused")
    /\ llmLoadError' = (llmLoadError \/ failed)
    /\ isLlmLoading' = FALSE

(***************************************************************************)
(* The library is there, which makes the engine known, or it does not load *)
(* in time; then the directory of the model is valid or it is not.         *)
(***************************************************************************)
Prepare(t) ==
    /\ loader[t] = "prepare"
    /\ \/ engine' = TRUE /\ LoaderGoes(t, "call") /\ UNCHANGED <<isLlmLoading, llmLoadError>>
       \/ engine' \in {engine, TRUE} /\ LoaderEnds(t, TRUE)
    /\ UNCHANGED native

(* mnnEngine?.loadModel(...) ?: false *)
CallEngine(t) ==
    /\ loader[t] = "call"
    /\ IF engine
       THEN LoaderGoes(t, "native") /\ CallLoad(t) /\ UNCHANGED <<isLlmLoading, llmLoadError>>
       ELSE LoaderEnds(t, TRUE) /\ UNCHANGED native
    /\ UNCHANGED engine

EngineReturns(t) ==
    /\ loader[t] = "native" /\ Returns(t)
    /\ LoaderEnds(t, at[t] = "false")
    /\ UNCHANGED engine

LoaderStep(t) ==
    \/ /\ Prepare(t) \/ CallEngine(t) \/ EngineReturns(t)
       /\ UNCHANGED <<dart, channel, jobs, job, posted, mainThread, overlooked>>
    \/ ContextLoadStep(t) /\ UNCHANGED <<dart, channel, kotlin>>

-------------------------------------------------------------------------------

ReplyHandled ==
    \/ \E g \in Generations : LoadAnswered(g) \/ DisposeAnswered(g)
    \/ \E r \in Recognitions : RecognitionAnswered(r)

TimerFires ==
    \/ \E g \in Generations : LoadStep(g)
    \/ \E r \in Recognitions : RecognitionStep(r)

Next ==
    \/ UserLoads
    \/ UserDisposes
    \/ \E r \in Recognitions : RecognitionStarts(r)
    \/ ReplyHandled
    \/ TimerFires
    \/ AskEngine
    \/ HandleCall
    \/ RunPosted
    \/ ExecutorStep
    \/ \E t \in Loaders : LoaderStep(t)

Spec == Init /\ [][Next]_vars

(***************************************************************************)
(* The threads run: the main thread serves calls and posted work, Dart its *)
(* answers and timers, and what is called in the native library returns.   *)
(***************************************************************************)
FairSpec ==
    /\ Spec
    /\ WF_vars(AskEngine \/ HandleCall) /\ WF_vars(RunPosted) /\ WF_vars(ExecutorStep)
    /\ WF_vars(ReplyHandled) /\ WF_vars(TimerFires)
    /\ WF_vars(\E t \in Loaders : LoaderStep(t))

-------------------------------------------------------------------------------

StatusType == [ready : {"yes", "no", "same"}, loading : BOOLEAN, error : BOOLEAN]

TypeOK ==
    /\ NativeTypeOK
    /\ \A flag \in {isInitialized, isLoading, isModelLoading, loadError,
                    engine, isLlmLoading, llmLoadError, supported, loadingRead} : flag \in BOOLEAN
    /\ generation \in 0 .. MaxGenerations
    /\ wanted \in {0, generation}
    /\ load \in [Generations -> LoadPlaces]
    /\ polls \in [Generations -> 0 .. MaxStalePolls]
    /\ disposal \subseteq Generations
    /\ recognition \in [Recognitions -> RecognitionPlaces]
    /\ loader \in [Loaders -> LoaderStates]
    /\ \A i \in DOMAIN replies : replies[i].status \in StatusType
    /\ job = <<>> <=> at[Executor] = "idle"
    /\ \A t \in Loaders : loader[t] = "native" <=> at[t] # "idle"

Quiescent ==
    /\ calls = <<>> /\ replies = <<>> /\ jobs = <<>> /\ job = <<>> /\ posted = <<>>
    /\ \A g \in Generations : load[g] \in {"none", "found", "done"}
    /\ \A r \in Recognitions : recognition[r] \in {"idle", "done"}
    /\ \A t \in Loaders : loader[t] = "unused"

(***************************************************************************)
(* The flags do not say that something loads when nothing does, whatever   *)
(* was cancelled or failed: the wanted load is under way, or a disposal    *)
(* that will reset them.  One case is left: a load that found the model    *)
(* initialized ends and leaves isLoading set.                              *)
(***************************************************************************)
LoadingIsReal ==
    isLoading =>
        \/ disposal # {}
        \/ \E g \in Generations : IsCurrentLoad(g) /\ load[g] \notin {"none", "done"}

(***************************************************************************)
(* After a disposal has been answered, and until the model is asked for    *)
(* again, no late answer to the load it cancelled brings the flags back;   *)
(* a recognition applies what it is told whenever it is told.              *)
(***************************************************************************)
DisposedStaysReset ==
    /\ generation > 0 /\ wanted = 0 /\ disposal = {}
    /\ \A r \in Recognitions : recognition[r] = "idle"
    => ~isInitialized /\ ~isLoading /\ ~isModelLoading /\ ~loadError

(***************************************************************************)
(* When all is quiet and the model is not wanted, none is in memory: it    *)
(* was freed by the disposal, or by the load that the disposal cancelled.  *)
(* The exception is a disposal that makes MainActivity forget its engine   *)
(* when a thread loads, or has loaded, a model again.                      *)
(***************************************************************************)
FreedUnlessOverlooked == Quiescent /\ wanted = 0 /\ ~overlooked => instances = 0

UnderWay(g) == load[g] \notin {"none", "found", "done"}

InProgress ==
    \/ \E g \in Generations : UnderWay(g)
    \/ disposal # {}
    \/ \E r \in Recognitions : recognition[r] \notin {"idle", "done"}

(***************************************************************************)
(* Every call over the channel is answered and every poll ends, whatever   *)
(* is cancelled meanwhile: once no more loads, disposals and recognitions  *)
(* are started, none of them stays under way.                              *)
(***************************************************************************)
CallsEnd == []<>~InProgress
================================================================================
