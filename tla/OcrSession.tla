------------------------------ MODULE OcrSession ------------------------------
(***************************************************************************)
(* OcrNotifier and the progress window of the edit screens.  A recognition *)
(* is a chain of awaited calls (settings, the OCR engine, files, a model); *)
(* none can be aborted, so cancelling only outdates the operation number   *)
(* the recognition compares itself with when an answer arrives.            *)
(***************************************************************************)
EXTENDS Naturals

CONSTANTS
    MaxOperationId,     \* bound on _recognitionOperationId
    MaxModelLoads,      \* bound on how often the language model is loaded
    EngineMayFail       \* whether the OCR engine may fail to initialize

ASSUME OcrAssumption ==
    /\ MaxOperationId \in Nat
    /\ MaxModelLoads \in Nat
    /\ EngineMayFail \in BOOLEAN

VARIABLES
    generation,     \* _recognitionOperationId
    ops,            \* where each recognition waits, with what it is for
    engine,         \* OcrService: off, loading, ready or failed
    llm,            \* LlmService: off, loading, ready or unsupported
    modelLoads,
    ui,             \* OcrState; result is the recognition it came from
    timer,          \* _progressTimer and _progressOperationId
    dialog,         \* the progress window on the screen
    form,           \* the recognition whose result filled the form
    cancelled       \* history: the recognitions the user has cancelled

vars == <<generation, ops, engine, llm, modelLoads, ui, timer, dialog, form, cancelled>>
modelVars == <<engine, llm, modelLoads>>

Ids == 1 .. MaxOperationId
Kinds == {"image", "pdf"}
Backends == {"unset", "vision", "text", "local"}
Waiting == {"config", "visionOpen", "visionAnswer", "poll", "open", "recognize", "parse"}
Stages == {"idle", "ocrRecognizing", "imageRecognizing", "llmParsing"}

NoOp == [phase |-> "none", kind |-> "image", backend |-> "unset"]
NewOp(kind) == [phase |-> "config", kind |-> kind, backend |-> "unset"]
EndedOp == [phase |-> "ended", kind |-> "image", backend |-> "unset"]
NoTimer == [op |-> 0, stage |-> "idle"]
NoDialog == [op |-> 0, cancelled |-> FALSE]

Idle == [result |-> 0, isLoading |-> FALSE, isModelLoading |-> FALSE, stage |-> "idle"]

Init ==
    /\ generation = 0
    /\ ops = [op \in Ids |-> NoOp]
    /\ engine = "off"
    /\ llm = "off"
    /\ modelLoads = 0
    /\ ui = Idle
    /\ timer = NoTimer
    /\ dialog = NoDialog
    /\ form = 0
    /\ cancelled = {}

IsRunning(op) == ops[op].phase \in Waiting

(* A bug: an answer is taken whoever asked for it. *)
AlwaysCurrent(op) == TRUE

IsCurrent(op) == op = generation
-------------------------------------------------------------------------------
(***************************************************************************)
(* The button of the edit screen, disabled while isOcrButtonBusy.  Then    *)
(* _beginRecognition and the state every recognition starts from.          *)
(***************************************************************************)
Begin(kind) ==
    /\ dialog.op = 0
    /\ ~ui.isLoading /\ ~ui.isModelLoading
    /\ generation < MaxOperationId
    /\ generation' = generation + 1
    /\ ops' = [ops EXCEPT ![generation + 1] = NewOp(kind)]
    /\ timer' = NoTimer
    /\ ui' = [ui EXCEPT !.result = 0, !.isLoading = TRUE, !.stage = "idle"]
    /\ dialog' = [op |-> generation + 1, cancelled |-> FALSE]
    /\ UNCHANGED <<modelVars, form, cancelled>>

Goto(op, phase) == ops' = [ops EXCEPT ![op].phase = phase]

(***************************************************************************)
(* The recognition returns; the window that waits for it closes and fills  *)
(* the form with filling, 0 when there is nothing to fill it with.         *)
(***************************************************************************)
Return(op, filling) ==
    /\ ops' = [ops EXCEPT ![op] = EndedOp]
    /\ dialog' = IF dialog.op = op THEN NoDialog ELSE dialog
    /\ form' = IF dialog.op = op /\ ~dialog.cancelled /\ filling # 0 THEN filling ELSE form

(* _stopProgressAnimation(operationId): only the owner's timer stops. *)
Stopped(op) == IF timer.op = op THEN NoTimer ELSE timer

(***************************************************************************)
(* Whatever the answer, a recognition that is not current returns null.    *)
(* Where this path stops the timer first it is not its own any more.       *)
(***************************************************************************)
Superseded(op) ==
    /\ IsRunning(op)
    /\ ~IsCurrent(op)
    /\ Return(op, 0)
    /\ UNCHANGED <<generation, modelVars, ui, timer, cancelled>>

(* A bug: the handler of an error leaves the progress animation running. *)
FinishAndTick(op, result, filling) ==
    /\ ui' = [ui EXCEPT !.result = IF result = 0 THEN @ ELSE result,
                        !.isLoading = FALSE, !.isModelLoading = FALSE, !.stage = "idle"]
    /\ Return(op, filling)
    /\ UNCHANGED <<generation, modelVars, timer, cancelled>>

(* The end of a recognition: the timer stops and the state is reset. *)
Finish(op, result, filling) ==
    /\ timer' = Stopped(op)
    /\ ui' = [ui EXCEPT !.result = IF result = 0 THEN @ ELSE result,
                        !.isLoading = FALSE, !.isModelLoading = FALSE, !.stage = "idle"]
    /\ Return(op, filling)
    /\ UNCHANGED <<generation, modelVars, cancelled>>

At(op, phase) == ops[op].phase = phase /\ IsCurrent(op)

(* The failures and exceptions that leave no result behind. *)
Fail(op) ==
    /\ IsRunning(op) /\ IsCurrent(op)
    /\ ops[op].phase # "poll"
    /\ Finish(op, 0, 0)
-------------------------------------------------------------------------------
(* A bug: the handler of an exception forgets to reset _isLoading. *)
LoadingUntilReady == engine \in {"loading", "failed"} \/ llm = "loading"

ServiceLoading == engine = "loading" \/ llm = "loading"

(***************************************************************************)
(* The settings are loaded.  An image goes to a multimodal model directly; *)
(* otherwise the engine is started when it is not available.  OcrService.initialize      *)
(* returns at once.                                                        *)
(***************************************************************************)
Configured(op, backend) ==
    /\ At(op, "config")
    /\ backend # "unset"
    /\ LET vision == backend = "vision" /\ ops[op].kind = "image"
           start == ~vision /\ engine # "ready"
       IN  /\ ops' = [ops EXCEPT ![op].phase = IF vision THEN "visionOpen" ELSE "poll",
                                 ![op].backend = backend]
           /\ engine' = IF start THEN "loading" ELSE engine
           /\ ui' = IF start THEN [ui EXCEPT !.isModelLoading = TRUE] ELSE ui
    /\ UNCHANGED <<generation, llm, modelLoads, timer, dialog, form, cancelled>>

StartProgress(op, stage, phase) ==
    /\ timer' = [op |-> op, stage |-> stage]
    /\ Goto(op, phase)
    /\ UNCHANGED <<generation, modelVars, ui, dialog, form, cancelled>>

VisionOpened(op) == At(op, "visionOpen") /\ StartProgress(op, "imageRecognizing", "visionAnswer")

(* A missing image is a failed result like one the model answers with. *)
VisionAnswers(op, success) ==
    /\ At(op, "visionAnswer") \/ (At(op, "visionOpen") /\ ~success)
    /\ Finish(op, op, IF success THEN op ELSE 0)

(***************************************************************************)
(* _pollWaitForModel finds nothing loading any more.  A recognition whose  *)
(* engine is not available returns null from here, and isLoading stays.    *)
(***************************************************************************)
PollEnds(op) ==
    /\ At(op, "poll")
    /\ ~ServiceLoading
    /\ \/ /\ engine # "ready"
          /\ ui' = [ui EXCEPT !.isModelLoading = FALSE]
          /\ Return(op, 0)
          /\ UNCHANGED <<generation, modelVars, timer, cancelled>>
       \/ /\ engine = "ready"
          /\ ops[op].backend = "local" /\ llm = "unsupported"
          /\ Finish(op, 0, 0)
       \/ /\ engine = "ready"
          /\ ~(ops[op].backend = "local" /\ llm = "unsupported")
          /\ ui' = [ui EXCEPT !.isModelLoading = FALSE]
          /\ Goto(op, "open")
          /\ UNCHANGED <<generation, modelVars, timer, dialog, form, cancelled>>

(* The file is there; the text of an image or of a PDF is extracted. *)
Opened(op) == At(op, "open") /\ StartProgress(op, "ocrRecognizing", "recognize")

TextRecognized(op) == At(op, "recognize") /\ StartProgress(op, "llmParsing", "parse")

Parsed(op, success) ==
    /\ At(op, "parse")
    /\ Finish(op, op, IF success THEN op ELSE 0)

RecognitionStep(op) ==
    \/ Superseded(op)
    \/ Fail(op)
    \/ \E backend \in Backends : Configured(op, backend)
    \/ VisionOpened(op)
    \/ \E success \in BOOLEAN : VisionAnswers(op, success) \/ Parsed(op, success)
    \/ PollEnds(op)
    \/ Opened(op)
    \/ TextRecognized(op)
-------------------------------------------------------------------------------
(* The periodic callback, which checks for itself whether it is wanted. *)
Tick ==
    /\ timer.op # 0
    /\ ui.stage # timer.stage
    /\ IF IsCurrent(timer.op)
       THEN ui' = [ui EXCEPT !.stage = timer.stage] /\ UNCHANGED timer
       ELSE timer' = NoTimer /\ UNCHANGED ui
    /\ UNCHANGED <<generation, ops, modelVars, dialog, form, cancelled>>

(* A bug: cancelling resets the state and leaves the operation current. *)
CancelStateOnly ==
    /\ dialog.op # 0 /\ ~dialog.cancelled
    /\ generation < MaxOperationId
    /\ timer' = NoTimer
    /\ ui' = Idle
    /\ dialog' = [dialog EXCEPT !.cancelled = TRUE]
    /\ cancelled' = cancelled \union {dialog.op}
    /\ UNCHANGED <<generation, ops, modelVars, form>>

(* _handleCancel of the window and cancelRecognition; the window stays. *)
Cancel ==
    /\ dialog.op # 0 /\ ~dialog.cancelled
    /\ generation < MaxOperationId
    /\ generation' = generation + 1
    /\ timer' = NoTimer
    /\ ui' = Idle
    /\ dialog' = [dialog EXCEPT !.cancelled = TRUE]
    /\ cancelled' = cancelled \union {dialog.op}
    /\ UNCHANGED <<ops, modelVars, form>>

(* A file shared with the app replaces the edit screen and its window. *)
ShareArrives ==
    /\ dialog.op # 0
    /\ dialog' = NoDialog
    /\ form' = 0
    /\ UNCHANGED <<generation, ops, modelVars, ui, timer, cancelled>>

(* OcrService._initializeInBackground has its answer. *)
EngineLoaded ==
    /\ engine = "loading"
    /\ \E ok \in (IF EngineMayFail THEN BOOLEAN ELSE {TRUE}) :
          engine' = IF ok THEN "ready" ELSE "failed"
    /\ UNCHANGED <<generation, ops, llm, modelLoads, ui, timer, dialog, form, cancelled>>

(* The preload at the start, or the first local completion. *)
LlmStarts ==
    /\ llm = "off"
    /\ modelLoads < MaxModelLoads
    /\ llm' = "loading"
    /\ modelLoads' = modelLoads + 1
    /\ UNCHANGED <<generation, ops, engine, ui, timer, dialog, form, cancelled>>

LlmLoaded ==
    /\ llm = "loading"
    /\ llm' \in {"off", "ready", "unsupported"}
    /\ UNCHANGED <<generation, ops, engine, modelLoads, ui, timer, dialog, form, cancelled>>

Next ==
    \/ \E kind \in Kinds : Begin(kind)
    \/ \E op \in Ids : RecognitionStep(op)
    \/ Tick \/ Cancel \/ ShareArrives
    \/ EngineLoaded \/ LlmStarts \/ LlmLoaded

Spec == Init /\ [][Next]_vars

(* A request to a cloud model has no timeout: nothing says when it ends. *)
AwaitsCloud(op) ==
    \/ ops[op].phase = "visionAnswer"
    \/ ops[op].phase = "parse" /\ ops[op].backend # "local"

(* Every platform call and file access is answered or fails. *)
FairSpec ==
    /\ Spec
    /\ \A op \in Ids : WF_vars(~AwaitsCloud(op) /\ RecognitionStep(op))
    /\ WF_vars(EngineLoaded)
    /\ WF_vars(LlmLoaded)
-------------------------------------------------------------------------------
(* The types; a window belongs to a recognition that has not returned yet. *)
TypeOK ==
    /\ generation \in 0 .. MaxOperationId
    /\ ops \in [Ids -> [phase : Waiting \union {"none", "ended"}, kind : Kinds,
                        backend : Backends]]
    /\ engine \in {"off", "loading", "ready", "failed"}
    /\ llm \in {"off", "loading", "ready", "unsupported"}
    /\ modelLoads \in 0 .. MaxModelLoads
    /\ ui \in [result : {0} \union Ids, isLoading : BOOLEAN, isModelLoading : BOOLEAN,
               stage : Stages]
    /\ timer \in [op : {0} \union Ids, stage : Stages]
    /\ dialog \in [op : {0} \union Ids, cancelled : BOOLEAN]
    /\ dialog.op # 0 => IsRunning(dialog.op)
    /\ form \in {0} \union Ids
    /\ cancelled \subseteq 1 .. generation

(***************************************************************************)
(* The late answer of a cancelled recognition reaches neither the state    *)
(* nor the form, whatever was started since.                               *)
(***************************************************************************)
CancelledStaysCancelled == ui.result \notin cancelled /\ form \notin cancelled

(***************************************************************************)
(* Progress is shown only for a recognition that still runs and is wanted: *)
(* no timer outlives its recognition or draws into the next one.           *)
(***************************************************************************)
ProgressIsCurrent ==
    ui.stage # "idle" => generation \in Ids \ cancelled /\ IsRunning(generation)

(***************************************************************************)
(* While a recognition nobody cancelled runs, the state says so: an older  *)
(* one that ends late does not enable the button under it.                 *)
(***************************************************************************)
WantedIsShown == \A op \in Ids \ cancelled : IsRunning(op) => ui.isLoading

(***************************************************************************)
(* The window closes: every recognition returns, cancelled or not, unless  *)
(* a cloud model keeps it waiting.  None polls for a model for ever.       *)
(***************************************************************************)
RecognitionsEnd == \A op \in Ids : IsRunning(op) ~> ~IsRunning(op) \/ AwaitsCloud(op)

(***************************************************************************)
(* isLoading, which the edit screens show as "recognizing" and disable the *)
(* button for, is true only while a recognition runs.                      *)
(***************************************************************************)
LoadingIsRecognizing == ui.isLoading => \E op \in Ids : IsRunning(op)
===============================================================================
