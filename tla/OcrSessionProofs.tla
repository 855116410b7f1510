--------------------------- MODULE OcrSessionProofs ---------------------------
(***************************************************************************)
(* Proofs about OcrSession for any number of recognitions, cancellations   *)
(* and model loads.                                                        *)
(***************************************************************************)
EXTENDS OcrSession, TLAPS

USE OcrAssumption

(* Only operation numbers that were given out are in use; the newest one   *)
(* is not that of a cancelled recognition.                                 *)
NumbersInv ==
    /\ \A op \in Ids : ops[op].phase # "none" => op <= generation
    /\ generation \notin cancelled

(* The form was filled by a recognition that has returned. *)
FormInv == form # 0 => ops[form].phase = "ended"

(* A window that was not cancelled waits for the newest recognition. *)
DialogInv == dialog.op # 0 /\ ~dialog.cancelled => dialog.op = generation

(* The timer is that of the newest recognition, which still runs. *)
TimerInv == timer.op # 0 => timer.op = generation /\ IsRunning(generation)

(* A recognition that is wanted is the newest. *)
WantedInv == \A op \in Ids \ cancelled : IsRunning(op) => op = generation

(* Before the text or the image is worked on nothing shows progress. *)
Early == {"config", "visionOpen", "poll", "open"}

EarlyInv ==
    generation \in Ids /\ ops[generation].phase \in Early => timer.op = 0 /\ ui.stage = "idle"

IInv ==
    /\ TypeOK
    /\ NumbersInv
    /\ FormInv
    /\ DialogInv
    /\ TimerInv
    /\ WantedInv
    /\ EarlyInv
    /\ CancelledStaysCancelled
    /\ ProgressIsCurrent
    /\ WantedIsShown

(* Nothing runs, nothing is shown, nothing is cancelled. *)
LEMMA InitEstablishes == Init => IInv
<1> SUFFICES ASSUME Init PROVE IInv
  OBVIOUS
<1>1. TypeOK
  BY DEF Init, TypeOK, Idle, NoOp, NoTimer, NoDialog, Ids, Kinds, Backends, Stages
<1>2. \A op \in Ids : ~IsRunning(op) /\ ops[op].phase = "none"
  BY DEF Init, NoOp, IsRunning, Waiting
<1>3. NumbersInv /\ FormInv /\ DialogInv /\ TimerInv /\ WantedInv /\ EarlyInv
  BY <1>2 DEF Init, NumbersInv, FormInv, DialogInv, TimerInv, WantedInv, EarlyInv, NoDialog,
              NoTimer, Ids
<1>4. CancelledStaysCancelled /\ ProgressIsCurrent /\ WantedIsShown
  BY <1>2 DEF Init, CancelledStaysCancelled, ProgressIsCurrent, WantedIsShown, Idle
<1> QED
  BY <1>1, <1>3, <1>4 DEF IInv

-------------------------------------------------------------------------------
(* A recognition begins only when none is wanted that still runs. *)
LEMMA BeginPreserves ==
    ASSUME IInv, NEW kind \in Kinds, Begin(kind)
    PROVE  IInv'
<1> DEFINE new == generation + 1
<1> USE DEF IInv
<1>1. new \in Ids /\ generation \in Nat
  BY DEF Begin, TypeOK, Ids
<1>2. /\ ops' = [ops EXCEPT ![new] = [phase |-> "config", kind |-> kind, backend |-> "unset"]]
      /\ generation' = new /\ timer' = NoTimer
      /\ dialog' = [op |-> new, cancelled |-> FALSE]
      /\ ui' = [ui EXCEPT !.result = 0, !.isLoading = TRUE, !.stage = "idle"]
      /\ UNCHANGED <<engine, llm, modelLoads, form, cancelled>>
      /\ ~ui.isLoading
  BY DEF Begin, NewOp, modelVars
<1>3. /\ ops'[new].phase = "config"
      /\ \A op \in Ids \ {new} : ops'[op] = ops[op]
  BY <1>1, <1>2 DEF TypeOK
<1>4. /\ ui'.result = 0 /\ ui'.isLoading = TRUE /\ ui'.stage = "idle"
  BY <1>2 DEF TypeOK
<1>5. TypeOK'
  <2>1. ops' \in [Ids -> [phase : Waiting \union {"none", "ended"}, kind : Kinds, backend : Backends]]
    BY <1>1, <1>2 DEF TypeOK, Waiting, Backends
  <2>2. dialog'.op = new /\ ops'[new].phase \in Waiting
    BY <1>2, <1>3 DEF Waiting
  <2>3. cancelled' \subseteq 1 .. generation' /\ generation' \in 0 .. MaxOperationId
    BY <1>1, <1>2 DEF TypeOK, Ids
  <2> QED
    BY <1>1, <1>2, <2>1, <2>2, <2>3 DEF TypeOK, NoTimer, Stages, IsRunning
<1>6. \A op \in Ids : ops[op].phase # "none" => op <= generation
  BY DEF NumbersInv
<1>7. NumbersInv'
  BY <1>1, <1>2, <1>3, <1>6 DEF NumbersInv, TypeOK, Ids
<1>8. FormInv'
  <2>1. form # 0 => form \in Ids /\ form # new
    BY <1>1, <1>6 DEF FormInv, TypeOK
  <2> QED
    BY <1>2, <1>3, <2>1 DEF FormInv
<1>9. DialogInv' /\ TimerInv' /\ EarlyInv' /\ ProgressIsCurrent'
  BY <1>2, <1>4 DEF DialogInv, TimerInv, EarlyInv, ProgressIsCurrent, NoTimer
<1>10. \A op \in Ids \ cancelled : ~IsRunning(op)
  BY <1>2 DEF WantedIsShown
<1>11. WantedInv' /\ WantedIsShown'
  BY <1>2, <1>3, <1>4, <1>10 DEF WantedInv, WantedIsShown, IsRunning
<1>12. CancelledStaysCancelled'
  BY <1>2, <1>4 DEF CancelledStaysCancelled, TypeOK
<1> QED
  BY <1>5, <1>7, <1>8, <1>9, <1>11, <1>12

(* What a return changes: one recognition has ended and its window is gone. *)
LEMMA ReturnFacts ==
    ASSUME IInv, NEW op \in Ids, IsRunning(op), NEW filling \in {0, op}, Return(op, filling)
    PROVE  /\ ops' \in [Ids -> [phase : Waiting \union {"none", "ended"}, kind : Kinds,
                                backend : Backends]]
           /\ ops'[op].phase = "ended"
           /\ \A o \in Ids \ {op} : ops'[o] = ops[o]
           /\ dialog' \in {dialog, NoDialog} /\ dialog'.op # op
           /\ form' \in {form, filling}
<1> USE DEF IInv
<1>1. ops' = [ops EXCEPT ![op] = [phase |-> "ended", kind |-> "image", backend |-> "unset"]]
  BY DEF Return, EndedOp
<1>2. op # 0
  BY DEF Ids
<1> QED
  BY <1>1, <1>2 DEF Return, TypeOK, Kinds, Backends, NoDialog

(* A recognition that is not current ends without a trace. *)
LEMMA SupersededPreserves ==
    ASSUME IInv, NEW op \in Ids, Superseded(op)
    PROVE  IInv'
<1> USE DEF IInv
<1>1. /\ IsRunning(op) /\ op # generation /\ Return(op, 0)
      /\ UNCHANGED <<generation, engine, llm, modelLoads, ui, timer, cancelled>>
  BY DEF Superseded, IsCurrent, modelVars
<1>2. /\ ops' \in [Ids -> [phase : Waiting \union {"none", "ended"}, kind : Kinds, backend : Backends]]
      /\ ops'[op].phase = "ended"
      /\ \A o \in Ids \ {op} : ops'[o] = ops[o]
      /\ dialog' \in {dialog, NoDialog} /\ dialog'.op # op
      /\ form' \in {form, 0}
  BY <1>1, ReturnFacts
<1>3. ~IsRunning(op)' /\ \A o \in Ids \ {op} : IsRunning(o)' <=> IsRunning(o)
  BY <1>2 DEF IsRunning, Waiting
<1>4. generation \in Ids => (IsRunning(generation)' <=> IsRunning(generation))
  BY <1>1, <1>3
<1>5. TypeOK'
  <2>1. dialog'.op # 0 => ops'[dialog'.op].phase \in Waiting
    BY <1>2 DEF TypeOK, NoDialog, IsRunning
  <2>2. dialog' \in [op : {0} \union Ids, cancelled : BOOLEAN]
    <3>1. NoDialog \in [op : {0} \union Ids, cancelled : BOOLEAN]
      BY DEF NoDialog
    <3> QED
      BY <1>2, <3>1 DEF TypeOK
  <2>3. form' \in {0} \union Ids
    BY <1>2 DEF TypeOK
  <2> QED
    BY <1>1, <1>2, <2>1, <2>2, <2>3 DEF TypeOK, IsRunning
<1>6. NumbersInv'
  BY <1>1, <1>2 DEF NumbersInv, IsRunning, Waiting
<1>7. FormInv'
  BY <1>2 DEF FormInv, TypeOK
<1>8. DialogInv'
  BY <1>1, <1>2 DEF DialogInv, NoDialog
<1>9. TimerInv' /\ EarlyInv' /\ ProgressIsCurrent'
  BY <1>1, <1>2, <1>4 DEF TimerInv, EarlyInv, ProgressIsCurrent, TypeOK
<1>10. WantedInv' /\ WantedIsShown'
  BY <1>1, <1>3 DEF WantedInv, WantedIsShown
<1>11. CancelledStaysCancelled'
  <2>1. 0 \notin cancelled
    BY DEF TypeOK
  <2> QED
    BY <1>1, <1>2, <2>1 DEF CancelledStaysCancelled
<1> QED
  BY <1>5, <1>6, <1>7, <1>8, <1>9, <1>10, <1>11

(* The newest recognition ends, with a result or without. *)
LEMMA FinishPreserves ==
    ASSUME IInv, NEW op \in Ids, IsRunning(op), IsCurrent(op),
           NEW result \in {0, op}, NEW filling \in {0, op}, Finish(op, result, filling)
    PROVE  IInv'
<1> USE DEF IInv
<1>1. /\ op = generation /\ Return(op, filling) /\ timer' = Stopped(op)
      /\ ui' = [ui EXCEPT !.result = IF result = 0 THEN @ ELSE result,
                          !.isLoading = FALSE, !.isModelLoading = FALSE, !.stage = "idle"]
      /\ UNCHANGED <<generation, engine, llm, modelLoads, cancelled>>
  BY DEF Finish, IsCurrent, modelVars
<1>2. /\ ops' \in [Ids -> [phase : Waiting \union {"none", "ended"}, kind : Kinds, backend : Backends]]
      /\ ops'[op].phase = "ended"
      /\ \A o \in Ids \ {op} : ops'[o] = ops[o]
      /\ dialog' \in {dialog, NoDialog} /\ dialog'.op # op
      /\ form' \in {form, filling}
  BY <1>1, ReturnFacts
<1>3. ~IsRunning(op)' /\ \A o \in Ids \ {op} : IsRunning(o)' <=> IsRunning(o)
  BY <1>2 DEF IsRunning, Waiting
<1>4. /\ ui' \in [result : {0} \union Ids, isLoading : BOOLEAN, isModelLoading : BOOLEAN, stage : Stages]
      /\ ui'.result \in {ui.result, op} /\ ui'.stage = "idle"
  BY <1>1 DEF TypeOK, Stages
<1>5. timer'.op = 0 /\ timer' \in [op : {0} \union Ids, stage : Stages]
  <2>1. CASE timer.op = op
    BY <1>1, <2>1 DEF Stopped, NoTimer, Stages
  <2>2. CASE timer.op # op
    BY <1>1, <2>2 DEF Stopped, TimerInv, TypeOK
  <2> QED
    BY <2>1, <2>2
<1>6. TypeOK'
  <2>1. dialog'.op # 0 => ops'[dialog'.op].phase \in Waiting
    BY <1>2 DEF TypeOK, NoDialog, IsRunning
  <2>2. dialog' \in [op : {0} \union Ids, cancelled : BOOLEAN]
    <3>1. NoDialog \in [op : {0} \union Ids, cancelled : BOOLEAN]
      BY DEF NoDialog
    <3> QED
      BY <1>2, <3>1 DEF TypeOK
  <2>3. form' \in {0} \union Ids
    BY <1>2 DEF TypeOK
  <2> QED
    BY <1>1, <1>2, <1>4, <1>5, <2>1, <2>2, <2>3 DEF TypeOK, IsRunning
<1>7. NumbersInv'
  BY <1>1, <1>2 DEF NumbersInv, IsRunning, Waiting
<1>8. FormInv'
  BY <1>2 DEF FormInv, TypeOK
<1>9. DialogInv'
  BY <1>1, <1>2 DEF DialogInv, NoDialog
<1>10. TimerInv' /\ EarlyInv' /\ ProgressIsCurrent'
  BY <1>4, <1>5 DEF TimerInv, EarlyInv, ProgressIsCurrent
<1>11. WantedInv' /\ WantedIsShown'
  BY <1>1, <1>3 DEF WantedInv, WantedIsShown
<1>12. CancelledStaysCancelled'
  BY <1>1, <1>2, <1>4 DEF CancelledStaysCancelled, NumbersInv, TypeOK
<1> QED
  BY <1>6, <1>7, <1>8, <1>9, <1>10, <1>11, <1>12
(***************************************************************************)
(* The newest recognition goes on to another phase; the timer that it may  *)
(* start is its own.                                                       *)
(***************************************************************************)
LEMMA AdvancePreserves ==
    ASSUME IInv, NEW op \in Ids, IsRunning(op), IsCurrent(op),
           NEW phase \in Waiting, NEW backend \in Backends,
           ops' = [ops EXCEPT ![op].phase = phase, ![op].backend = backend],
           timer' = timer \/ (\E stage \in Stages : timer' = [op |-> op, stage |-> stage]),
           phase \in Early => ops[op].phase \in Early /\ timer' = timer,
           NEW loading \in BOOLEAN, ui' = [ui EXCEPT !.isModelLoading = loading],
           engine' \in {engine, "loading"},
           UNCHANGED <<generation, llm, modelLoads, dialog, form, cancelled>>
    PROVE  IInv'
<1> USE DEF IInv
<1>1. /\ ops' \in [Ids -> [phase : Waiting \union {"none", "ended"}, kind : Kinds, backend : Backends]]
      /\ ops'[op].phase = phase
      /\ \A o \in Ids \ {op} : ops'[o] = ops[o]
  BY DEF TypeOK
<1>2. \A o \in Ids : ops'[o].phase \in Waiting <=> ops[o].phase \in Waiting
  BY <1>1 DEF IsRunning
<1>3. /\ ui' \in [result : {0} \union Ids, isLoading : BOOLEAN, isModelLoading : BOOLEAN, stage : Stages]
      /\ ui'.result = ui.result /\ ui'.stage = ui.stage /\ ui'.isLoading = ui.isLoading
  BY DEF TypeOK
<1>4. timer' \in [op : {0} \union Ids, stage : Stages] /\ timer'.op \in {timer.op, op}
  BY DEF TypeOK
<1>5. op = generation
  BY DEF IsCurrent
<1>6. TypeOK'
  BY <1>1, <1>2, <1>3, <1>4 DEF TypeOK, IsRunning
<1>7. NumbersInv'
  BY <1>1, <1>2, <1>5 DEF NumbersInv, TypeOK, Ids
<1>8. FormInv'
  BY <1>1, <1>2 DEF FormInv, TypeOK, IsRunning, Waiting
<1>9. DialogInv' /\ CancelledStaysCancelled'
  BY <1>3 DEF DialogInv, CancelledStaysCancelled
<1>10. ops'[generation'].phase \in Waiting
  BY <1>1, <1>5
<1>11. TimerInv'
  BY <1>4, <1>5, <1>10 DEF TimerInv, IsRunning
<1>12. ProgressIsCurrent'
  BY <1>3, <1>10 DEF ProgressIsCurrent, IsRunning
<1>13. EarlyInv'
  BY <1>1, <1>3, <1>5 DEF EarlyInv
<1>14. WantedInv' /\ WantedIsShown'
  BY <1>2, <1>3 DEF WantedInv, WantedIsShown, IsRunning
<1> QED
  BY <1>6, <1>7, <1>8, <1>9, <1>11, <1>12, <1>13, <1>14

(* The poll ends for want of an engine: the recognition has returned null. *)
LEMMA PollFailsPreserves ==
    ASSUME IInv, NEW op \in Ids, At(op, "poll"), Return(op, 0),
           ui' = [ui EXCEPT !.isModelLoading = FALSE],
           UNCHANGED <<generation, engine, llm, modelLoads, timer, cancelled>>
    PROVE  IInv'
<1> USE DEF IInv
<1>1. IsRunning(op) /\ op = generation
  BY DEF At, IsRunning, Waiting, IsCurrent
<1>0. timer.op = 0 /\ ui.stage = "idle"
  BY <1>1 DEF At, EarlyInv, Early
<1>2. /\ ops' \in [Ids -> [phase : Waiting \union {"none", "ended"}, kind : Kinds, backend : Backends]]
      /\ ops'[op].phase = "ended"
      /\ \A o \in Ids \ {op} : ops'[o] = ops[o]
      /\ dialog' \in {dialog, NoDialog} /\ dialog'.op # op
      /\ form' \in {form, 0}
  BY <1>1, ReturnFacts
<1>3. /\ ui' \in [result : {0} \union Ids, isLoading : BOOLEAN, isModelLoading : BOOLEAN, stage : Stages]
      /\ ui'.result = ui.result /\ ui'.stage = "idle" /\ ui'.isLoading = ui.isLoading
  BY <1>0 DEF TypeOK
<1>4. TypeOK'
  <2>1. dialog'.op # 0 => ops'[dialog'.op].phase \in Waiting
    BY <1>2 DEF TypeOK, NoDialog, IsRunning
  <2>2. dialog' \in [op : {0} \union Ids, cancelled : BOOLEAN]
    <3>1. NoDialog \in [op : {0} \union Ids, cancelled : BOOLEAN]
      BY DEF NoDialog
    <3> QED
      BY <1>2, <3>1 DEF TypeOK
  <2>3. form' \in {0} \union Ids
    BY <1>2 DEF TypeOK
  <2> QED
    BY <1>2, <1>3, <2>1, <2>2, <2>3 DEF TypeOK, IsRunning
<1>5. NumbersInv'
  BY <1>1, <1>2 DEF NumbersInv, IsRunning, Waiting
<1>6. FormInv'
  BY <1>2 DEF FormInv, TypeOK
<1>7. DialogInv'
  BY <1>1, <1>2 DEF DialogInv, NoDialog
<1>8. TimerInv' /\ EarlyInv' /\ ProgressIsCurrent'
  BY <1>0, <1>3 DEF TimerInv, EarlyInv, ProgressIsCurrent
<1>9. WantedInv' /\ WantedIsShown'
  BY <1>1, <1>2, <1>3 DEF WantedInv, WantedIsShown, IsRunning, Waiting
<1>10. CancelledStaysCancelled'
  <2>1. 0 \notin cancelled
    BY DEF TypeOK
  <2> QED
    BY <1>2, <1>3, <2>1 DEF CancelledStaysCancelled
<1> QED
  BY <1>4, <1>5, <1>6, <1>7, <1>8, <1>9, <1>10
(* Every step of a recognition is one of the four kinds above. *)
LEMMA RecognitionPreserves ==
    ASSUME IInv, NEW op \in Ids, RecognitionStep(op)
    PROVE  IInv'
<1> USE DEF IInv
<1>1. CASE Superseded(op)
  BY <1>1, SupersededPreserves
<1>2. CASE Fail(op)
  BY <1>2, FinishPreserves DEF Fail
<1>3. ASSUME NEW backend \in Backends, Configured(op, backend)
      PROVE  IInv'
  <2> DEFINE vision == backend = "vision" /\ ops[op].kind = "image"
             start == ~vision /\ engine # "ready"
             phase == IF vision THEN "visionOpen" ELSE "poll"
             loading == IF start THEN TRUE ELSE ui.isModelLoading
  <2>1. /\ IsRunning(op) /\ IsCurrent(op) /\ ops[op].phase \in Early
        /\ ops' = [ops EXCEPT ![op].phase = phase, ![op].backend = backend]
        /\ engine' \in {engine, "loading"}
        /\ UNCHANGED <<generation, llm, modelLoads, timer, dialog, form, cancelled>>
    BY <1>3 DEF Configured, At, IsRunning, Waiting, Early
  <2>2. ui' = [ui EXCEPT !.isModelLoading = loading] /\ loading \in BOOLEAN
    BY <1>3 DEF Configured, TypeOK
  <2>3. phase \in Waiting
    BY DEF Waiting
  <2> HIDE DEF phase, loading
  <2> QED
    BY <2>1, <2>2, <2>3, AdvancePreserves
<1>4. ASSUME NEW stage \in Stages, NEW phase \in {"visionAnswer", "recognize", "parse"},
             IsRunning(op), IsCurrent(op), StartProgress(op, stage, phase)
      PROVE  IInv'
  <2>1. ops' = [ops EXCEPT ![op].phase = phase, ![op].backend = ops[op].backend]
    BY <1>4 DEF StartProgress, Goto, TypeOK
  <2>2. ui' = [ui EXCEPT !.isModelLoading = ui.isModelLoading] /\ ui.isModelLoading \in BOOLEAN
    BY <1>4 DEF StartProgress, TypeOK
  <2>3. phase \in Waiting /\ phase \notin Early /\ ops[op].backend \in Backends
    BY DEF Waiting, Early, TypeOK
  <2>4. /\ timer' = [op |-> op, stage |-> stage]
        /\ UNCHANGED <<generation, engine, llm, modelLoads, dialog, form, cancelled>>
    BY <1>4 DEF StartProgress, modelVars
  <2> QED
    BY <1>4, <2>1, <2>2, <2>3, <2>4, AdvancePreserves
<1>5. CASE VisionOpened(op) \/ Opened(op) \/ TextRecognized(op)
  BY <1>4, <1>5 DEF VisionOpened, Opened, TextRecognized, At, IsRunning, Waiting, Stages
<1>6. ASSUME NEW success \in BOOLEAN, VisionAnswers(op, success) \/ Parsed(op, success)
      PROVE  IInv'
  <2>1. IsRunning(op) /\ IsCurrent(op) /\ Finish(op, op, IF success THEN op ELSE 0)
    BY <1>6 DEF VisionAnswers, Parsed, At, IsRunning, Waiting
  <2> QED
    BY <2>1, FinishPreserves
<1>7. CASE PollEnds(op)
  <2>0. At(op, "poll") /\ IsRunning(op) /\ IsCurrent(op)
    BY <1>7 DEF PollEnds, At, IsRunning, Waiting
  <2>1. CASE /\ ui' = [ui EXCEPT !.isModelLoading = FALSE]
             /\ Return(op, 0)
             /\ UNCHANGED <<generation, modelVars, timer, cancelled>>
    BY <2>0, <2>1, PollFailsPreserves DEF modelVars
  <2>2. CASE Finish(op, 0, 0)
    BY <2>0, <2>2, FinishPreserves
  <2>3. CASE /\ ui' = [ui EXCEPT !.isModelLoading = FALSE]
             /\ Goto(op, "open")
             /\ UNCHANGED <<generation, modelVars, timer, dialog, form, cancelled>>
    <3>1. ops' = [ops EXCEPT ![op].phase = "open", ![op].backend = ops[op].backend]
      BY <2>3 DEF Goto, TypeOK
    <3>2. "open" \in Waiting /\ ops[op].phase \in Early /\ ops[op].backend \in Backends
      BY <2>0 DEF Waiting, Early, At, TypeOK
    <3>3. UNCHANGED <<generation, engine, llm, modelLoads, timer, dialog, form, cancelled>>
      BY <2>3 DEF modelVars
    <3> QED
      BY <2>0, <2>3, <3>1, <3>2, <3>3, AdvancePreserves
  <2> QED
    BY <1>7, <2>1, <2>2, <2>3 DEF PollEnds
<1> QED
  BY <1>1, <1>2, <1>3, <1>5, <1>6, <1>7 DEF RecognitionStep
(* The timer draws for the recognition it was started for. *)
LEMMA TickPreserves ==
    ASSUME IInv, Tick
    PROVE  IInv'
<1> USE DEF IInv
<1>1. timer.op = generation /\ IsRunning(generation) /\ generation \in Ids
  BY DEF Tick, TimerInv, TypeOK
<1>2. /\ ui' = [ui EXCEPT !.stage = timer.stage]
      /\ UNCHANGED <<generation, ops, engine, llm, modelLoads, timer, dialog, form, cancelled>>
  BY <1>1 DEF Tick, IsCurrent, modelVars
<1>3. /\ ui' \in [result : {0} \union Ids, isLoading : BOOLEAN, isModelLoading : BOOLEAN, stage : Stages]
      /\ ui'.result = ui.result /\ ui'.isLoading = ui.isLoading
  BY <1>2 DEF TypeOK
<1>4. TypeOK'
  BY <1>2, <1>3 DEF TypeOK, IsRunning
<1>5. NumbersInv' /\ FormInv' /\ DialogInv' /\ TimerInv' /\ WantedInv'
  BY <1>2 DEF NumbersInv, FormInv, DialogInv, TimerInv, WantedInv, IsRunning
<1>6. EarlyInv'
  BY <1>1, <1>2 DEF Tick, EarlyInv, Ids
<1>7. ProgressIsCurrent'
  BY <1>1, <1>2 DEF ProgressIsCurrent, NumbersInv, IsRunning
<1>8. CancelledStaysCancelled' /\ WantedIsShown'
  BY <1>2, <1>3 DEF CancelledStaysCancelled, WantedIsShown, IsRunning
<1> QED
  BY <1>4, <1>5, <1>6, <1>7, <1>8

(* Cancelling outdates the recognition of the window and nothing else. *)
LEMMA CancelPreserves ==
    ASSUME IInv, Cancel
    PROVE  IInv'
<1> USE DEF IInv
<1>1. /\ dialog.op # 0 /\ ~dialog.cancelled /\ generation < MaxOperationId
      /\ generation' = generation + 1 /\ timer' = NoTimer /\ ui' = Idle
      /\ dialog' = [dialog EXCEPT !.cancelled = TRUE]
      /\ cancelled' = cancelled \union {dialog.op}
      /\ UNCHANGED <<ops, engine, llm, modelLoads, form>>
  BY DEF Cancel, modelVars
<1>2. dialog.op = generation /\ generation \in Ids /\ generation' \in Ids /\ IsRunning(generation)
  BY <1>1 DEF DialogInv, TypeOK, Ids
<1>3. dialog'.op = dialog.op /\ dialog'.cancelled = TRUE
      /\ dialog' \in [op : {0} \union Ids, cancelled : BOOLEAN]
  BY <1>1 DEF TypeOK
<1>4. TypeOK'
  <2>1. cancelled' \subseteq 1 .. generation'
    BY <1>1, <1>2 DEF TypeOK, Ids
  <2>2. ui' \in [result : {0} \union Ids, isLoading : BOOLEAN, isModelLoading : BOOLEAN, stage : Stages]
        /\ timer' \in [op : {0} \union Ids, stage : Stages]
    BY <1>1 DEF Idle, NoTimer, Stages
  <2>3. dialog'.op # 0 => ops'[dialog'.op].phase \in Waiting
    BY <1>1, <1>3 DEF TypeOK, IsRunning
  <2> QED
    BY <1>1, <1>2, <1>3, <2>1, <2>2, <2>3 DEF TypeOK, IsRunning, Ids
<1>5. NumbersInv'
  <2>1. \A op \in Ids : ops'[op].phase # "none" => op <= generation'
    BY <1>1, <1>2 DEF NumbersInv, Ids
  <2>2. generation' \notin cancelled'
    BY <1>1, <1>2 DEF TypeOK, Ids
  <2> QED
    BY <2>1, <2>2 DEF NumbersInv
<1>6. FormInv' /\ DialogInv' /\ TimerInv' /\ EarlyInv' /\ ProgressIsCurrent'
  BY <1>1, <1>3 DEF FormInv, DialogInv, TimerInv, EarlyInv, ProgressIsCurrent, NoTimer, Idle
<1>7. \A op \in Ids \ cancelled' : ops'[op].phase \notin Waiting
  BY <1>1, <1>2 DEF WantedInv, IsRunning
<1>8. WantedInv' /\ WantedIsShown'
  BY <1>7 DEF WantedInv, WantedIsShown, IsRunning
<1>9. CancelledStaysCancelled'
  <2>1. form # dialog.op
    BY <1>1, <1>2 DEF FormInv, IsRunning, Waiting
  <2>2. ui'.result = 0 /\ 0 \notin cancelled'
    BY <1>1, <1>2 DEF Idle, TypeOK, Ids
  <2> QED
    BY <1>1, <2>1, <2>2 DEF CancelledStaysCancelled
<1> QED
  BY <1>4, <1>5, <1>6, <1>8, <1>9

(* A share removes the window, and a model loads: no recognition moves. *)
LEMMA SurroundingsPreserve ==
    ASSUME IInv, ShareArrives \/ EngineLoaded \/ LlmStarts \/ LlmLoaded
    PROVE  IInv'
<1> USE DEF IInv
<1>1. UNCHANGED <<generation, ops, ui, timer, cancelled>>
  BY DEF ShareArrives, EngineLoaded, LlmStarts, LlmLoaded
<1>2. dialog' \in {dialog, NoDialog} /\ form' \in {form, 0}
  BY DEF ShareArrives, EngineLoaded, LlmStarts, LlmLoaded
<1>3. TypeOK'
  <2>1. engine' \in {"off", "loading", "ready", "failed"}
    BY DEF ShareArrives, EngineLoaded, LlmStarts, LlmLoaded, TypeOK, modelVars
  <2>2. llm' \in {"off", "loading", "ready", "unsupported"}
    BY DEF ShareArrives, EngineLoaded, LlmStarts, LlmLoaded, TypeOK, modelVars
  <2>3. modelLoads' \in 0 .. MaxModelLoads
    <3>1. modelLoads' \in {modelLoads, modelLoads + 1}
          /\ (modelLoads' = modelLoads \/ modelLoads < MaxModelLoads)
      BY DEF ShareArrives, EngineLoaded, LlmStarts, LlmLoaded, modelVars
    <3> QED
      BY <3>1 DEF TypeOK
  <2>4. dialog' \in [op : {0} \union Ids, cancelled : BOOLEAN]
    <3>1. NoDialog \in [op : {0} \union Ids, cancelled : BOOLEAN]
      BY DEF NoDialog
    <3> QED
      BY <1>2, <3>1 DEF TypeOK
  <2>5. dialog'.op # 0 => ops'[dialog'.op].phase \in Waiting
    BY <1>1, <1>2 DEF TypeOK, NoDialog, IsRunning
  <2> QED
    BY <1>1, <1>2, <2>1, <2>2, <2>3, <2>4, <2>5 DEF TypeOK, IsRunning
<1>4. NumbersInv' /\ TimerInv' /\ WantedInv' /\ EarlyInv' /\ ProgressIsCurrent' /\ WantedIsShown'
  BY <1>1 DEF NumbersInv, TimerInv, WantedInv, EarlyInv, ProgressIsCurrent, WantedIsShown, IsRunning
<1>5. FormInv' /\ DialogInv'
  BY <1>1, <1>2 DEF FormInv, DialogInv, NoDialog
<1>6. CancelledStaysCancelled'
  <2>1. 0 \notin cancelled
    BY DEF TypeOK
  <2> QED
    BY <1>1, <1>2, <2>1 DEF CancelledStaysCancelled
<1> QED
  BY <1>3, <1>4, <1>5, <1>6

-------------------------------------------------------------------------------
(* Every step preserves the inductive invariant. *)
LEMMA StepPreserves == IInv /\ [Next]_vars => IInv'
<1> SUFFICES ASSUME IInv, [Next]_vars PROVE IInv'
  OBVIOUS
<1>1. CASE \E kind \in Kinds : Begin(kind)
  BY <1>1, BeginPreserves
<1>2. CASE \E op \in Ids : RecognitionStep(op)
  BY <1>2, RecognitionPreserves
<1>3. CASE Tick
  BY <1>3, TickPreserves
<1>4. CASE Cancel
  BY <1>4, CancelPreserves
<1>5. CASE ShareArrives \/ EngineLoaded \/ LlmStarts \/ LlmLoaded
  BY <1>5, SurroundingsPreserve
<1>6. CASE UNCHANGED vars
  BY <1>6 DEF vars, IInv, TypeOK, NumbersInv, FormInv, DialogInv, TimerInv, WantedInv, EarlyInv,
              CancelledStaysCancelled, ProgressIsCurrent, WantedIsShown, IsRunning
<1> QED
  BY <1>1, <1>2, <1>3, <1>4, <1>5, <1>6 DEF Next

(* The inductive invariant holds of every behaviour. *)
THEOREM InductiveInvariant == Spec => []IInv
<1> QED
  BY InitEstablishes, StepPreserves, PTL DEF Spec

(* Types, and every window belongs to a recognition that still runs. *)
THEOREM TypeCorrect == Spec => []TypeOK
<1>1. IInv => TypeOK
  BY DEF IInv
<1> QED
  BY <1>1, InductiveInvariant, PTL

(***************************************************************************)
(* No late answer of a cancelled recognition is published or filled into   *)
(* the form, however many recognitions were started and cancelled.         *)
(***************************************************************************)
THEOREM NoLateResult == Spec => []CancelledStaysCancelled
<1>1. IInv => CancelledStaysCancelled
  BY DEF IInv
<1> QED
  BY <1>1, InductiveInvariant, PTL

(* Progress is never drawn for an ended, cancelled or older recognition. *)
THEOREM NoStaleProgress == Spec => []ProgressIsCurrent
<1>1. IInv => ProgressIsCurrent
  BY DEF IInv
<1> QED
  BY <1>1, InductiveInvariant, PTL

(* While a wanted recognition runs, the state says that one runs. *)
THEOREM WantedShown == Spec => []WantedIsShown
<1>1. IInv => WantedIsShown
  BY DEF IInv
<1> QED
  BY <1>1, InductiveInvariant, PTL
===============================================================================
