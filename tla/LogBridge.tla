------------------------------- MODULE LogBridge -------------------------------
(***************************************************************************)
(* The log bridge of mnn-jni.cpp: threads of native code push lines into a *)
(* queue, a thread takes them in batches and hands them to LogReceiver.    *)
(* MainActivity starts the bridge when it configures its Flutter engine    *)
(* and stops it when it is destroyed.  A line is its number in the order   *)
(* in which the lines were pushed.                                         *)
(***************************************************************************)
EXTENDS Naturals, Sequences

CONSTANTS
    BatchSize,      \* LOG_BATCH_SIZE
    MaxLines,       \* bound on the lines other threads log
    MaxActivities   \* bound on the activities that are created

ASSUME BridgeAssumption ==
    /\ BatchSize \in Nat \ {0}
    /\ MaxLines \in Nat
    /\ MaxActivities \in Nat

VARIABLES
    queue,          \* LogBuffer::queue_
    batch,          \* what the sender has taken and not yet sent
    received,       \* what LogReceiver has been given
    logged,         \* how many lines have been pushed
    running,        \* g_logThreadRunning
    sender,         \* where g_logThread is, none when it is not joinable
    main,           \* the main thread: free, or joining the sender
    library,        \* mnnLibLoaded
    activity,       \* an activity is there that has configured its engine
    finishing,      \* activities that finish and are not destroyed yet
    created,        \* activities created so far
    ocrEngine,      \* the OcrEngine of the activity: none, or one that is
                    \* free of affinity, or one that may bind its threads
    affinity,       \* KMP_AFFINITY is not disabled
    terminated      \* std::terminate was called

buffers == <<queue, batch, received, logged>>
activities == <<activity, finishing, created>>
ocr == <<ocrEngine, affinity>>
vars == <<buffers, running, sender, main, library, activities, ocr, terminated>>

SenderStates == {"none", "loop", "pop", "wait", "send", "ended"}

Init ==
    /\ queue = <<>>
    /\ batch = <<>>
    /\ received = <<>>
    /\ logged = 0
    /\ running = FALSE
    /\ sender = "none"
    /\ main = "free"
    /\ library = FALSE
    /\ activity = FALSE
    /\ finishing = 0
    /\ created = 0
    /\ ocrEngine = "none" /\ affinity = TRUE
    /\ terminated = FALSE

-------------------------------------------------------------------------------

(* A LogEntry; its level, module and message are left out. *)
NewLine == logged + 1

(* LogBuffer::push; from LOG_BATCH_SIZE lines on it wakes the sender. *)
Push == /\ queue' = Append(queue, NewLine)
        /\ logged' = NewLine

Woken(s) == IF s = "wait" /\ Len(queue) + 1 >= BatchSize THEN "pop" ELSE s

(* A thread of native code logs a line, whether the bridge runs or not. *)
Log ==
    /\ library /\ logged < MaxLines
    /\ Push
    /\ sender' = Woken(sender)
    /\ UNCHANGED <<batch, received, running, main, library, activities, ocr, terminated>>

-------------------------------------------------------------------------------

(* A bug: the loop does not ask whether it is to stop. *)
SenderLoopsOn ==
    /\ sender = "loop"
    /\ sender' = "pop"
    /\ UNCHANGED <<buffers, running, main, library, activities, ocr, terminated>>

(* The loop of logSenderThread. *)
SenderLoops ==
    /\ sender = "loop"
    /\ sender' = IF running THEN "pop" ELSE "ended"
    /\ UNCHANGED <<buffers, running, main, library, activities, ocr, terminated>>

Smaller(m, n) == IF m < n THEN m ELSE n

(* A bug: a batch is taken and all of the queue cleared. *)
TakeBatchClear ==
    /\ batch' = SubSeq(queue, 1, Smaller(Len(queue), 2 * BatchSize))
    /\ queue' = <<>>

TakeBatch ==
    LET n == Smaller(Len(queue), 2 * BatchSize)
    IN  /\ batch' = SubSeq(queue, 1, n)
        /\ queue' = SubSeq(queue, n + 1, Len(queue))

(* popBatch finds lines, or it waits. *)
Pop ==
    /\ sender = "pop"
    /\ IF queue = <<>>
       THEN sender' = "wait" /\ UNCHANGED <<queue, batch>>
       ELSE sender' = "send" /\ TakeBatch
    /\ UNCHANGED <<received, logged, running, main, library, activities, ocr, terminated>>

(* A bug: the sender waits for a full batch. *)
WaitTimesOutFull ==
    /\ sender = "wait"
    /\ Len(queue) >= BatchSize
    /\ TakeBatch
    /\ sender' = "send"
    /\ UNCHANGED <<received, logged, running, main, library, activities, ocr, terminated>>

(* LOG_FLUSH_INTERVAL_MS have passed; an empty batch sends the sender back. *)
WaitTimesOut ==
    /\ sender = "wait"
    /\ TakeBatch
    /\ sender' = IF queue = <<>> THEN "loop" ELSE "send"
    /\ UNCHANGED <<received, logged, running, main, library, activities, ocr, terminated>>

(* One line of the batch goes to LogReceiver.receiveLog. *)
Send ==
    /\ sender = "send"
    /\ received' = Append(received, Head(batch))
    /\ batch' = Tail(batch)
    /\ sender' = IF Tail(batch) = <<>> THEN "loop" ELSE "send"
    /\ UNCHANGED <<queue, logged, running, main, library, activities, ocr, terminated>>

SenderStep == SenderLoops \/ Pop \/ WaitTimesOut \/ Send

-------------------------------------------------------------------------------

(* The library is loaded by a thread of its own, at any time. *)
LibraryLoads ==
    /\ ~library
    /\ library' = TRUE
    /\ UNCHANGED <<buffers, running, sender, main, activities, ocr, terminated>>

(* Assigning a std::thread that is joinable terminates the process. *)
InitLogBridge ==
    /\ running' = TRUE
    /\ terminated' = (terminated \/ (~running /\ sender # "none"))

(* A bridge that runs is left as it is; then a line is logged. *)
InitCppLogBridge ==
    /\ InitLogBridge
    /\ Push
    /\ sender' = IF running THEN Woken(sender) ELSE "loop"

(* configureFlutterEngine: the bridge is started if the library is there. *)
CreateActivity ==
    /\ main = "free" /\ ~activity /\ created < MaxActivities
    /\ activity' = TRUE
    /\ created' = created + 1
    /\ IF library
       THEN InitCppLogBridge
       ELSE UNCHANGED <<queue, logged, running, sender, terminated>>
    /\ ocrEngine' = "none"
    /\ UNCHANGED <<batch, received, main, library, finishing, affinity>>

(* The user leaves; the system destroys the activity when it likes. *)
FinishActivity ==
    /\ main = "free" /\ activity
    /\ activity' = FALSE
    /\ finishing' = finishing + 1
    /\ UNCHANGED <<buffers, running, sender, main, library, created, ocr, terminated>>

(* A bug: shutdownLogBridge does not join the sender. *)
DestroyWithoutJoin ==
    /\ main = "free" /\ finishing > 0
    /\ finishing' = finishing - 1
    /\ running' = IF library THEN FALSE ELSE running
    /\ UNCHANGED <<buffers, sender, main, library, activity, created, ocr, terminated>>

(* The sender is told to stop and joined. *)
ShutdownLogBridge ==
    /\ running' = FALSE
    /\ main' = IF sender # "none" THEN "joining" ELSE "free"

(* onDestroy *)
DestroyActivity ==
    /\ main = "free" /\ finishing > 0
    /\ finishing' = finishing - 1
    /\ IF library THEN ShutdownLogBridge ELSE UNCHANGED <<running, main>>
    /\ UNCHANGED <<buffers, sender, library, activity, created, ocr, terminated>>

(* The join, and with it shutdownCppLogBridge, returns. *)
Joined ==
    /\ main = "joining" /\ sender = "ended"
    /\ main' = "free"
    /\ sender' = "none"
    /\ UNCHANGED <<buffers, running, library, activities, ocr, terminated>>

(* The environment of the process is changed, and a line is logged. *)
SetOmpAffinityDisabled ==
    /\ affinity' = FALSE
    /\ Push
    /\ sender' = Woken(sender)

(* initializeOcrAsync, on a thread of its own, if the library is there by then *)
CreateOcrEngine ==
    /\ activity /\ ocrEngine = "none"
    /\ IF library THEN SetOmpAffinityDisabled ELSE UNCHANGED <<queue, logged, sender, affinity>>
    /\ ocrEngine' = IF affinity' THEN "binding" ELSE "free"
    /\ UNCHANGED <<batch, received, running, main, library, activities, terminated>>

MainStep == CreateActivity \/ FinishActivity \/ DestroyActivity \/ Joined

Next == Log \/ SenderStep \/ LibraryLoads \/ CreateOcrEngine \/ MainStep

Spec == Init /\ [][Next]_vars

(* The threads run: the sender is scheduled, and so is a main thread it joins. *)
FairSpec == Spec /\ WF_vars(SenderStep) /\ WF_vars(Joined)

-------------------------------------------------------------------------------

TypeOK ==
    /\ queue \in Seq(Nat)
    /\ batch \in Seq(Nat)
    /\ received \in Seq(Nat)
    /\ logged \in Nat
    /\ running \in BOOLEAN
    /\ sender \in SenderStates
    /\ main \in {"free", "joining"}
    /\ library \in BOOLEAN
    /\ activity \in BOOLEAN
    /\ finishing \in Nat
    /\ created \in 0 .. MaxActivities
    /\ ocrEngine \in {"none", "binding", "free"}
    /\ affinity \in BOOLEAN
    /\ terminated \in BOOLEAN
    /\ batch # <<>> <=> sender = "send"

(***************************************************************************)
(* Across every start, stop and restart of the bridge each line is, once,  *)
(* received, in the batch or in the queue, in the order of the pushes:     *)
(* popBatch takes lines in batches under the mutex that push holds, and a  *)
(* batch outlives the request to stop.                                     *)
(***************************************************************************)
InOrderOnce ==
    /\ logged = Len(received) + Len(batch) + Len(queue)
    /\ \A i \in 1 .. Len(received) : received[i] = i
    /\ \A i \in 1 .. Len(batch) : batch[i] = Len(received) + i
    /\ \A i \in 1 .. Len(queue) : queue[i] = Len(received) + Len(batch) + i

(***************************************************************************)
(* However activities are created, finished and destroyed, a start never   *)
(* assigns over a thread that is still to be joined, which would terminate *)
(* the process; and when shutdownLogBridge has returned the sender is gone *)
(* and has sent all it took.                                               *)
(***************************************************************************)
StopsCleanly ==
    /\ ~terminated
    /\ main = "free" /\ ~running => sender = "none" /\ batch = <<>>

(***************************************************************************)
(* While the bridge is not stopped it forwards every line of the lines     *)
(* that come (there are finitely many), however few follow the last batch: *)
(* the wait of popBatch ends after an interval.                            *)
(***************************************************************************)
Forwarded ==
    running /\ Len(received) < logged ~> ~running \/ Len(received) = logged

(* The main thread, in onDestroy, does not wait for the sender for ever. *)
ShutdownEnds == main = "joining" ~> main = "free"
===============================================================================
