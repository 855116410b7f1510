--------------------------- MODULE LogServiceProofs ---------------------------
(***************************************************************************)
(* The log bridge, for every batch size and every number of lines and      *)
(* activities: no line is lost, repeated or overtaken, and it stops        *)
(* cleanly.  FileLogOutput, for every size of the buffer and of a file,    *)
(* every number of files, isolates and flushes under way: what it may      *)
(* lose.  And the bridge does in front of LogService what it does alone.   *)
(***************************************************************************)
EXTENDS LogService, TLAPS

USE DEF SenderStates

(***************************************************************************)
(* What makes a restart safe: a bridge that runs has a sender, one that is *)
(* stopped has one only while the main thread joins it.                    *)
(***************************************************************************)
SenderKnown ==
    /\ ~terminated
    /\ running => sender # "none"
    /\ main = "joining" => ~running /\ sender # "none"
    /\ main = "free" /\ ~running => sender = "none"
    /\ sender = "ended" => ~running

IInv == TypeOK /\ SenderKnown /\ InOrderOnce

(* Taking a batch splits the queue in two. *)
LEMMA BatchSplitsQueue ==
    ASSUME queue \in Seq(Nat), BatchSize \in Nat \ {0}, TakeBatch
    PROVE  /\ batch' \in Seq(Nat) /\ queue' \in Seq(Nat)
           /\ Len(batch') + Len(queue') = Len(queue)
           /\ \A i \in 1 .. Len(batch') : batch'[i] = queue[i]
           /\ \A i \in 1 .. Len(queue') : queue'[i] = queue[Len(batch') + i]
           /\ queue # <<>> <=> batch' # <<>>
<1> DEFINE n == Smaller(Len(queue), 2 * BatchSize)
<1>1. /\ n \in 0 .. Len(queue)
      /\ queue # <<>> <=> n # 0
  BY DEF Smaller
<1>2. /\ batch' = SubSeq(queue, 1, n)
      /\ queue' = SubSeq(queue, n + 1, Len(queue))
  BY DEF TakeBatch
<1> HIDE DEF n
<1>3. /\ batch' \in Seq(Nat) /\ Len(batch') = n
      /\ \A i \in 1 .. n : batch'[i] = queue[i]
  BY <1>1, <1>2
<1>4. /\ queue' \in Seq(Nat) /\ Len(queue') = Len(queue) - n
      /\ \A i \in 1 .. Len(queue) - n : queue'[i] = queue[n + i]
  BY <1>1, <1>2
<1>5. queue # <<>> <=> batch' # <<>>
  BY <1>1, <1>3
<1> QED BY <1>1, <1>3, <1>4, <1>5

(* A push keeps the order, whoever pushes. *)
LEMMA PushKeepsOrder ==
    ASSUME TypeOK, InOrderOnce, Push, UNCHANGED <<batch, received>>
    PROVE  /\ queue' \in Seq(Nat) /\ logged' \in Nat
           /\ InOrderOnce'
<1>1. /\ queue' = Append(queue, logged + 1) /\ logged' = logged + 1
      /\ batch' = batch /\ received' = received
      /\ queue \in Seq(Nat) /\ batch \in Seq(Nat) /\ received \in Seq(Nat) /\ logged \in Nat
  BY DEF Push, NewLine, TypeOK
<1>2. /\ queue' \in Seq(Nat) /\ logged' \in Nat
      /\ Len(queue') = Len(queue) + 1
      /\ \A i \in 1 .. Len(queue) : queue'[i] = queue[i]
      /\ queue'[Len(queue) + 1] = logged + 1
  BY <1>1
<1>3. logged' = Len(received') + Len(batch') + Len(queue')
  BY <1>1, <1>2 DEF InOrderOnce
<1>4. \A i \in 1 .. Len(queue') : queue'[i] = Len(received') + Len(batch') + i
  <2> TAKE i \in 1 .. Len(queue')
  <2>1. CASE i \in 1 .. Len(queue)
    BY <1>1, <1>2, <2>1 DEF InOrderOnce
  <2>2. CASE i = Len(queue) + 1
    <3>1. queue'[i] = Len(received) + Len(batch) + Len(queue) + 1
      BY <1>2, <2>2 DEF InOrderOnce
    <3> QED BY <1>1, <2>2, <3>1
  <2> QED BY <1>1, <1>2, <2>1, <2>2
<1> QED BY <1>1, <1>2, <1>3, <1>4 DEF InOrderOnce

LEMMA InitEstablishes == Init => IInv
<1> SUFFICES ASSUME Init PROVE IInv
  OBVIOUS
<1>1. TypeOK
  <2>1. queue \in Seq(Nat) /\ batch \in Seq(Nat) /\ received \in Seq(Nat)
    BY DEF Init
  <2>2. finishing \in Nat /\ logged \in Nat /\ created \in 0 .. MaxActivities
    BY BridgeAssumption DEF Init
  <2>3. batch # <<>> <=> sender = "send"
    BY DEF Init
  <2> QED BY <2>1, <2>2, <2>3 DEF Init, TypeOK
<1>2. SenderKnown
  BY DEF Init, SenderKnown
<1>3. InOrderOnce
  <2>1. Len(queue) = 0 /\ Len(batch) = 0 /\ Len(received) = 0 /\ logged = 0
    BY DEF Init
  <2> QED BY <2>1 DEF InOrderOnce
<1> QED BY <1>1, <1>2, <1>3 DEF IInv

(* A step that takes a batch keeps the order. *)
LEMMA TakingKeepsOrder ==
    ASSUME IInv, TakeBatch, batch = <<>>, UNCHANGED <<received, logged>>
    PROVE  /\ batch' \in Seq(Nat) /\ queue' \in Seq(Nat)
           /\ queue # <<>> <=> batch' # <<>>
           /\ InOrderOnce'
<1>1. /\ queue \in Seq(Nat) /\ received \in Seq(Nat) /\ Len(batch) = 0
      /\ received' = received /\ logged' = logged
  BY DEF IInv, TypeOK
<1>2. /\ logged = Len(received) + Len(queue)
      /\ \A i \in 1 .. Len(received) : received[i] = i
      /\ \A i \in 1 .. Len(queue) : queue[i] = Len(received) + i
  BY <1>1 DEF IInv, InOrderOnce
<1>3. /\ batch' \in Seq(Nat) /\ queue' \in Seq(Nat)
      /\ Len(batch') + Len(queue') = Len(queue)
      /\ \A i \in 1 .. Len(batch') : batch'[i] = queue[i]
      /\ \A i \in 1 .. Len(queue') : queue'[i] = queue[Len(batch') + i]
      /\ queue # <<>> <=> batch' # <<>>
  BY <1>1, BatchSplitsQueue, BridgeAssumption
<1>4. logged' = Len(received') + Len(batch') + Len(queue')
  <2>1. Len(batch') \in Nat /\ Len(queue') \in Nat /\ Len(received) \in Nat
    BY <1>1, <1>3
  <2>2. received' = received /\ logged' = Len(received) + Len(queue)
    BY <1>1, <1>2
  <2>3. Len(batch') + Len(queue') = Len(queue)
    BY <1>3
  <2>4. Len(received) + Len(batch') + Len(queue') = Len(received) + Len(queue)
    BY <2>1, <2>3
  <2> QED BY <2>2, <2>4
<1>5. \A i \in 1 .. Len(batch') : batch'[i] = Len(received') + i
  <2> TAKE i \in 1 .. Len(batch')
  <2>1. Len(batch') \in Nat /\ Len(queue') \in Nat /\ i \in 1 .. Len(queue)
    BY <1>1, <1>3
  <2>2. batch'[i] = queue[i] /\ queue[i] = Len(received) + i
    BY <1>2, <1>3, <2>1
  <2> QED BY <1>1, <2>2
<1>6. \A i \in 1 .. Len(queue') : queue'[i] = Len(received') + Len(batch') + i
  <2> TAKE i \in 1 .. Len(queue')
  <2>1. /\ Len(batch') \in Nat /\ Len(received) \in Nat /\ i \in Nat
        /\ Len(batch') + i \in 1 .. Len(queue)
    BY <1>1, <1>3
  <2>2. queue'[i] = queue[Len(batch') + i]
    BY <1>3
  <2>3. queue[Len(batch') + i] = Len(received) + (Len(batch') + i)
    BY <1>2, <2>1
  <2>4. Len(received) + (Len(batch') + i) = Len(received) + Len(batch') + i
    BY <2>1
  <2> QED BY <1>1, <2>2, <2>3, <2>4
<1> QED BY <1>1, <1>2, <1>3, <1>4, <1>5, <1>6 DEF InOrderOnce

(* Each step of each thread preserves the invariant. *)
LEMMA StepPreserves == IInv /\ [Next]_vars => IInv'
<1> SUFFICES ASSUME IInv, [Next]_vars PROVE IInv'
  OBVIOUS
<1> USE BridgeAssumption
<1>1. CASE Log
  <2>1. /\ Push /\ UNCHANGED <<batch, received, running, main, activities, terminated>>
        /\ sender' = Woken(sender)
    BY <1>1 DEF Log
  <2>2. queue' \in Seq(Nat) /\ logged' \in Nat /\ InOrderOnce'
    BY <2>1, PushKeepsOrder DEF IInv
  <2>3. TypeOK'
    BY <1>1, <2>1, <2>2 DEF IInv, TypeOK, Woken, Log, activities, ocr
  <2>4. SenderKnown'
    BY <2>1 DEF IInv, SenderKnown, TypeOK, Woken
  <2> QED BY <2>2, <2>3, <2>4 DEF IInv
<1>2. CASE SenderLoops
  BY <1>2 DEF SenderLoops, IInv, TypeOK, SenderKnown, InOrderOnce, buffers, activities, ocr
<1>3. CASE Pop
  <2>1. CASE queue = <<>>
    BY <1>3, <2>1 DEF Pop, IInv, TypeOK, SenderKnown, InOrderOnce, activities, ocr
  <2>2. CASE queue # <<>>
    <3>1. batch = <<>> /\ TakeBatch /\ UNCHANGED <<received, logged>>
      BY <1>3, <2>2 DEF Pop, IInv, TypeOK
    <3>2. /\ batch' \in Seq(Nat) /\ queue' \in Seq(Nat) /\ batch' # <<>>
          /\ InOrderOnce'
      BY <2>2, <3>1, TakingKeepsOrder
    <3>3. TypeOK'
      BY <1>3, <2>2, <3>1, <3>2 DEF Pop, IInv, TypeOK, activities, ocr
    <3> QED BY <1>3, <2>2, <3>2, <3>3 DEF Pop, IInv, SenderKnown
  <2> QED BY <2>1, <2>2
<1>4. CASE WaitTimesOut
  <2>1. batch = <<>> /\ TakeBatch /\ UNCHANGED <<received, logged>>
    BY <1>4 DEF WaitTimesOut, IInv, TypeOK
  <2>2. /\ batch' \in Seq(Nat) /\ queue' \in Seq(Nat)
        /\ queue # <<>> <=> batch' # <<>>
        /\ InOrderOnce'
    BY <2>1, TakingKeepsOrder
  <2>3. TypeOK'
    BY <1>4, <2>1, <2>2 DEF WaitTimesOut, IInv, TypeOK, activities, ocr
  <2> QED BY <1>4, <2>2, <2>3 DEF WaitTimesOut, IInv, SenderKnown
<1>5. CASE Send
  <2>1. /\ batch # <<>> /\ batch \in Seq(Nat) /\ received \in Seq(Nat) /\ queue \in Seq(Nat)
        /\ received' = Append(received, Head(batch)) /\ batch' = Tail(batch)
        /\ queue' = queue /\ logged' = logged
    BY <1>5 DEF Send, IInv, TypeOK
  <2>2. /\ batch' \in Seq(Nat) /\ Len(batch') = Len(batch) - 1
        /\ \A i \in 1 .. Len(batch') : batch'[i] = batch[i + 1]
        /\ received' \in Seq(Nat) /\ Len(received') = Len(received) + 1
        /\ \A i \in 1 .. Len(received) : received'[i] = received[i]
        /\ received'[Len(received) + 1] = batch[1]
        /\ Len(batch) > 0
    BY <2>1
  <2>3. InOrderOnce'
    BY <2>1, <2>2 DEF IInv, InOrderOnce
  <2>4. TypeOK'
    BY <1>5, <2>1, <2>2 DEF Send, IInv, TypeOK, activities, ocr
  <2> QED BY <1>5, <2>3, <2>4 DEF Send, IInv, SenderKnown
<1>6. CASE LibraryLoads
  BY <1>6 DEF LibraryLoads, IInv, TypeOK, SenderKnown, InOrderOnce, buffers, activities, ocr
<1>7. CASE CreateActivity
  <2>0. TypeOK /\ SenderKnown /\ InOrderOnce
    BY DEF IInv
  <2>1. CASE library
    <3>1. /\ Push /\ running'
          /\ UNCHANGED <<batch, received, main, library, finishing>>
          /\ terminated' = (terminated \/ (~running /\ sender # "none"))
          /\ sender' = IF running THEN Woken(sender) ELSE "loop"
      BY <1>7, <2>1 DEF CreateActivity, InitCppLogBridge, InitLogBridge
    <3>2. queue' \in Seq(Nat) /\ logged' \in Nat /\ InOrderOnce'
      BY <2>0, <3>1, PushKeepsOrder
    <3>3. /\ activity' = TRUE /\ created' = created + 1 /\ created < MaxActivities /\ main = "free"
          /\ ocrEngine' = "none" /\ affinity' = affinity
      BY <1>7 DEF CreateActivity
    <3>4. SenderKnown' /\ sender' \in SenderStates /\ (sender' = "send" <=> sender = "send")
      BY <2>0, <3>1, <3>3 DEF SenderKnown, Woken, TypeOK
    <3>5. TypeOK'
      BY <2>0, <3>1, <3>2, <3>3, <3>4 DEF TypeOK, SenderKnown
    <3> QED BY <3>2, <3>4, <3>5 DEF IInv
  <2>2. CASE ~library
    BY <1>7, <2>0, <2>2 DEF CreateActivity, IInv, TypeOK, SenderKnown, InOrderOnce
  <2> QED BY <2>1, <2>2
<1>8. CASE FinishActivity
  <2>1. TypeOK'
    <3>1. finishing' \in Nat
      <4>1. finishing \in Nat /\ finishing' = finishing + 1
        BY <1>8 DEF FinishActivity, IInv, TypeOK
      <4> QED BY <4>1
    <3>2. activity' \in BOOLEAN
      BY <1>8, Zenon DEF FinishActivity
    <3> QED BY <1>8, <3>1, <3>2 DEF FinishActivity, IInv, TypeOK, buffers, ocr
  <2>2. SenderKnown' /\ InOrderOnce'
    BY <1>8 DEF FinishActivity, IInv, SenderKnown, InOrderOnce, buffers
  <2> QED BY <2>1, <2>2 DEF IInv
<1>9. CASE DestroyActivity
  <2>1. TypeOK'
    <3>1. finishing' \in Nat
      <4>1. finishing \in Nat /\ finishing > 0 /\ finishing' = finishing - 1
        BY <1>9 DEF DestroyActivity, ShutdownLogBridge, IInv, TypeOK
      <4> QED BY <4>1
    <3>2. running' \in BOOLEAN /\ main' \in {"free", "joining"}
      BY <1>9 DEF DestroyActivity, ShutdownLogBridge, IInv, TypeOK
    <3> QED BY <1>9, <3>1, <3>2 DEF DestroyActivity, ShutdownLogBridge, IInv, TypeOK, buffers, ocr
  <2>2. SenderKnown'
    BY <1>9 DEF DestroyActivity, ShutdownLogBridge, IInv, TypeOK, SenderKnown
  <2>3. InOrderOnce'
    BY <1>9 DEF DestroyActivity, ShutdownLogBridge, IInv, InOrderOnce, buffers
  <2> QED BY <2>1, <2>2, <2>3 DEF IInv
<1>10. CASE Joined
  BY <1>10 DEF Joined, IInv, TypeOK, SenderKnown, InOrderOnce, buffers, activities, ocr
<1>11. CASE CreateOcrEngine
  <2>0. TypeOK /\ SenderKnown /\ InOrderOnce
    BY DEF IInv
  <2>1. ocrEngine' \in {"none", "binding", "free"}
    BY <1>11 DEF CreateOcrEngine
  <2>2. CASE library
    <3>1. /\ Push /\ affinity' = FALSE /\ sender' = Woken(sender)
          /\ UNCHANGED <<batch, received, running, main, library, activities, terminated>>
      BY <1>11, <2>2 DEF CreateOcrEngine, SetOmpAffinityDisabled
    <3>2. queue' \in Seq(Nat) /\ logged' \in Nat /\ InOrderOnce'
      BY <2>0, <3>1, PushKeepsOrder
    <3>3. TypeOK'
      BY <2>0, <2>1, <3>1, <3>2 DEF TypeOK, Woken, activities
    <3>4. SenderKnown'
      BY <2>0, <3>1 DEF SenderKnown, TypeOK, Woken
    <3> QED BY <3>2, <3>3, <3>4 DEF IInv
  <2>3. CASE ~library
    <3>1. UNCHANGED <<buffers, sender, affinity, running, main, library, activities, terminated>>
      BY <1>11, <2>3 DEF CreateOcrEngine, buffers
    <3> QED BY <2>0, <2>1, <3>1 DEF IInv, TypeOK, SenderKnown, InOrderOnce, buffers, activities
  <2> QED BY <2>2, <2>3
<1>12. CASE UNCHANGED vars
  BY <1>12 DEF vars, buffers, activities, ocr, IInv, TypeOK, SenderKnown, InOrderOnce
<1> QED
  BY <1>1, <1>2, <1>3, <1>4, <1>5, <1>6, <1>7, <1>8, <1>9, <1>10, <1>11, <1>12
     DEF Next, SenderStep, MainStep

(* The invariant holds throughout; its parts are the theorems below. *)
LEMMA Invariance == Spec => []IInv
BY InitEstablishes, StepPreserves, PTL DEF Spec

(* Every variable keeps its type, and the sender has a batch exactly while *)
(* it sends.                                                               *)
THEOREM TypeCorrect == Spec => []TypeOK
<1>1. IInv => TypeOK
  BY DEF IInv
<1> QED BY <1>1, Invariance, PTL

(***************************************************************************)
(* popBatch and push lose, repeat and reorder no line, for any batch size, *)
(* across any number of starts and stops of the bridge.                    *)
(***************************************************************************)
THEOREM LinesInOrder == Spec => []InOrderOnce
<1>1. IInv => InOrderOnce
  BY DEF IInv
<1> QED BY <1>1, Invariance, PTL

(***************************************************************************)
(* initLogBridge never assigns over a joinable thread, and a bridge that   *)
(* shutdownLogBridge has stopped is quiet.                                 *)
(***************************************************************************)
THEOREM BridgeStopsCleanly == Spec => []StopsCleanly
<1>1. IInv => StopsCleanly
  BY DEF IInv, SenderKnown, StopsCleanly, TypeOK
<1> QED BY <1>1, Invariance, PTL

-------------------------------------------------------------------------------
(* FileLogOutput, behind the bridge. *)

HIDE DEF SenderStates

IsCall(c) ==
    /\ c = FlushCall(c.isolate, c.at, c.day, c.content, c.file)
    /\ c.content \in Seq(Nat)
    /\ IF c.at = "idle" THEN c.isolate = 0 ELSE c.isolate \in Isolates
    /\ c.at = "writing" => c.file # NoFile

AreCalls(fs) ==
    /\ fs = [f \in Flushes |-> fs[f]]
    /\ \A f \in Flushes : IsCall(fs[f])

IsCurrent(c) == c = [file |-> c.file, date |-> c.date, size |-> c.size]

(***************************************************************************)
(* A flush of isolate i that holds its content has in it all of the buffer *)
(* but the lines that were given while some flush held its content: these  *)
(* are what clearing the buffer may lose.                                  *)
(***************************************************************************)
Covers(fs, i, lines, late) ==
    \A f \in Flushes :
        fs[f].isolate = i /\ fs[f].at # "switching"
            => Range(lines) \subseteq Range(fs[f].content) \union late

(***************************************************************************)
(* While nothing has failed: _currentFile is null only while a flush       *)
(* rotates the file, and a buffer that is full is about to be written.     *)
(***************************************************************************)
Healthy(cur, i, lines, fs) ==
    /\ cur.file = NoFile => \E f \in Flushes : fs[f].isolate = i /\ fs[f].at = "rotating"
    /\ Len(lines) >= BufferSize => \E f \in Flushes : fs[f].isolate = i

FilesHoldLines(fs) == \A f \in DOMAIN fs : fs[f] \in Seq(Nat)

Buffered(buffers_) == UNION {Range(buffers_[i]) : i \in Isolates}

Everywhere == Lines(files) \union Buffered(buffer) \union excused

ServiceTypes ==
    /\ written \in Nat
    /\ service = [i \in Isolates |-> service[i]]
    /\ buffer \in [Isolates -> Seq(Nat)]
    /\ current = [i \in Isolates |-> current[i]]
    /\ \A i \in Isolates : IsCurrent(current[i])
    /\ FilesHoldLines(files)
    /\ AreCalls(flushes)

(* What is kept of each isolate. *)
Sound(i, s, lines, cur, fs, late, bad) ==
    /\ Covers(fs, i, lines, late)
    /\ s # "ready" => lines = <<>>
    /\ s = "ready" /\ i \notin bad => Healthy(cur, i, lines, fs)

SInv ==
    /\ ServiceTypes
    /\ \A i \in Isolates : Sound(i, service[i], buffer[i], current[i], flushes, excused, failed)
    /\ 1 .. written \subseteq Everywhere

-------------------------------------------------------------------------------

LEMMA RangeAppend ==
    ASSUME NEW s \in Seq(Nat), NEW x \in Nat
    PROVE  Append(s, x) \in Seq(Nat) /\ Range(Append(s, x)) = Range(s) \union {x}
<1>1. /\ DOMAIN s = 1 .. Len(s)
      /\ DOMAIN Append(s, x) = 1 .. Len(s) + 1
      /\ \A i \in 1 .. Len(s) : Append(s, x)[i] = s[i]
      /\ Append(s, x)[Len(s) + 1] = x
      /\ Len(s) \in Nat
  OBVIOUS
<1>2. Range(Append(s, x)) \subseteq Range(s) \union {x}
  BY <1>1 DEF Range
<1>3. Range(s) \union {x} \subseteq Range(Append(s, x))
  BY <1>1 DEF Range
<1> QED BY <1>2, <1>3

LEMMA RangeConcat ==
    ASSUME NEW s \in Seq(Nat), NEW t \in Seq(Nat)
    PROVE  s \o t \in Seq(Nat) /\ Range(s) \union Range(t) \subseteq Range(s \o t)
<1>1. /\ DOMAIN s = 1 .. Len(s) /\ DOMAIN t = 1 .. Len(t)
      /\ DOMAIN (s \o t) = 1 .. Len(s) + Len(t)
      /\ \A i \in 1 .. Len(s) : (s \o t)[i] = s[i]
      /\ \A i \in 1 .. Len(t) : (s \o t)[Len(s) + i] = t[i]
      /\ Len(s) \in Nat /\ Len(t) \in Nat
  OBVIOUS
<1>2. Range(s) \subseteq Range(s \o t)
  BY <1>1 DEF Range
<1>3. ASSUME NEW y \in Range(t) PROVE y \in Range(s \o t)
  <2>1. PICK i \in 1 .. Len(t) : y = t[i]
    BY <1>1, <1>3 DEF Range
  <2>2. Len(s) + i \in DOMAIN (s \o t)
    BY <1>1
  <2> QED BY <1>1, <2>1, <2>2 DEF Range
<1> QED BY <1>2, <1>3

LEMMA RangeOfNothing == Range(<<>>) = {}
BY DEF Range

(* A file that is opened may be new; the others keep their lines. *)
LEMMA WithFileKeeps ==
    ASSUME FilesHoldLines(files), NEW file
    PROVE  /\ FilesHoldLines(WithFile(file))
           /\ Lines(files) \subseteq Lines(WithFile(file))
<1>1. /\ DOMAIN WithFile(file) = DOMAIN files \union file
      /\ \A f \in DOMAIN files : WithFile(file)[f] = files[f]
      /\ \A f \in DOMAIN WithFile(file) \ DOMAIN files : WithFile(file)[f] = <<>>
  BY DEF WithFile
<1> DEFINE opened == WithFile(file)
<1> HIDE DEF opened
<1>2. \A f \in DOMAIN opened : opened[f] \in Seq(Nat)
  <2>1. \A f \in DOMAIN files : opened[f] \in Seq(Nat)
    BY <1>1 DEF FilesHoldLines, opened
  <2>2. \A f \in DOMAIN opened \ DOMAIN files : opened[f] \in Seq(Nat)
    <3>1. <<>> \in Seq(Nat)
      OBVIOUS
    <3> QED BY <1>1, <3>1 DEF opened
  <2> QED BY <2>1, <2>2
<1>3. Lines(files) \subseteq Lines(opened)
  BY <1>1 DEF Lines, opened
<1> QED BY <1>2, <1>3 DEF FilesHoldLines, opened

(* The lines of files that are deleted are excused. *)
LEMMA DeleteKeeps ==
    ASSUME NEW fs, FilesHoldLines(fs), NEW kept \in SUBSET DOMAIN fs, Delete(fs, kept)
    PROVE  /\ FilesHoldLines(files')
           /\ Lines(fs) \subseteq Lines(files') \union excused'
           /\ excused \subseteq excused'
BY DEF Delete, FilesHoldLines, Restrict

LEMMA EnforceKeeps ==
    ASSUME NEW fs, FilesHoldLines(fs), Enforce(fs)
    PROVE  /\ FilesHoldLines(files')
           /\ Lines(fs) \subseteq Lines(files') \union excused'
           /\ excused \subseteq excused'
<1>1. PICK kept \in Spared(fs) : Delete(fs, kept)
  BY DEF Enforce
<1> QED BY <1>1, DeleteKeeps DEF Spared

-------------------------------------------------------------------------------

LEMMA IdleIsCall == IsCall(Idle) /\ Idle.isolate = 0 /\ Idle.at = "idle"
BY DEF Idle, FlushCall, IsCall

(* One call in the place of another leaves the rest as it was. *)
LEMMA ReplaceCall ==
    ASSUME NEW fs, NEW g \in Flushes, NEW c, AreCalls(fs), IsCall(c)
    PROVE  /\ AreCalls([fs EXCEPT ![g] = c])
           /\ \A f \in Flushes : [fs EXCEPT ![g] = c][f] = IF f = g THEN c ELSE fs[f]
<1>1. DOMAIN fs = Flushes
  BY DEF AreCalls
<1>2. \A f \in Flushes : [fs EXCEPT ![g] = c][f] = IF f = g THEN c ELSE fs[f]
  BY <1>1
<1>3. [fs EXCEPT ![g] = c] = [f \in Flushes |-> [fs EXCEPT ![g] = c][f]]
  BY <1>1
<1> QED BY <1>2, <1>3 DEF AreCalls

(* The flushes of an isolate are as they were. *)
SameFlushes(i, fs, gs) ==
    \A f \in Flushes : (fs[f].isolate = i \/ gs[f].isolate = i) => gs[f] = fs[f]

LEMMA ReplacedForOthers ==
    ASSUME NEW fs, NEW gs, NEW g \in Flushes, NEW c, NEW j,
           \A f \in Flushes : gs[f] = IF f = g THEN c ELSE fs[f],
           fs[g].isolate # j, c.isolate # j
    PROVE  SameFlushes(j, fs, gs)
BY DEF SameFlushes

(* Nothing else changes for such an isolate, but that more is excused. *)
LEMMA OthersSound ==
    ASSUME NEW i, NEW s, NEW lines, NEW cur, NEW fs, NEW late, NEW bad,
           NEW gs, NEW later, NEW worse,
           Sound(i, s, lines, cur, fs, late, bad), SameFlushes(i, fs, gs),
           late \subseteq later, i \notin worse => i \notin bad
    PROVE  Sound(i, s, lines, cur, gs, later, worse)
<1>1. Covers(gs, i, lines, later)
  BY DEF Sound, Covers, SameFlushes
<1>2. Healthy(cur, i, lines, fs) => Healthy(cur, i, lines, gs)
  BY DEF Healthy, SameFlushes
<1> QED BY <1>1, <1>2 DEF Sound

Busy(i, fs) == \E f \in Flushes : fs[f].isolate = i
Rotating(cur, i, fs) ==
    cur.file = NoFile => \E f \in Flushes : fs[f].isolate = i /\ fs[f].at = "rotating"

(* With a file, a flush goes on with all that it was given. *)
LEMMA CaptureIsCall ==
    ASSUME NEW i \in Isolates, NEW day, NEW lines \in Seq(Nat), NEW cur,
           IsCurrent(cur), cur.file # NoFile
    PROVE  LET s == Capture(i, day, lines, cur)
           IN  /\ IsCall(s.flush) /\ s.flush.isolate = i /\ s.flush.content = lines
               /\ IsCurrent(s.current)
               /\ s.current.file = NoFile => s.flush.at = "rotating"
BY DEF Capture, FlushCall, IsCall, IsCurrent

LEMMA SwitchingIsCall ==
    ASSUME NEW i \in Isolates, NEW day
    PROVE  LET c == FlushCall(i, "switching", day, <<>>, NoFile)
           IN  IsCall(c) /\ c.isolate = i /\ c.at = "switching"
BY DEF FlushCall, IsCall

(* What a flush begins concerns its isolate alone. *)
LEMMA FlushKeeps ==
    ASSUME NEW i \in Isolates, NEW lines \in Seq(Nat), NEW st, NEW late,
           IsCurrent(st.current), AreCalls(st.flushes), Covers(st.flushes, i, lines, late),
           Free(st.flushes) # {}
    PROVE  LET end == Flush(i, lines, st)
           IN  /\ IsCurrent(end.current) /\ AreCalls(end.flushes)
               /\ Covers(end.flushes, i, lines, late)
               /\ \A j \in Isolates \ {i} : SameFlushes(j, st.flushes, end.flushes)
               /\ Rotating(st.current, i, st.flushes)
                     => Rotating(end.current, i, end.flushes) /\ Busy(i, end.flushes)
               /\ Busy(i, st.flushes) => Busy(i, end.flushes)
<1> DEFINE end == Flush(i, lines, st)
<1>1. CASE st.current.file = NoFile
  <2>1. end = st
    BY <1>1 DEF Flush
  <2>2. Rotating(st.current, i, st.flushes) => Busy(i, st.flushes)
    BY <1>1 DEF Rotating, Busy
  <2>3. \A j \in Isolates \ {i} : SameFlushes(j, st.flushes, st.flushes)
    BY DEF SameFlushes
  <2> QED BY <2>1, <2>2, <2>3
<1>2. CASE st.current.file # NoFile
  <2> DEFINE captured == Capture(i, today, lines, st.current)
             switching == FlushCall(i, "switching", today, <<>>, NoFile)
             opened == [file |-> File(today, 0), date |-> today, size |-> 0]
             c == IF st.current.date = today THEN captured.flush ELSE switching
             cur == IF st.current.date = today THEN captured.current ELSE opened
             g == CHOOSE f \in Free(st.flushes) : TRUE
  <2>1. end.current = cur /\ end.flushes = [st.flushes EXCEPT ![g] = c]
    BY <1>2 DEF Flush
  <2>2. /\ IsCall(captured.flush) /\ captured.flush.isolate = i /\ captured.flush.content = lines
        /\ IsCurrent(captured.current)
        /\ captured.current.file = NoFile => captured.flush.at = "rotating"
    BY <1>2, CaptureIsCall
  <2>3. IsCall(switching) /\ switching.isolate = i /\ switching.at = "switching"
    BY SwitchingIsCall
  <2>4. IsCurrent(opened) /\ opened.file # NoFile
    BY DEF IsCurrent, File, NoFile
  <2>5. /\ IsCall(c) /\ c.isolate = i /\ (c.at # "switching" => c.content = lines)
        /\ IsCurrent(cur) /\ (cur.file = NoFile => c.at = "rotating")
    BY <2>2, <2>3, <2>4
  <2>6. g \in Flushes /\ st.flushes[g].isolate = 0
    BY IdleIsCall DEF Free
  <2> HIDE DEF c, cur, g, end
  <2>7. /\ AreCalls(end.flushes)
        /\ \A f \in Flushes : end.flushes[f] = IF f = g THEN c ELSE st.flushes[f]
    BY <2>1, <2>5, <2>6, ReplaceCall
  <2>8. Covers(end.flushes, i, lines, late)
    BY <2>5, <2>7 DEF Covers
  <2>9. \A j \in Isolates \ {i} : SameFlushes(j, st.flushes, end.flushes)
    <3> TAKE j \in Isolates \ {i}
    <3>1. st.flushes[g].isolate # j /\ c.isolate # j
      BY <2>5, <2>6 DEF Isolates
    <3> QED BY <2>6, <2>7, <3>1, ReplacedForOthers
  <2>10. Busy(i, end.flushes)
    BY <2>5, <2>6, <2>7 DEF Busy
  <2>11. Rotating(end.current, i, end.flushes)
    BY <2>1, <2>5, <2>6, <2>7 DEF Rotating
  <2> QED BY <2>1, <2>5, <2>7, <2>8, <2>9, <2>10, <2>11 DEF end
<1> QED BY <1>1, <1>2

(* output adds the line to the buffer; each flush it starts takes it along, *)
(* and for the flushes under way it is late.                                *)
LEMMA OutputKeeps ==
    ASSUME SInv, NEW i \in Isolates, NEW cur, NEW thenFlush \in BOOLEAN,
           Output(i, cur, thenFlush), IsCurrent(cur),
           i \notin failed => Rotating(cur, i, flushes)
    PROVE  /\ written' \in Nat /\ buffer' \in [Isolates -> Seq(Nat)] /\ AreCalls(flushes')
           /\ current' = [j \in Isolates |-> current'[j]]
           /\ IsCurrent(current'[i])
           /\ \A j \in Isolates \ {i} : /\ buffer'[j] = buffer[j] /\ current'[j] = current[j]
                                        /\ SameFlushes(j, flushes, flushes')
           /\ Covers(flushes', i, buffer'[i], excused')
           /\ i \notin failed => Healthy(current'[i], i, buffer'[i], flushes')
           /\ 1 .. written' \subseteq 1 .. written \union Buffered(buffer')
           /\ Buffered(buffer) \subseteq Buffered(buffer')
           /\ excused \subseteq excused'
<1> DEFINE line == written + 1
           lines == Append(buffer[i], line)
           isFull == Len(lines) >= BufferSize
           st == [current |-> cur, flushes |-> flushes]
           full == IF isFull THEN Flush(i, lines, st) ELSE st
           end == IF thenFlush THEN Flush(i, lines, full) ELSE full
<1>1. /\ written' = line /\ buffer' = [buffer EXCEPT ![i] = lines]
      /\ current' = [current EXCEPT ![i] = end.current] /\ flushes' = end.flushes
      /\ excused' = excused \union {l \in {line} : \E f \in Flushes : Holding(i, f)}
      /\ isFull => Free(flushes) # {}
      /\ thenFlush => Free(full.flushes) # {}
  BY Zenon DEF Output
<1>2. /\ written \in Nat /\ line \in Nat /\ buffer \in [Isolates -> Seq(Nat)]
      /\ current = [j \in Isolates |-> current[j]]
      /\ AreCalls(flushes) /\ Covers(flushes, i, buffer[i], excused)
  BY DEF SInv, ServiceTypes, Sound
<1>3. lines \in Seq(Nat) /\ Range(lines) = Range(buffer[i]) \union {line}
  BY <1>2, RangeAppend
<1>4. /\ st.current = cur /\ st.flushes = flushes
      /\ Covers(flushes, i, lines, excused')
  BY <1>1, <1>2, <1>3 DEF Covers, Holding
<1> HIDE DEF lines, st, line, isFull
<1>5. /\ IsCurrent(full.current) /\ AreCalls(full.flushes)
      /\ Covers(full.flushes, i, lines, excused')
      /\ \A j \in Isolates \ {i} : SameFlushes(j, flushes, full.flushes)
      /\ Rotating(cur, i, flushes) => Rotating(full.current, i, full.flushes)
      /\ Rotating(cur, i, flushes) /\ isFull => Busy(i, full.flushes)
  <2>1. CASE isFull
    BY <1>1, <1>2, <1>3, <1>4, <2>1, FlushKeeps
  <2>2. CASE ~isFull
    BY <1>2, <1>4, <2>2 DEF SameFlushes
  <2> QED BY <2>1, <2>2
<1> HIDE DEF full
<1>6. /\ IsCurrent(end.current) /\ AreCalls(end.flushes)
      /\ Covers(end.flushes, i, lines, excused')
      /\ \A j \in Isolates \ {i} : SameFlushes(j, full.flushes, end.flushes)
      /\ Rotating(full.current, i, full.flushes) => Rotating(end.current, i, end.flushes)
      /\ Busy(i, full.flushes) => Busy(i, end.flushes)
  <2>1. CASE thenFlush
    BY <1>1, <1>3, <1>5, <2>1, FlushKeeps
  <2>2. CASE ~thenFlush
    BY <1>5, <2>2 DEF SameFlushes
  <2> QED BY <2>1, <2>2
<1> HIDE DEF end
<1>7. /\ buffer' \in [Isolates -> Seq(Nat)] /\ buffer'[i] = lines
      /\ current' = [j \in Isolates |-> current'[j]] /\ current'[i] = end.current
      /\ \A j \in Isolates \ {i} : buffer'[j] = buffer[j] /\ current'[j] = current[j]
  BY <1>1, <1>2, <1>3
<1>8. i \notin failed => Healthy(end.current, i, lines, end.flushes)
  <2> SUFFICES ASSUME i \notin failed PROVE Healthy(end.current, i, lines, end.flushes)
    OBVIOUS
  <2>1. Rotating(end.current, i, end.flushes) /\ (isFull => Busy(i, end.flushes))
    BY <1>5, <1>6
  <2> QED BY <2>1 DEF Healthy, Rotating, Busy, isFull
<1>9. \A j \in Isolates \ {i} : SameFlushes(j, flushes, end.flushes)
  BY <1>5, <1>6 DEF SameFlushes
<1>10. Buffered(buffer) \subseteq Buffered(buffer') /\ line \in Buffered(buffer')
  <2>1. \A j \in Isolates : Range(buffer[j]) \subseteq Range(buffer'[j])
    BY <1>3, <1>7
  <2>2. line \in Range(buffer'[i])
    BY <1>3, <1>7
  <2> QED BY <2>1, <2>2 DEF Buffered
<1>11. 1 .. written' \subseteq 1 .. written \union Buffered(buffer')
  <2>1. written' = line /\ line = written + 1
    BY <1>1 DEF line
  <2>2. 1 .. line \subseteq 1 .. written \union {line}
    BY <1>2, <2>1
  <2> QED BY <1>10, <2>1, <2>2
<1>12. IsCurrent(current'[i]) /\ AreCalls(flushes') /\ Covers(flushes', i, buffer'[i], excused')
  BY <1>1, <1>6, <1>7, Zenon
<1>13. i \notin failed => Healthy(current'[i], i, buffer'[i], flushes')
  BY <1>1, <1>7, <1>8, Zenon
<1>14. \A j \in Isolates \ {i} : SameFlushes(j, flushes, flushes')
  BY <1>1, <1>9, Zenon
<1>15. written' \in Nat /\ excused \subseteq excused'
  BY <1>1, <1>2
<1> HIDE DEF line
<1> QED BY <1>7, <1>10, <1>11, <1>12, <1>13, <1>14, <1>15

-------------------------------------------------------------------------------

LEMMA ServiceInitEstablishes == ServiceInit => SInv
<1> SUFFICES ASSUME ServiceInit PROVE SInv
  OBVIOUS
<1>1. /\ written = 0 /\ files = [f \in {} |-> <<>>] /\ flushes = [f \in Flushes |-> Idle]
      /\ service = [i \in Isolates |-> "unset"] /\ buffer = [i \in Isolates |-> <<>>]
      /\ current = [i \in Isolates |-> Closed]
  BY DEF ServiceInit
<1>2. ServiceTypes
  <2>1. AreCalls(flushes)
    BY <1>1, IdleIsCall DEF AreCalls
  <2>2. FilesHoldLines(files) /\ written \in Nat
    BY <1>1 DEF FilesHoldLines
  <2>3. buffer \in [Isolates -> Seq(Nat)]
    BY <1>1
  <2>4. service = [i \in Isolates |-> service[i]] /\ current = [i \in Isolates |-> current[i]]
    BY <1>1
  <2>5. \A i \in Isolates : IsCurrent(current[i])
    BY <1>1 DEF IsCurrent, Closed
  <2> QED BY <2>1, <2>2, <2>3, <2>4, <2>5 DEF ServiceTypes
<1>3. ASSUME NEW i \in Isolates
      PROVE  Sound(i, service[i], buffer[i], current[i], flushes, excused, failed)
  <2>1. Covers(flushes, i, buffer[i], excused)
    BY <1>1, IdleIsCall DEF Covers, Isolates
  <2> QED BY <1>1, <2>1 DEF Sound
<1>4. 1 .. written \subseteq Everywhere
  BY <1>1
<1> QED BY <1>2, <1>3, <1>4 DEF SInv

(* Isolate i may change, the others do not. *)
OnlyChanges(i, s1, s2, b1, b2, c1, c2, fs, gs) ==
    \A j \in Isolates \ {i} :
        s2[j] = s1[j] /\ b2[j] = b1[j] /\ c2[j] = c1[j] /\ SameFlushes(j, fs, gs)

LEMMA SoundForAll ==
    ASSUME SInv, NEW i \in Isolates,
           OnlyChanges(i, service, service', buffer, buffer', current, current', flushes, flushes'),
           excused \subseteq excused', failed \subseteq failed',
           Sound(i, service'[i], buffer'[i], current'[i], flushes', excused', failed')
    PROVE  \A j \in Isolates :
              Sound(j, service'[j], buffer'[j], current'[j], flushes', excused', failed')
<1> TAKE j \in Isolates
<1>1. CASE j = i
  BY <1>1
<1>2. CASE j # i
  <2>1. Sound(j, service[j], buffer[j], current[j], flushes, excused, failed)
    BY DEF SInv
  <2>2. /\ service'[j] = service[j] /\ buffer'[j] = buffer[j] /\ current'[j] = current[j]
        /\ SameFlushes(j, flushes, flushes')
    BY <1>2 DEF OnlyChanges
  <2>3. j \notin failed' => j \notin failed
    OBVIOUS
  <2>4. Sound(j, service[j], buffer[j], current[j], flushes', excused', failed')
    BY <2>1, <2>2, <2>3, OthersSound
  <2> QED BY <2>2, <2>4
<1> QED BY <1>1, <1>2

LEMMA TypesNext ==
    ASSUME SInv, NEW i \in Isolates,
           OnlyChanges(i, service, service', buffer, buffer', current, current', flushes, flushes'),
           written' \in Nat, service' = [j \in Isolates |-> service'[j]],
           buffer' \in [Isolates -> Seq(Nat)], current' = [j \in Isolates |-> current'[j]],
           IsCurrent(current'[i]), FilesHoldLines(files'), AreCalls(flushes')
    PROVE  ServiceTypes'
<1>1. \A j \in Isolates : IsCurrent(current[j])
  BY DEF SInv, ServiceTypes
<1>2. \A j \in Isolates : IsCurrent(current'[j])
  BY <1>1 DEF OnlyChanges
<1> QED BY <1>2 DEF ServiceTypes

(* A line that is given to an isolate that is, or becomes, ready. *)
LEMMA OutputPreserves ==
    ASSUME SInv, NEW i \in Isolates, NEW cur, NEW thenFlush \in BOOLEAN,
           Output(i, cur, thenFlush), IsCurrent(cur),
           i \notin failed => Rotating(cur, i, flushes),
           service' = [service EXCEPT ![i] = "ready"], failed' = failed,
           FilesHoldLines(files'), Lines(files) \subseteq Lines(files')
    PROVE  SInv'
<1>1. /\ written' \in Nat /\ buffer' \in [Isolates -> Seq(Nat)] /\ AreCalls(flushes')
      /\ current' = [j \in Isolates |-> current'[j]]
      /\ IsCurrent(current'[i])
      /\ \A j \in Isolates \ {i} : /\ buffer'[j] = buffer[j] /\ current'[j] = current[j]
                                   /\ SameFlushes(j, flushes, flushes')
      /\ Covers(flushes', i, buffer'[i], excused')
      /\ i \notin failed => Healthy(current'[i], i, buffer'[i], flushes')
      /\ 1 .. written' \subseteq 1 .. written \union Buffered(buffer')
      /\ Buffered(buffer) \subseteq Buffered(buffer')
      /\ excused \subseteq excused'
  BY OutputKeeps
<1>2. /\ service' = [j \in Isolates |-> service'[j]] /\ service'[i] = "ready"
      /\ \A j \in Isolates \ {i} : service'[j] = service[j]
  <2>1. service = [j \in Isolates |-> service[j]]
    BY DEF SInv, ServiceTypes
  <2> QED BY <2>1
<1>3. OnlyChanges(i, service, service', buffer, buffer', current, current', flushes, flushes')
  BY <1>1, <1>2 DEF OnlyChanges
<1>4. ServiceTypes'
  BY <1>1, <1>2, <1>3, TypesNext
<1>5. Sound(i, service'[i], buffer'[i], current'[i], flushes', excused', failed')
  BY <1>1, <1>2 DEF Sound
<1>6. \A j \in Isolates :
         Sound(j, service'[j], buffer'[j], current'[j], flushes', excused', failed')
  BY <1>1, <1>3, <1>5, SoundForAll
<1>7. 1 .. written' \subseteq Everywhere'
  <2>1. 1 .. written \subseteq Lines(files) \union Buffered(buffer) \union excused
    BY DEF SInv, Everywhere
  <2>2. 1 .. written' \subseteq Lines(files') \union Buffered(buffer') \union excused'
    BY <1>1, <2>1
  <2> QED BY <2>2 DEF Everywhere, Lines, Buffered
<1> QED BY <1>4, <1>6, <1>7 DEF SInv

(* A flush takes its next step. *)
LEMMA FlushPreserves ==
    ASSUME SInv, NEW f \in Flushes, flushes[f].at # "idle", NEW c, IsCall(c),
           c.isolate \in {0, flushes[f].isolate},
           flushes' = [flushes EXCEPT ![f] = c],
           written' = written, service' = service,
           excused \subseteq excused', failed \subseteq failed',
           FilesHoldLines(files'),
           Lines(files) \subseteq Lines(files') \union excused',
           NEW lines, NEW cur, lines \in Seq(Nat), IsCurrent(cur),
           buffer' = [buffer EXCEPT ![flushes[f].isolate] = lines],
           current' = [current EXCEPT ![flushes[f].isolate] = cur],
           lines # <<>> => lines = buffer[flushes[f].isolate],
           Range(buffer[flushes[f].isolate]) \subseteq Range(lines) \union Lines(files') \union excused',
           c.isolate # 0 /\ c.at # "switching" => Range(lines) \subseteq Range(c.content) \union excused',
           service[flushes[f].isolate] = "ready" /\ flushes[f].isolate \notin failed'
              => Healthy(cur, flushes[f].isolate, lines, flushes')
    PROVE  SInv'
<1> DEFINE i == flushes[f].isolate
<1>1. AreCalls(flushes) /\ i \in Isolates /\ i # 0
  <2>1. AreCalls(flushes)
    BY DEF SInv, ServiceTypes
  <2>2. IsCall(flushes[f])
    BY <2>1 DEF AreCalls
  <2>3. i \in Isolates
    BY <2>2 DEF IsCall
  <2> QED BY <2>1, <2>3 DEF Isolates
<1> HIDE DEF i
<1>2. /\ AreCalls(flushes')
      /\ \A g \in Flushes : flushes'[g] = IF g = f THEN c ELSE flushes[g]
  <2>1. AreCalls(flushes) /\ IsCall(c) /\ f \in Flushes
    BY <1>1
  <2>2. /\ AreCalls([flushes EXCEPT ![f] = c])
        /\ \A g \in Flushes : [flushes EXCEPT ![f] = c][g] = IF g = f THEN c ELSE flushes[g]
    BY ONLY <2>1, ReplaceCall
  <2>3. flushes' = [flushes EXCEPT ![f] = c]
    OBVIOUS
  <2> QED BY <2>2, <2>3, Zenon
<1>3. /\ buffer \in [Isolates -> Seq(Nat)] /\ current = [j \in Isolates |-> current[j]]
      /\ service = [j \in Isolates |-> service[j]] /\ written \in Nat
  BY DEF SInv, ServiceTypes
<1>4. /\ buffer' \in [Isolates -> Seq(Nat)] /\ buffer'[i] = lines
      /\ \A j \in Isolates \ {i} : buffer'[j] = buffer[j]
  BY <1>1, <1>3 DEF i
<1>5. /\ current' = [j \in Isolates |-> current'[j]] /\ current'[i] = cur
      /\ \A j \in Isolates \ {i} : current'[j] = current[j]
  BY <1>1, <1>3 DEF i
<1>6. \A j \in Isolates \ {i} : SameFlushes(j, flushes, flushes')
  <2> TAKE j \in Isolates \ {i}
  <2>1. flushes[f].isolate # j /\ c.isolate # j
    BY DEF i, Isolates
  <2> QED BY <1>2, <2>1 DEF SameFlushes
<1>7. OnlyChanges(i, service, service', buffer, buffer', current, current', flushes, flushes')
  BY <1>4, <1>5, <1>6 DEF OnlyChanges
<1>8. ServiceTypes'
  BY <1>1, <1>2, <1>3, <1>4, <1>5, <1>7, TypesNext
<1>9. Sound(i, service[i], buffer[i], current[i], flushes, excused, failed)
  BY <1>1 DEF SInv
<1>10. Covers(flushes', i, lines, excused')
  <2> SUFFICES ASSUME NEW g \in Flushes, flushes'[g].isolate = i, flushes'[g].at # "switching"
               PROVE  Range(lines) \subseteq Range(flushes'[g].content) \union excused'
    BY DEF Covers
  <2>1. CASE g = f
    BY <1>1, <1>2, <2>1
  <2>2. CASE g # f
    <3>1. flushes'[g] = flushes[g]
      BY <1>2, <2>2
    <3>2. Range(buffer[i]) \subseteq Range(flushes[g].content) \union excused
      BY <1>9, <3>1 DEF Sound, Covers
    <3>3. lines = <<>> \/ lines = buffer[i]
      BY DEF i
    <3> QED BY <3>1, <3>2, <3>3, RangeOfNothing
  <2> QED BY <2>1, <2>2
<1>11. Sound(i, service'[i], buffer'[i], current'[i], flushes', excused', failed')
  <2>1. service[i] # "ready" => lines = <<>>
    BY <1>9 DEF Sound, i
  <2>2. service[i] = "ready" /\ i \notin failed' => Healthy(cur, i, lines, flushes')
    BY DEF i
  <2>3. Sound(i, service[i], lines, cur, flushes', excused', failed')
    BY <1>10, <2>1, <2>2 DEF Sound
  <2> QED BY <1>4, <1>5, <2>3
<1>12. \A j \in Isolates :
          Sound(j, service'[j], buffer'[j], current'[j], flushes', excused', failed')
  BY <1>1, <1>7, <1>11, SoundForAll
<1>13. 1 .. written' \subseteq Everywhere'
  <2>1. 1 .. written \subseteq Lines(files) \union Buffered(buffer) \union excused
    BY DEF SInv, Everywhere
  <2>2. \A j \in Isolates : Range(buffer[j]) \subseteq Range(buffer'[j]) \union Lines(files') \union excused'
    BY <1>4 DEF i
  <2>3. Buffered(buffer) \subseteq Buffered(buffer') \union Lines(files') \union excused'
    BY <2>2 DEF Buffered
  <2>4. 1 .. written' \subseteq Lines(files') \union Buffered(buffer') \union excused'
    BY <2>1, <2>3
  <2> QED BY <2>4 DEF Everywhere, Lines, Buffered
<1> QED BY <1>8, <1>12, <1>13 DEF SInv

(* What is known of a flush under way, and of its isolate. *)
LEMMA UnderWay ==
    ASSUME SInv, NEW f \in Flushes, flushes[f].at # "idle"
    PROVE  LET i == flushes[f].isolate
           IN  /\ i \in Isolates /\ IsCall(flushes[f]) /\ AreCalls(flushes) /\ FilesHoldLines(files)
               /\ buffer[i] \in Seq(Nat) /\ buffer = [buffer EXCEPT ![i] = buffer[i]]
               /\ IsCurrent(current[i]) /\ current = [current EXCEPT ![i] = current[i]]
               /\ flushes[f].content \in Seq(Nat)
               /\ flushes[f].at # "switching"
                     => Range(buffer[i]) \subseteq Range(flushes[f].content) \union excused
               /\ service[i] = "ready" /\ i \notin failed
                     => Healthy(current[i], i, buffer[i], flushes)
<1>1. IsCall(flushes[f]) /\ AreCalls(flushes)
  BY DEF SInv, ServiceTypes, AreCalls
<1>2. flushes[f].isolate \in Isolates /\ flushes[f].content \in Seq(Nat)
  BY <1>1 DEF IsCall
<1>3. /\ buffer \in [Isolates -> Seq(Nat)] /\ current = [j \in Isolates |-> current[j]]
      /\ \A j \in Isolates : IsCurrent(current[j])
      /\ FilesHoldLines(files)
  BY DEF SInv, ServiceTypes
<1> DEFINE i == flushes[f].isolate
<1>4. Sound(i, service[i], buffer[i], current[i], flushes, excused, failed)
  BY <1>2 DEF SInv
<1>5. buffer = [buffer EXCEPT ![i] = buffer[i]] /\ current = [current EXCEPT ![i] = current[i]]
  BY <1>3
<1> QED BY <1>1, <1>2, <1>3, <1>4, <1>5 DEF Sound, Covers

(* A flush that does not rotate may end while another one rotates the file; *)
(* else it is enough that it goes on with a file, or rotates it.            *)
LEMMA HealthyNext ==
    ASSUME NEW f \in Flushes, NEW c, NEW i, NEW lines, NEW fs, NEW cur, NEW old,
           AreCalls(fs), IsCall(c), fs[f].isolate = i,
           \/ /\ fs[f].at # "rotating" /\ old.file = NoFile /\ cur.file = NoFile
              /\ Rotating(old, i, fs)
           \/ c.isolate = i /\ (cur.file = NoFile => c.at = "rotating")
    PROVE  Healthy(cur, i, lines, [fs EXCEPT ![f] = c])
<1>0. AreCalls(fs) /\ IsCall(c) /\ f \in Flushes
  OBVIOUS
<1>1. /\ AreCalls([fs EXCEPT ![f] = c])
      /\ \A g \in Flushes : [fs EXCEPT ![f] = c][g] = IF g = f THEN c ELSE fs[g]
  BY ONLY <1>0, ReplaceCall
<1> DEFINE gs == [fs EXCEPT ![f] = c]
<1> HIDE DEF gs
<1>2. \A g \in Flushes : gs[g] = IF g = f THEN c ELSE fs[g]
  BY <1>1 DEF gs
<1>3. Healthy(cur, i, lines, gs)
  BY <1>2 DEF Healthy, Rotating
<1> QED BY <1>3 DEF gs

LEMMA EmptyIsHealthy ==
    ASSUME NEW f \in Flushes, NEW i, NEW fs, NEW cur, NEW old, AreCalls(fs),
           fs[f].isolate = i, fs[f].at # "rotating", cur.file = old.file,
           Rotating(old, i, fs)
    PROVE  Healthy(cur, i, <<>>, [fs EXCEPT ![f] = Idle])
<1>0. AreCalls(fs) /\ IsCall(Idle) /\ f \in Flushes
  BY IdleIsCall
<1>1. /\ AreCalls([fs EXCEPT ![f] = Idle])
      /\ \A g \in Flushes : [fs EXCEPT ![f] = Idle][g] = IF g = f THEN Idle ELSE fs[g]
  BY ONLY <1>0, ReplaceCall
<1>2. ~(Len(<<>>) >= BufferSize)
  BY ServiceAssumption
<1> QED BY <1>1, <1>2 DEF Healthy, Rotating

(* An await of a flush has thrown. *)
LEMMA FailsPreserves ==
    ASSUME SInv, NEW f \in Flushes, flushes[f].at # "idle", Fails(f), buffer' = buffer,
           FilesHoldLines(files'), Lines(files) \subseteq Lines(files') \union excused',
           excused \subseteq excused'
    PROVE  SInv'
<1> DEFINE i == flushes[f].isolate
<1>1. /\ buffer[i] \in Seq(Nat) /\ buffer' = [buffer EXCEPT ![i] = buffer[i]]
      /\ IsCurrent(current[i]) /\ current' = [current EXCEPT ![i] = current[i]]
  BY UnderWay DEF Fails
<1>2. /\ flushes' = [flushes EXCEPT ![f] = Idle] /\ written' = written /\ service' = service
      /\ failed' = failed \union {i}
  BY DEF Fails, output, lost
<1>3. failed \subseteq failed' /\ i \in failed'
  BY <1>2
<1>4. IsCall(Idle) /\ Idle.isolate = 0
  BY IdleIsCall
<1>5. Idle.isolate \in {0, i} /\ ~(Idle.isolate # 0)
  BY <1>4
<1> QED BY <1>1, <1>2, <1>3, <1>4, <1>5, FlushPreserves

LEMMA SwitchedPreserves == ASSUME SInv, NEW f \in Flushes, Switched(f) PROVE SInv'
<1> DEFINE i == flushes[f].isolate
           file == current[i].file
           fs == WithFile(file)
           now == [current[i] EXCEPT !.size = SizeOf(fs, file)]
           s == Capture(i, flushes[f].day, buffer[i], now)
<1>1. /\ flushes[f].at = "switching" /\ written' = written /\ service' = service
      /\ failed' = failed /\ buffer' = buffer
  BY DEF Switched
<1>2. /\ i \in Isolates /\ AreCalls(flushes) /\ FilesHoldLines(files)
      /\ buffer[i] \in Seq(Nat) /\ buffer = [buffer EXCEPT ![i] = buffer[i]]
      /\ IsCurrent(current[i]) /\ current = [current EXCEPT ![i] = current[i]]
      /\ service[i] = "ready" /\ i \notin failed => Healthy(current[i], i, buffer[i], flushes)
  BY <1>1, UnderWay
<1>3. CASE file = NoFile
  <2>1. /\ flushes' = [flushes EXCEPT ![f] = Idle] /\ files' = files /\ current' = current
        /\ excused' = excused
    BY <1>3 DEF Switched
  <2>2. IsCall(Idle) /\ Idle.isolate = 0
    BY IdleIsCall
  <2>3. service[i] = "ready" /\ i \notin failed
           => Healthy(current[i], i, buffer[i], [flushes EXCEPT ![f] = Idle])
    <3> SUFFICES ASSUME service[i] = "ready", i \notin failed
                 PROVE  Healthy(current[i], i, buffer[i], [flushes EXCEPT ![f] = Idle])
      OBVIOUS
    <3>1. Rotating(current[i], i, flushes)
      BY <1>2 DEF Healthy, Rotating
    <3> HIDE DEF i
    <3>2. flushes[f].isolate = i /\ flushes[f].at # "rotating" /\ current[i].file = NoFile
      BY <1>1, <1>3 DEF i
    <3> QED BY <1>2, <2>2, <3>1, <3>2, HealthyNext
  <2>4. Lines(files) \subseteq Lines(files') \union excused' /\ FilesHoldLines(files')
    BY <1>2, <2>1
  <2>5. excused \subseteq excused' /\ failed \subseteq failed'
    BY <1>1, <2>1
  <2>6. Idle.isolate \in {0, i} /\ ~(Idle.isolate # 0) /\ flushes[f].at # "idle"
    BY <1>1, <2>2
  <2>7. buffer' = [buffer EXCEPT ![i] = buffer[i]] /\ current' = [current EXCEPT ![i] = current[i]]
    BY <1>1, <1>2, <2>1
  <2>8. Range(buffer[i]) \subseteq Range(buffer[i]) \union Lines(files') \union excused'
    OBVIOUS
  <2> QED BY <1>1, <1>2, <2>1, <2>2, <2>3, <2>4, <2>5, <2>6, <2>7, <2>8, FlushPreserves
<1>4. CASE file # NoFile
  <2>1. /\ Enforce(fs) /\ flushes' = [flushes EXCEPT ![f] = s.flush]
        /\ current' = [current EXCEPT ![i] = s.current]
    BY <1>4 DEF Switched
  <2>2. FilesHoldLines(fs) /\ Lines(files) \subseteq Lines(fs)
    BY <1>2, WithFileKeeps
  <2>3. /\ FilesHoldLines(files') /\ excused \subseteq excused'
        /\ Lines(fs) \subseteq Lines(files') \union excused'
    BY <2>1, <2>2, EnforceKeeps
  <2>4. IsCurrent(now) /\ now.file # NoFile
    <3>1. current[i] = [file |-> current[i].file, date |-> current[i].date, size |-> current[i].size]
      BY <1>2 DEF IsCurrent
    <3> HIDE DEF fs, i
    <3> QED BY <1>4, <3>1 DEF IsCurrent
  <2> HIDE DEF now
  <2>5. /\ IsCall(s.flush) /\ s.flush.isolate = i /\ s.flush.content = buffer[i]
        /\ IsCurrent(s.current) /\ (s.current.file = NoFile => s.flush.at = "rotating")
    BY <1>2, <2>4, CaptureIsCall
  <2> HIDE DEF s, fs
  <2>6. Healthy(s.current, i, buffer[i], [flushes EXCEPT ![f] = s.flush])
    <3> HIDE DEF i
    <3>1. flushes[f].isolate = i
      BY DEF i
    <3> QED BY <1>2, <2>5, <3>1, HealthyNext
  <2>7. Lines(files) \subseteq Lines(files') \union excused' /\ failed \subseteq failed'
    BY <1>1, <2>2, <2>3
  <2>8. buffer' = [buffer EXCEPT ![i] = buffer[i]]
    BY <1>1, <1>2
  <2>9. s.flush.isolate \in {0, i} /\ flushes[f].at # "idle"
    BY <1>1, <2>5
  <2>10. /\ Range(buffer[i]) \subseteq Range(buffer[i]) \union Lines(files') \union excused'
         /\ Range(buffer[i]) \subseteq Range(s.flush.content) \union excused'
    BY <2>5
  <2>11. Healthy(s.current, i, buffer[i], flushes')
    BY <2>1, <2>6
  <2> QED BY <1>1, <1>2, <2>1, <2>3, <2>5, <2>7, <2>8, <2>9, <2>10, <2>11, FlushPreserves
<1> QED BY <1>3, <1>4

LEMMA RotatedPreserves == ASSUME SInv, NEW f \in Flushes, Rotated(f) PROVE SInv'
<1> DEFINE i == flushes[f].isolate
           next == File(flushes[f].day, Latest(flushes[f].day) + 1)
           cur == [current[i] EXCEPT !.file = next]
           c == FlushCall(i, "creating", flushes[f].day, flushes[f].content, next)
<1>1. /\ flushes[f].at = "rotating" /\ written' = written /\ service' = service
      /\ failed' = failed /\ buffer' = buffer /\ files' = files /\ excused' = excused
      /\ flushes' = [flushes EXCEPT ![f] = c] /\ current' = [current EXCEPT ![i] = cur]
  BY DEF Rotated, lost
<1>2. /\ i \in Isolates /\ IsCall(flushes[f]) /\ AreCalls(flushes) /\ FilesHoldLines(files)
      /\ buffer[i] \in Seq(Nat) /\ buffer' = [buffer EXCEPT ![i] = buffer[i]]
      /\ IsCurrent(current[i])
      /\ Range(buffer[i]) \subseteq Range(flushes[f].content) \union excused
  BY <1>1, UnderWay
<1>3. IsCall(c) /\ c.isolate = i /\ c.content = flushes[f].content
  <2>1. IsCall(flushes[f]) /\ flushes[f].at # "idle"
    BY <1>1, <1>2
  <2> HIDE DEF next
  <2> QED BY <2>1 DEF IsCall, FlushCall
<1>4. IsCurrent(cur) /\ cur.file # NoFile
  <2>1. current[i] = [file |-> current[i].file, date |-> current[i].date, size |-> current[i].size]
    BY <1>2 DEF IsCurrent
  <2>2. next # NoFile
    BY DEF File, NoFile
  <2> HIDE DEF next, i
  <2> QED BY <2>1, <2>2 DEF IsCurrent
<1> HIDE DEF c, cur
<1>5. Healthy(cur, i, buffer[i], [flushes EXCEPT ![f] = c])
  <2> HIDE DEF i
  <2>1. flushes[f].isolate = i
    BY DEF i
  <2> QED BY <1>2, <1>3, <1>4, <2>1, HealthyNext
<1>6. Healthy(cur, i, buffer[i], flushes')
  BY <1>1, <1>5
<1>7. c.isolate \in {0, i} /\ flushes[f].at # "idle" /\ excused \subseteq excused' /\ failed \subseteq failed'
  BY <1>1, <1>3
<1>8. /\ Range(buffer[i]) \subseteq Range(buffer[i]) \union Lines(files') \union excused'
      /\ Range(buffer[i]) \subseteq Range(c.content) \union excused'
      /\ Lines(files) \subseteq Lines(files') \union excused' /\ FilesHoldLines(files')
  BY <1>1, <1>2, <1>3
<1> QED BY <1>1, <1>2, <1>3, <1>4, <1>6, <1>7, <1>8, FlushPreserves

LEMMA CreatedPreserves == ASSUME SInv, NEW f \in Flushes, Created(f) PROVE SInv'
<1> DEFINE i == flushes[f].isolate
           file == current[i].file
           fs == WithFile(flushes[f].file)
           held == FlushCall(i, "writing", flushes[f].day, flushes[f].content, file)
           c == IF file = NoFile THEN Idle ELSE held
<1>1. /\ flushes[f].at = "creating" /\ written' = written /\ service' = service
      /\ failed' = failed /\ buffer' = buffer /\ current' = current
      /\ Enforce(fs) /\ flushes' = [flushes EXCEPT ![f] = c]
  BY DEF Created
<1>2. /\ i \in Isolates /\ IsCall(flushes[f]) /\ AreCalls(flushes) /\ FilesHoldLines(files)
      /\ buffer[i] \in Seq(Nat) /\ buffer' = [buffer EXCEPT ![i] = buffer[i]]
      /\ IsCurrent(current[i]) /\ current' = [current EXCEPT ![i] = current[i]]
      /\ Range(buffer[i]) \subseteq Range(flushes[f].content) \union excused
      /\ service[i] = "ready" /\ i \notin failed => Healthy(current[i], i, buffer[i], flushes)
  BY <1>1, UnderWay
<1>3. /\ IsCall(c) /\ c.isolate \in {0, i} /\ (c.isolate # 0 => c.content = flushes[f].content)
      /\ (file # NoFile => c.isolate = i)
  <2>1. CASE file # NoFile
    <3>1. IsCall(held) /\ held.isolate = i /\ held.content = flushes[f].content
      <4>1. IsCall(flushes[f]) /\ flushes[f].at # "idle"
        BY <1>1, <1>2
      <4> HIDE DEF file
      <4> QED BY <2>1, <4>1 DEF IsCall, FlushCall
    <3> QED BY <2>1, <3>1
  <2>2. CASE file = NoFile
    BY <2>2, IdleIsCall
  <2> QED BY <2>1, <2>2
<1> HIDE DEF c
<1>4. FilesHoldLines(fs) /\ Lines(files) \subseteq Lines(fs)
  BY <1>2, WithFileKeeps
<1>5. /\ FilesHoldLines(files') /\ excused \subseteq excused'
      /\ Lines(fs) \subseteq Lines(files') \union excused'
  BY <1>1, <1>4, EnforceKeeps
<1> HIDE DEF fs
<1>6. service[i] = "ready" /\ i \notin failed'
         => Healthy(current[i], i, buffer[i], [flushes EXCEPT ![f] = c])
  <2> SUFFICES ASSUME service[i] = "ready", i \notin failed'
               PROVE  Healthy(current[i], i, buffer[i], [flushes EXCEPT ![f] = c])
    OBVIOUS
  <2>1. Rotating(current[i], i, flushes)
    BY <1>1, <1>2 DEF Healthy, Rotating
  <2>2. /\ flushes[f].isolate = i /\ flushes[f].at # "rotating"
        /\ current[i].file = NoFile \/ c.isolate = i
    BY <1>1, <1>3
  <2> HIDE DEF i
  <2> QED BY <1>2, <1>3, <2>1, <2>2, HealthyNext
<1>7. service[i] = "ready" /\ i \notin failed' => Healthy(current[i], i, buffer[i], flushes')
  BY <1>1, <1>6
<1>8. flushes[f].at # "idle" /\ failed \subseteq failed'
      /\ Lines(files) \subseteq Lines(files') \union excused'
  BY <1>1, <1>4, <1>5
<1>9. /\ Range(buffer[i]) \subseteq Range(buffer[i]) \union Lines(files') \union excused'
      /\ c.isolate # 0 => Range(buffer[i]) \subseteq Range(c.content) \union excused'
  BY <1>2, <1>3, <1>5
<1> QED BY <1>1, <1>2, <1>3, <1>5, <1>7, <1>8, <1>9, FlushPreserves

LEMMA FailuresPreserve ==
    ASSUME SInv, NEW f \in Flushes, RotateFails(f) \/ OpenFails(f) \/ WriteFails(f)
    PROVE  SInv'
<1>0. FilesHoldLines(files)
  BY DEF SInv, ServiceTypes
<1>1. CASE UNCHANGED <<files, excused>>
  <2>1. Fails(f) /\ flushes[f].at # "idle" /\ buffer' = buffer
    BY DEF RotateFails, OpenFails, WriteFails
  <2>2. FilesHoldLines(files') /\ Lines(files) \subseteq Lines(files') \union excused'
    BY <1>0, <1>1
  <2> QED BY <1>1, <2>1, <2>2, FailsPreserves
<1>2. CASE ~UNCHANGED <<files, excused>>
  <2>1. /\ Fails(f) /\ flushes[f].at # "idle" /\ buffer' = buffer
        /\ \E file : \E kept \in Spared(WithFile(file)) : Delete(WithFile(file), kept)
    BY <1>2 DEF RotateFails, OpenFails, WriteFails
  <2>2. PICK file : \E kept \in Spared(WithFile(file)) : Delete(WithFile(file), kept)
    BY <2>1
  <2>3. PICK kept \in Spared(WithFile(file)) : Delete(WithFile(file), kept)
    BY <2>2
  <2>4. FilesHoldLines(WithFile(file)) /\ Lines(files) \subseteq Lines(WithFile(file))
    BY <1>0, WithFileKeeps
  <2>5. /\ FilesHoldLines(files') /\ excused \subseteq excused'
        /\ Lines(WithFile(file)) \subseteq Lines(files') \union excused'
    BY <2>3, <2>4, DeleteKeeps DEF Spared
  <2>6. Lines(files) \subseteq Lines(files') \union excused'
    BY <2>4, <2>5
  <2> QED BY <2>1, <2>5, <2>6, FailsPreserves
<1> QED BY <1>1, <1>2

LEMMA WrittenPreserves == ASSUME SInv, NEW f \in Flushes, Written(f) PROVE SInv'
<1> DEFINE i == flushes[f].isolate
           content == flushes[f].content
           g == flushes[f].file
           fs == WithFile(g)
           cur == [current[i] EXCEPT !.size = @ + Len(content)]
<1>1. /\ flushes[f].at = "writing" /\ written' = written /\ service' = service
      /\ failed' = failed /\ excused' = excused
      /\ files' = [h \in DOMAIN fs |-> IF h \in g THEN fs[h] \o content ELSE fs[h]]
      /\ current' = [current EXCEPT ![i] = cur] /\ buffer' = [buffer EXCEPT ![i] = <<>>]
      /\ flushes' = [flushes EXCEPT ![f] = Idle]
  BY DEF Written, lost
<1>2. /\ i \in Isolates /\ IsCall(flushes[f]) /\ AreCalls(flushes) /\ FilesHoldLines(files)
      /\ IsCurrent(current[i]) /\ content \in Seq(Nat)
      /\ Range(buffer[i]) \subseteq Range(content) \union excused
      /\ service[i] = "ready" /\ i \notin failed => Healthy(current[i], i, buffer[i], flushes)
  BY <1>1, UnderWay
<1>3. FilesHoldLines(fs) /\ Lines(files) \subseteq Lines(fs) /\ g \subseteq DOMAIN fs /\ g # {}
  <2>1. FilesHoldLines(fs) /\ Lines(files) \subseteq Lines(fs)
    BY <1>2, WithFileKeeps
  <2>2. g \subseteq DOMAIN fs
    BY DEF WithFile
  <2>3. g # {}
    BY <1>1, <1>2 DEF IsCall, NoFile
  <2> QED BY <2>1, <2>2, <2>3
<1>4. IsCurrent(cur) /\ cur.file = current[i].file
  <2>1. current[i] = [file |-> current[i].file, date |-> current[i].date, size |-> current[i].size]
    BY <1>2 DEF IsCurrent
  <2> HIDE DEF i, content
  <2> QED BY <2>1 DEF IsCurrent
<1> HIDE DEF cur, fs, g, content
<1>5. \A h \in DOMAIN fs : /\ fs[h] \o content \in Seq(Nat) /\ fs[h] \in Seq(Nat)
                           /\ Range(fs[h]) \union Range(content) \subseteq Range(fs[h] \o content)
  BY <1>2, <1>3, RangeConcat DEF FilesHoldLines
<1>6. /\ DOMAIN files' = DOMAIN fs
      /\ \A h \in DOMAIN fs : files'[h] = IF h \in g THEN fs[h] \o content ELSE fs[h]
  BY <1>1
<1>7. FilesHoldLines(files')
  BY <1>5, <1>6 DEF FilesHoldLines
<1>8. Lines(fs) \union Range(content) \subseteq Lines(files')
  <2>1. \A h \in DOMAIN fs : Range(fs[h]) \subseteq Range(files'[h])
    BY <1>5, <1>6
  <2>2. PICK h \in g : Range(content) \subseteq Range(files'[h])
    BY <1>3, <1>5, <1>6
  <2>3. h \in DOMAIN files'
    BY <1>3, <1>6
  <2> QED BY <1>6, <2>1, <2>2, <2>3 DEF Lines
<1>9. service[i] = "ready" /\ i \notin failed' => Healthy(cur, i, <<>>, [flushes EXCEPT ![f] = Idle])
  <2> SUFFICES ASSUME service[i] = "ready", i \notin failed'
               PROVE  Healthy(cur, i, <<>>, [flushes EXCEPT ![f] = Idle])
    OBVIOUS
  <2>1. Rotating(current[i], i, flushes)
    BY <1>1, <1>2 DEF Healthy, Rotating
  <2>2. flushes[f].isolate = i /\ flushes[f].at # "rotating"
    BY <1>1
  <2> HIDE DEF i
  <2> QED BY <1>2, <1>4, <2>1, <2>2, EmptyIsHealthy
<1>10. service[i] = "ready" /\ i \notin failed' => Healthy(cur, i, <<>>, flushes')
  BY <1>1, <1>9
<1>11. Idle.isolate \in {0, i} /\ ~(Idle.isolate # 0) /\ IsCall(Idle) /\ flushes[f].at # "idle"
  BY <1>1, IdleIsCall
<1>12. /\ Range(buffer[i]) \subseteq Range(<<>>) \union Lines(files') \union excused'
       /\ Lines(files) \subseteq Lines(files') \union excused'
       /\ excused \subseteq excused' /\ failed \subseteq failed' /\ <<>> \in Seq(Nat)
  <2>1. excused' = excused /\ failed' = failed /\ <<>> \in Seq(Nat)
    BY <1>1
  <2>2. Range(buffer[i]) \subseteq Range(content) \union excused
    BY <1>2
  <2> HIDE DEF i
  <2> QED BY <1>3, <1>8, <2>1, <2>2
<1> QED BY <1>1, <1>4, <1>7, <1>10, <1>11, <1>12, FlushPreserves

(* With an isolate go its buffer and its flushes. *)
LEMMA EndsPreserves == ASSUME SInv, NEW i \in Isolates, IsolateEnds(i) PROVE SInv'
<1>1. /\ service' = [service EXCEPT ![i] = "gone"] /\ buffer' = [buffer EXCEPT ![i] = <<>>]
      /\ current' = [current EXCEPT ![i] = Closed]
      /\ flushes' = [f \in Flushes |-> IF flushes[f].isolate = i THEN Idle ELSE flushes[f]]
      /\ excused' = excused \union Range(buffer[i])
      /\ written' = written /\ files' = files /\ failed' = failed
  BY DEF IsolateEnds
<1>2. /\ buffer \in [Isolates -> Seq(Nat)] /\ current = [j \in Isolates |-> current[j]]
      /\ service = [j \in Isolates |-> service[j]] /\ written \in Nat
      /\ AreCalls(flushes) /\ FilesHoldLines(files)
  BY DEF SInv, ServiceTypes
<1>3. /\ buffer' \in [Isolates -> Seq(Nat)] /\ buffer'[i] = <<>>
      /\ service' = [j \in Isolates |-> service'[j]] /\ service'[i] = "gone"
      /\ current' = [j \in Isolates |-> current'[j]] /\ current'[i] = Closed
      /\ \A j \in Isolates \ {i} :
            service'[j] = service[j] /\ buffer'[j] = buffer[j] /\ current'[j] = current[j]
  <2>1. buffer' \in [Isolates -> Seq(Nat)] /\ buffer'[i] = <<>>
    <3>1. <<>> \in Seq(Nat)
      OBVIOUS
    <3> QED BY <1>1, <1>2, <3>1
  <2>2. service' = [j \in Isolates |-> service'[j]] /\ service'[i] = "gone"
    BY <1>1, <1>2
  <2>3. current' = [j \in Isolates |-> current'[j]] /\ current'[i] = Closed
    BY <1>1, <1>2
  <2>4. \A j \in Isolates \ {i} :
           service'[j] = service[j] /\ buffer'[j] = buffer[j] /\ current'[j] = current[j]
    BY <1>1, <1>2
  <2> QED BY <2>1, <2>2, <2>3, <2>4
<1>4. \A f \in Flushes : flushes'[f] = IF flushes[f].isolate = i THEN Idle ELSE flushes[f]
  BY <1>1
<1>5. AreCalls(flushes')
  <2>1. flushes' = [f \in Flushes |-> flushes'[f]]
    BY <1>1
  <2>2. \A f \in Flushes : IsCall(flushes'[f])
    BY <1>2, <1>4, IdleIsCall DEF AreCalls
  <2> QED BY <2>1, <2>2 DEF AreCalls
<1>6. \A j \in Isolates \ {i} : SameFlushes(j, flushes, flushes')
  BY <1>4, IdleIsCall DEF SameFlushes, Isolates
<1>7. OnlyChanges(i, service, service', buffer, buffer', current, current', flushes, flushes')
  BY <1>3, <1>6 DEF OnlyChanges
<1>8. ServiceTypes'
  <2>1. IsCurrent(current'[i])
    BY <1>3 DEF IsCurrent, Closed
  <2> QED BY <1>1, <1>2, <1>3, <1>5, <1>7, <2>1, TypesNext
<1>9. Sound(i, service'[i], buffer'[i], current'[i], flushes', excused', failed')
  <2>1. \A f \in Flushes : flushes'[f].isolate # i
    BY <1>4, IdleIsCall DEF Isolates
  <2>2. Covers(flushes', i, buffer'[i], excused')
    BY <2>1 DEF Covers
  <2> QED BY <1>3, <2>2 DEF Sound
<1>10. \A j \in Isolates :
          Sound(j, service'[j], buffer'[j], current'[j], flushes', excused', failed')
  BY <1>1, <1>7, <1>9, SoundForAll
<1>11. 1 .. written' \subseteq Everywhere'
  <2>1. 1 .. written \subseteq Lines(files) \union Buffered(buffer) \union excused
    BY DEF SInv, Everywhere
  <2>2. \A j \in Isolates : Range(buffer[j]) \subseteq Range(buffer'[j]) \union excused'
    BY <1>1, <1>3
  <2>3. Buffered(buffer) \subseteq Buffered(buffer') \union excused'
    BY <2>2 DEF Buffered
  <2>4. 1 .. written' \subseteq Lines(files') \union Buffered(buffer') \union excused'
    BY <1>1, <2>1, <2>3
  <2> QED BY <2>4 DEF Everywhere, Lines, Buffered
<1> QED BY <1>8, <1>10, <1>11 DEF SInv

LEMMA NothingHappens ==
    ASSUME SInv, UNCHANGED <<written, service, buffer, files, current, flushes, excused, failed>>
    PROVE  SInv'
BY DEF SInv, ServiceTypes, Everywhere, Sound, Covers, Healthy, AreCalls, FilesHoldLines, Lines, Buffered

LEMMA InitializePreserves == ASSUME SInv, NEW i \in Isolates, InitializeService(i) PROVE SInv'
<1> DEFINE file == File(today, Latest(today))
           cur == [file |-> file, date |-> today, size |-> SizeOf(files', file)]
<1>1. /\ service' = [service EXCEPT ![i] = "ready"] /\ failed' = failed
      /\ files' = WithFile(file) /\ Output(i, cur, FALSE)
  BY DEF InitializeService
<1>2. FilesHoldLines(files)
  BY DEF SInv, ServiceTypes
<1>3. FilesHoldLines(files') /\ Lines(files) \subseteq Lines(files')
  BY <1>1, <1>2, WithFileKeeps
<1>4. IsCurrent(cur) /\ Rotating(cur, i, flushes)
  BY DEF IsCurrent, Rotating, File, NoFile
<1> HIDE DEF cur
<1>5. FALSE \in BOOLEAN
  OBVIOUS
<1> QED BY <1>1, <1>3, <1>4, <1>5, OutputPreserves

(* A line for an isolate that is ready. *)
LEMMA ReadyOutput ==
    ASSUME SInv, NEW i \in Isolates, NEW thenFlush \in BOOLEAN, service[i] = "ready",
           Output(i, current[i], thenFlush), UNCHANGED <<service, files, failed>>
    PROVE  SInv'
<1>1. /\ FilesHoldLines(files) /\ IsCurrent(current[i])
      /\ service = [j \in Isolates |-> service[j]]
      /\ Sound(i, service[i], buffer[i], current[i], flushes, excused, failed)
  BY DEF SInv, ServiceTypes
<1>2. i \notin failed => Rotating(current[i], i, flushes)
  BY <1>1 DEF Sound, Healthy, Rotating
<1>3. service' = [service EXCEPT ![i] = "ready"]
  BY <1>1
<1>4. FilesHoldLines(files') /\ Lines(files) \subseteq Lines(files') /\ failed' = failed
  BY <1>1
<1> QED BY <1>1, <1>2, <1>3, <1>4, OutputPreserves

LEMMA ServiceStepPreserves == SInv /\ [ServiceNext]_serviceVars => SInv'
<1> SUFFICES ASSUME SInv, [ServiceNext]_serviceVars PROVE SInv'
  OBVIOUS
<1>1. CASE BridgeStep
  BY <1>1, NothingHappens DEF BridgeStep, output, lost
<1>2. CASE DestroyedAtOnce \/ DestroyedWhenJoined
  <2>1. PICK i \in Leaving : IsolateEnds(i)
    BY <1>2 DEF DestroyedAtOnce, DestroyedWhenJoined, OnDestroyEnds
  <2> QED BY <2>1, EndsPreserves DEF Leaving
<1>3. ASSUME NEW i \in Isolates, ExportLogs(i) PROVE SInv'
  BY <1>3, ReadyOutput DEF ExportLogs
<1>4. CASE Deliver
  <2>1. CASE created \in Isolates /\ service[created] = "ready"
    <3>1. Output(created, current[created], FALSE) /\ UNCHANGED <<service, files, failed>>
      BY <1>4, <2>1 DEF Deliver
    <3>2. FALSE \in BOOLEAN
      OBVIOUS
    <3> QED BY <2>1, <3>1, <3>2, ReadyOutput
  <2>2. CASE ~(created \in Isolates /\ service[created] = "ready")
    BY <1>4, <2>2, NothingHappens DEF Deliver
  <2> QED BY <2>1, <2>2
<1>5. CASE FlushStep
  BY <1>5, SwitchedPreserves, RotatedPreserves, CreatedPreserves, WrittenPreserves,
     FailuresPreserve DEF FlushStep
<1>6. CASE Midnight
  BY <1>6, NothingHappens DEF Midnight, output, lost
<1>7. CASE UNCHANGED serviceVars
  BY <1>7, NothingHappens DEF serviceVars, output, lost
<1> QED
  BY <1>1, <1>2, <1>3, <1>4, <1>5, <1>6, <1>7, InitializePreserves DEF ServiceNext

(***************************************************************************)
(* For all sizes and any number of isolates and overlapping flushes, also  *)
(* of failing ones: a line that is neither in a file nor in a buffer was   *)
(* given while a flush held its content, or was in a file that was deleted *)
(* or in the buffer of an isolate that ended; and unless a flush of it has *)
(* failed, no isolate lets its buffer fill up without a flush under way.   *)
(***************************************************************************)
THEOREM LostOnlyThen == ServiceSpec => []LinesAccounted
<1>1. SInv => LinesAccounted
  <2> SUFFICES ASSUME SInv PROVE LinesAccounted
    OBVIOUS
  <2>1. 1 .. written \subseteq Lines(files) \union excused \union UNION {Range(buffer[i]) : i \in Isolates}
    BY DEF SInv, Everywhere, Buffered
  <2>2. ASSUME NEW i \in Isolates \ failed, Len(buffer[i]) >= BufferSize
        PROVE  \E f \in Flushes : flushes[f].isolate = i
    <3>1. Sound(i, service[i], buffer[i], current[i], flushes, excused, failed)
      BY DEF SInv
    <3>2. service[i] = "ready"
      <4>1. ~(Len(<<>>) >= BufferSize)
        BY ServiceAssumption
      <4> QED BY <2>2, <3>1, <4>1 DEF Sound
    <3> QED BY <2>2, <3>1, <3>2 DEF Sound, Healthy
  <2> QED BY <2>1, <2>2 DEF LinesAccounted
<1> QED BY <1>1, ServiceInitEstablishes, ServiceStepPreserves, PTL DEF ServiceSpec

-------------------------------------------------------------------------------

(***************************************************************************)
(* What LogService does with received lines gives nothing back: the bridge *)
(* in front of it behaves as the bridge alone, so that what is proved of   *)
(* it holds here.                                                          *)
(***************************************************************************)
THEOREM ServiceRunsBridge == ServiceSpec => Spec
<1>1. ServiceInit => Init
  BY DEF ServiceInit
<1>2. [ServiceNext]_serviceVars => [Next]_vars
  <2> SUFFICES ASSUME [ServiceNext]_serviceVars PROVE [Next]_vars
    OBVIOUS
  <2>1. CASE BridgeStep
    BY <2>1 DEF BridgeStep, Next, MainStep
  <2>2. CASE DestroyedAtOnce \/ DestroyedWhenJoined
    BY <2>2 DEF DestroyedAtOnce, DestroyedWhenJoined, OnDestroyEnds, Next, MainStep
  <2>3. CASE (\E i \in Isolates : InitializeService(i) \/ ExportLogs(i)) \/ Deliver \/ Midnight
    BY <2>3 DEF InitializeService, Deliver, ExportLogs, Midnight
  <2>4. CASE FlushStep
    BY <2>4 DEF FlushStep, Switched, Rotated, Created, Written, RotateFails, OpenFails,
                WriteFails, Fails
  <2>5. CASE UNCHANGED serviceVars
    BY <2>5 DEF serviceVars
  <2> QED BY <2>1, <2>2, <2>3, <2>4, <2>5 DEF ServiceNext
<1> QED BY <1>1, <1>2, PTL DEF ServiceSpec, Spec
================================================================================
