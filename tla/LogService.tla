------------------------------ MODULE LogService ------------------------------
(***************************************************************************)
(* log_service.dart behind the log bridge: the main thread hands received  *)
(* lines over the channel to LogService, whose FileLogOutput keeps them in *)
(* a buffer and flushes it to the file of the day.  A flush awaits, and    *)
(* nobody waits for it, so several may be under way.  Each activity has an *)
(* engine and a Dart isolate with a LogService of its own, numbered as the *)
(* activity; they end with the activity's onDestroy, while the files stay. *)
(* A line is its number in the order in which a FileLogOutput is given it; *)
(* the size of a file is its number of lines.                              *)
(***************************************************************************)
EXTENDS LogBridge, FiniteSetsExt, Functions

CONSTANTS
    BufferSize,     \* LogConfig.writeBufferSize
    MaxFileSize,    \* LogConfig.maxFileSize
    MaxFiles,       \* LogConfig.maxFiles
    MaxWritten,     \* bound on the lines that LogService is given
    MaxExports,     \* bound on the exports of the logs
    MaxFlushes,     \* bound on the flushes under way at a time
    LastDay         \* bound on the days that pass, from day 0

ASSUME ServiceAssumption ==
    /\ {BufferSize, MaxFileSize, MaxFiles} \subseteq Nat \ {0}
    /\ {MaxWritten, MaxExports, MaxFlushes, LastDay} \subseteq Nat

VARIABLES
    delivered,      \* how many received lines the channel has carried
    service,        \* each isolate: unset, ready (_initialized), or gone
    written,        \* how many lines a FileLogOutput has been given
    buffer,         \* each isolate's _buffer
    files,          \* the log files: from a day and a sequence to lines
    current,        \* its _currentFile, _currentDate and _currentFileSize
    flushes,        \* the calls of _flushBuffer that await something
    today, exports,
    excused,        \* history: lines given while a flush held its content,
                    \* of a file that was deleted, of an isolate that ended
    failed          \* history: isolates in which a flush has failed

lost == <<excused, failed>>
output == <<delivered, service, written, buffer, files, current, flushes, lost>>
serviceVars == <<vars, output, today, exports>>

Flushes == 1 .. MaxFlushes

Isolates == 1 .. MaxActivities

(* A file, by the set of it, which is empty for null. *)
File(day, sequence) == {<<day, sequence>>}
NoFile == {}

(* A call of _flushBuffer: its isolate, its today, its content, its file. *)
FlushCall(isolate, at, day, content, file) ==
    [isolate |-> isolate, at |-> at, day |-> day, content |-> content, file |-> file]
Idle == FlushCall(0, "idle", 0, <<>>, NoFile)
Closed == [file |-> NoFile, date |-> 0, size |-> 0]

ServiceInit ==
    /\ Init
    /\ delivered = 0 /\ written = 0
    /\ service = [i \in Isolates |-> "unset"]
    /\ buffer = [i \in Isolates |-> <<>>]
    /\ files = [f \in {} |-> <<>>]
    /\ current = [i \in Isolates |-> Closed]
    /\ flushes = [f \in Flushes |-> Idle]
    /\ today = 0 /\ exports = 0
    /\ excused = {} /\ failed = {}

-------------------------------------------------------------------------------

Lines(fs) == UNION {Range(fs[f]) : f \in DOMAIN fs}
WithFile(file) == [g \in DOMAIN files \union file |->
                      IF g \in DOMAIN files THEN files[g] ELSE <<>>]
SizeOf(fs, file) == Len(fs[CHOOSE g \in file : TRUE])

(* _latestSequenceForDate *)
Latest(day) == Max({0} \union {f[2] : f \in {g \in DOMAIN files : g[1] = day}})

(* _enforceMaxFiles deletes the files that were modified first; which these *)
(* are is left open, and whether it gets to delete all of them.             *)
Spared(fs) == {kept \in SUBSET DOMAIN fs :
                  Cardinality(kept) >= Min({MaxFiles, Cardinality(DOMAIN fs)})}
Delete(fs, kept) ==
    /\ files' = Restrict(fs, kept)
    /\ excused' = excused \union (Lines(fs) \ Lines(files'))
Enforce(fs) ==
    \E kept \in Spared(fs) : Cardinality(kept) <= MaxFiles /\ Delete(fs, kept)

(* A flush of an isolate that has read its content and not yet ended. *)
Holding(i, f) == flushes[f].isolate = i /\ flushes[f].at # "switching"

(* What the flush of a day does from where it reads its content to its     *)
(* next await: it begins to rotate the file, or to write to it; without a  *)
(* file it throws.                                                         *)
Capture(i, day, lines, cur) ==
    IF cur.size > 0 /\ cur.size + Len(lines) > MaxFileSize
    THEN [flush |-> FlushCall(i, "rotating", day, lines, NoFile),
          current |-> [file |-> NoFile, date |-> day, size |-> 0]]
    ELSE [flush |-> IF cur.file = NoFile THEN Idle
                    ELSE FlushCall(i, "writing", day, lines, cur.file),
          current |-> cur]

Free(fs) == {f \in Flushes : fs[f] = Idle}

(* A call of _flushBuffer up to its first await; without a current file it *)
(* returns.                                                                *)
Flush(i, lines, st) ==
    LET s == IF st.current.date = today THEN Capture(i, today, lines, st.current)
             ELSE [flush |-> FlushCall(i, "switching", today, <<>>, NoFile),
                   current |-> [file |-> File(today, 0), date |-> today, size |-> 0]]
    IN  IF st.current.file = NoFile THEN st
        ELSE [current |-> s.current,
              flushes |-> [st.flushes EXCEPT ![CHOOSE f \in Free(st.flushes) : TRUE] = s.flush]]

(* FileLogOutput.output; each line of a full buffer starts a flush.  *)
Output(i, cur, thenFlush) ==
    LET line == written + 1
        lines == Append(buffer[i], line)
        isFull == Len(lines) >= BufferSize
        st == [current |-> cur, flushes |-> flushes]
        full == IF isFull THEN Flush(i, lines, st) ELSE st
        end == IF thenFlush THEN Flush(i, lines, full) ELSE full
    IN  /\ written < MaxWritten
        /\ isFull => Free(flushes) # {}
        /\ thenFlush => Free(full.flushes) # {}
        /\ written' = line
        /\ buffer' = [buffer EXCEPT ![i] = lines]
        /\ excused' = excused \union {l \in {line} : \E f \in Flushes : Holding(i, f)}
        /\ current' = [current EXCEPT ![i] = end.current]
        /\ flushes' = end.flushes

(* initialize: the file of the day is opened (no file is past its days     *)
(* yet), the channel gets its handler, and a line of Dart is logged.       *)
InitializeService(i) ==
    /\ i \in 1 .. created /\ service[i] = "unset"
    /\ service' = [service EXCEPT ![i] = "ready"]
    /\ LET file == File(today, Latest(today))
       IN  /\ files' = WithFile(file)
           /\ Output(i, [file |-> file, date |-> today, size |-> SizeOf(files', file)], FALSE)
    /\ UNCHANGED <<vars, delivered, today, exports, failed>>

(* The main looper runs what LogHelper has posted: the line goes to the    *)
(* engine configured last, and is lost when that has no handler, not yet   *)
(* or not any more.                                                        *)
Deliver ==
    /\ main = "free" /\ delivered < Len(received)
    /\ delivered' = delivered + 1
    /\ \/ /\ created \in Isolates /\ service[created] = "ready"
          /\ Output(created, current[created], FALSE)
       \/ /\ ~(created \in Isolates /\ service[created] = "ready")
          /\ UNCHANGED <<written, buffer, current, flushes, excused>>
    /\ UNCHANGED <<vars, service, files, today, exports, failed>>

(* exportLogs logs a line of Dart and flushes; the archive is left out. *)
ExportLogs(i) ==
    /\ service[i] = "ready" /\ exports < MaxExports
    /\ exports' = exports + 1
    /\ Output(i, current[i], TRUE)
    /\ UNCHANGED <<vars, delivered, service, files, today, failed>>

-------------------------------------------------------------------------------

(* _switchToDate returns; it throws without a current file. *)
Switched(f) ==
    LET i == flushes[f].isolate
        file == current[i].file
        fs == WithFile(file)
        s == Capture(i, flushes[f].day, buffer[i], [current[i] EXCEPT !.size = SizeOf(fs, file)])
    IN  /\ flushes[f].at = "switching"
        /\ \/ file = NoFile
              /\ flushes' = [flushes EXCEPT ![f] = Idle]
              /\ UNCHANGED <<files, current, excused>>
           \/ file # NoFile
              /\ Enforce(fs)
              /\ flushes' = [flushes EXCEPT ![f] = s.flush]
              /\ current' = [current EXCEPT ![i] = s.current]
        /\ UNCHANGED <<vars, delivered, service, written, buffer, today, exports, failed>>

(* _rotateFile names the next file. *)
Rotated(f) ==
    LET i == flushes[f].isolate
        next == File(flushes[f].day, Latest(flushes[f].day) + 1)
    IN  /\ flushes[f].at = "rotating"
        /\ current' = [current EXCEPT ![i].file = next]
        /\ flushes' = [flushes EXCEPT ![f] = FlushCall(i, "creating", @.day, @.content, next)]
        /\ UNCHANGED <<vars, delivered, service, written, buffer, files, today, exports, lost>>

(* _rotateFile returns; without a current file the write throws. *)
Created(f) ==
    LET i == flushes[f].isolate
        file == current[i].file
    IN  /\ flushes[f].at = "creating"
        /\ Enforce(WithFile(flushes[f].file))
        /\ flushes' = [flushes EXCEPT ![f] =
               IF file = NoFile THEN Idle ELSE FlushCall(i, "writing", @.day, @.content, file)]
        /\ UNCHANGED <<vars, delivered, service, written, buffer, current, today, exports, failed>>

(* An await of the flush throws, and with it the flush. *)
Fails(f) ==
    /\ flushes' = [flushes EXCEPT ![f] = Idle]
    /\ failed' = failed \union {flushes[f].isolate}
    /\ UNCHANGED <<vars, delivered, service, written, current, today, exports>>

(* Listing the files for _rotateFile throws: _currentFile stays null. *)
RotateFails(f) ==
    /\ flushes[f].at = "rotating"
    /\ Fails(f)
    /\ UNCHANGED <<buffer, files, excused>>

(* _switchToDate or _rotateFile throws from opening the file they have set, *)
(* or from listing or deleting others after that.                           *)
OpenFails(f) ==
    /\ flushes[f].at \in {"switching", "creating"}
    /\ Fails(f)
    /\ \/ UNCHANGED <<files, excused>>
       \/ LET file == IF flushes[f].at = "creating" THEN flushes[f].file
                      ELSE current[flushes[f].isolate].file
          IN  /\ file # NoFile
              /\ \E kept \in Spared(WithFile(file)) : Delete(WithFile(file), kept)
    /\ UNCHANGED buffer

(* A bug: the buffer is cleared whether the write succeeded or not. *)
WriteFailsCleared(f) ==
    /\ flushes[f].at = "writing"
    /\ Fails(f)
    /\ buffer' = [buffer EXCEPT ![flushes[f].isolate] = <<>>]
    /\ UNCHANGED <<files, excused>>

WriteFails(f) ==
    /\ flushes[f].at = "writing"
    /\ Fails(f)
    /\ UNCHANGED <<buffer, files, excused>>

(* The content is appended, and the buffer cleared of whatever is in it. *)
Written(f) ==
    LET i == flushes[f].isolate
        fs == WithFile(flushes[f].file)
    IN  /\ flushes[f].at = "writing"
        /\ files' = [g \in DOMAIN fs |->
               IF g \in flushes[f].file THEN fs[g] \o flushes[f].content ELSE fs[g]]
        /\ current' = [current EXCEPT ![i].size = @ + Len(flushes[f].content)]
        /\ buffer' = [buffer EXCEPT ![i] = <<>>]
        /\ flushes' = [flushes EXCEPT ![f] = Idle]
        /\ UNCHANGED <<vars, delivered, service, written, today, exports, lost>>

FlushStep == \E f \in Flushes :
    \/ Switched(f) \/ Rotated(f) \/ Created(f) \/ Written(f)
    \/ RotateFails(f) \/ OpenFails(f) \/ WriteFails(f)

Midnight ==
    /\ today < LastDay
    /\ today' = today + 1
    /\ UNCHANGED <<vars, output, exports>>

-------------------------------------------------------------------------------

(* The bridge takes a step that ends no isolate. *)
BridgeStep ==
    /\ \/ Log \/ SenderStep \/ LibraryLoads \/ CreateOcrEngine
       \/ CreateActivity \/ FinishActivity
       \/ DestroyActivity /\ main' = "joining"
    /\ UNCHANGED <<output, today, exports>>

(* The isolates of the activities that finish. *)
Leaving ==
    {i \in Isolates : i <= created /\ service[i] # "gone" /\ (activity => i # created)}

(* super.onDestroy: the engine is destroyed, and with it the isolate, its  *)
(* buffer and its flushes.  (What a write had begun counts as written if   *)
(* it is, and as lost with the isolate if not.)                            *)
IsolateEnds(i) ==
    /\ service' = [service EXCEPT ![i] = "gone"]
    /\ buffer' = [buffer EXCEPT ![i] = <<>>]
    /\ current' = [current EXCEPT ![i] = Closed]
    /\ flushes' = [f \in Flushes |-> IF flushes[f].isolate = i THEN Idle ELSE flushes[f]]
    /\ excused' = excused \union Range(buffer[i])
    /\ UNCHANGED <<delivered, written, files, failed>>

(* onDestroy goes on to super.onDestroy, at once or when it has joined. *)
OnDestroyEnds(step) ==
    /\ step /\ main' = "free"
    /\ \E i \in Leaving : IsolateEnds(i)
    /\ UNCHANGED <<today, exports>>
DestroyedAtOnce == OnDestroyEnds(DestroyActivity)
DestroyedWhenJoined == OnDestroyEnds(Joined)

ServiceNext ==
    \/ BridgeStep \/ DestroyedAtOnce \/ DestroyedWhenJoined
    \/ \E i \in Isolates : InitializeService(i) \/ ExportLogs(i)
    \/ Deliver \/ FlushStep \/ Midnight

(* The fairness of the bridge; nothing is assumed of Dart. *)
ServiceSpec ==
    /\ ServiceInit /\ [][ServiceNext]_serviceVars
    /\ WF_serviceVars(SenderStep /\ UNCHANGED <<output, today, exports>>)
    /\ WF_serviceVars(DestroyedWhenJoined)

-------------------------------------------------------------------------------

(***************************************************************************)
(* However flushes overlap, fail, or switch and rotate files: a line that  *)
(* a FileLogOutput was given is in a file, or in the buffer of an isolate  *)
(* that lives, or it was given while a flush of its isolate held its       *)
(* content (_flushBuffer clears the buffer of whatever is in it), or its   *)
(* file was deleted, or its isolate ended before it was written.  And      *)
(* unless a flush has failed, an isolate that has as many lines as the     *)
(* buffer takes is about to write them: one that ends loses fewer lines,   *)
(* or ends a flush that is under way.                                      *)
(***************************************************************************)
LinesAccounted ==
    /\ 1 .. written \subseteq Lines(files) \union excused
          \union UNION {Range(buffer[i]) : i \in Isolates}
    /\ \A i \in Isolates \ failed :
          Len(buffer[i]) >= BufferSize => \E f \in Flushes : flushes[f].isolate = i
===============================================================================
