---------------------------- MODULE AsyncLogging ----------------------------
(***************************************************************************)
(* AsyncLogging: threads append lines to a buffer, a background thread     *)
(* swaps full buffers for empty ones and writes them to a LogFile.  A line *)
(* is its number and its length; a BufferPtr is <<>> or <<contents>>.      *)
(***************************************************************************)
EXTENDS LogFile, Condition, FiniteSetsExt

CONSTANTS
    BufferSize,     \* kLargeBuffer
    LineLengths,
    DropAbove,      \* 25 buffers
    MaxLines,       \* bound: lines appended
    MaxClock,       \* bound: seconds
    MaxFailures     \* bound: failing calls of fwrite()

VARIABLES
    logging,        \* running_
    current, next, buffers,     \* currentBuffer_, nextBuffer_ and buffers_
    new1, new2, toWrite,        \* newBuffer1, newBuffer2 and buffersToWrite
    writing,        \* how many of toWrite have been written
    output,         \* the LogFile
    back,           \* where the background thread is
    user,           \* where the thread is that calls start() and stop()
    latch,          \* latch_.count_
    sleeps,         \* the two in the monitors, see Condition
    clock,
    failures,       \* fwrite() calls that failed
    lines, gone     \* history: lines appended, and lines given up

logVars == <<logging, current, next, buffers, new1, new2, toWrite, writing, output, back, user,
             latch, sleeps, clock, failures, lines, gone>>
frontVars == <<current, next, buffers>>
backVars == <<new1, new2, toWrite, writing, output, back, failures>>
ownerVars == <<logging, user, latch>>

Empty == << <<>> >>     \* a buffer without lines
NULL == <<>>

length(b) == FoldSeq(LAMBDA line, n : n + line.len, 0, b)
Fits(b, line) == BufferSize - length(b) > line.len
Ids(b) == {b[i].id : i \in 1 .. Len(b)}

Init ==
    /\ logging = FALSE /\ current = <<>> /\ next = Empty /\ buffers = <<>>
    /\ new1 = NULL /\ new2 = NULL /\ toWrite = <<>> /\ writing = 0
    /\ output = [files |-> <<>>, count |-> 0] /\ back = "none" /\ user = "new" /\ latch = 1
    /\ sleeps = [t \in {"back", "user"} |-> "out"]
    /\ clock = 1 /\ failures = 0 /\ lines = <<>> /\ gone = {}

(* append(); FixedBuffer::append() drops a line too long for any buffer.   *)
AppendLine(len) ==
    LET line == [id |-> Len(lines) + 1, len |-> len] IN
    /\ Len(lines) < MaxLines /\ lines' = Append(lines, line)
    /\ IF Fits(current, line)
       THEN current' = Append(current, line) /\ UNCHANGED <<next, buffers, sleeps, gone>>
       ELSE /\ buffers' = Append(buffers, current) /\ next' = NULL
            /\ current' = IF Fits(<<>>, line) THEN <<line>> ELSE <<>>
            /\ gone' = IF Fits(<<>>, line) THEN gone ELSE gone \union {line.id}
            /\ sleeps' \in notify(sleeps, "cond")
    /\ UNCHANGED <<backVars, ownerVars, clock>>

(* start() up to the wait for the latch, and CountDownLatch::wait().       *)
StartLogging ==
    /\ user = "new" /\ user' = "wait" /\ logging' = TRUE /\ back' = "start"
    /\ UNCHANGED <<frontVars, new1, new2, toWrite, writing, output, failures, latch, sleeps,
                   clock, lines, gone>>

LatchWait ==
    /\ user = "wait" /\ sleeps["user"] \in {"out", "awake"}
    /\ IF latch > 0 THEN sleeps' = wait(sleeps, "user", "latch") /\ UNCHANGED user
       ELSE sleeps' = leave(sleeps, "user") /\ user' = "up"
    /\ UNCHANGED <<frontVars, backVars, logging, latch, clock, lines, gone>>

(* stop(), step by step; running_ is not under the mutex.                  *)
StopLogging ==
    /\ user = "up" /\ user' = "notify" /\ logging' = FALSE
    /\ UNCHANGED <<frontVars, backVars, latch, sleeps, clock, lines, gone>>

StopNotifies ==
    /\ user = "notify" /\ user' = "join" /\ sleeps' \in notify(sleeps, "cond")
    /\ UNCHANGED <<frontVars, backVars, logging, latch, clock, lines, gone>>

StopJoins ==
    /\ user = "join" /\ back = "exit" /\ user' = "down"
    /\ UNCHANGED <<frontVars, backVars, logging, latch, sleeps, clock, lines, gone>>

(* threadFunc() up to its loop, which wakes start() when the latch is 0.   *)
CountsDown(w) == IF latch = 1 THEN notifyAll(w, "latch") ELSE w

Begins ==
    /\ back = "start" /\ back' = "test" /\ latch' = latch - 1 /\ sleeps' = CountsDown(sleeps)
    /\ output' = NewLogFile(clock) /\ new1' = Empty /\ new2' = Empty
    /\ UNCHANGED <<frontVars, toWrite, writing, failures, logging, user, clock, lines, gone>>

TestsRunning ==
    /\ back = "test"
    /\ back' = IF logging THEN "swap" ELSE "exit"
    /\ output' = IF logging THEN output ELSE Flush(output)
    /\ UNCHANGED <<frontVars, new1, new2, toWrite, writing, failures, ownerVars, sleeps, clock,
                   lines, gone>>

(* Mutant: waits until there is a full buffer.                             *)
MutSwapWaits == buffers = <<>>

SwapWaits == buffers = <<>> /\ sleeps["back"] = "out"

(* Mutant: the current buffer goes first.                                  *)
MutCollected == <<current>> \o buffers

Collected == Append(buffers, current)

Swaps ==
    /\ back = "swap" /\ sleeps["back"] \in {"out", "awake"}
    /\ IF SwapWaits
       THEN sleeps' = wait(sleeps, "back", "cond") /\ UNCHANGED <<frontVars, back, new1, new2, toWrite>>
       ELSE /\ sleeps' = leave(sleeps, "back") /\ back' = "write"
            /\ toWrite' = Collected /\ buffers' = <<>>
            /\ current' = new1[1] /\ new1' = NULL
            /\ next' = IF next = NULL THEN new2 ELSE next
            /\ new2' = IF next = NULL THEN NULL ELSE new2
    /\ UNCHANGED <<writing, output, failures, ownerVars, clock, lines, gone>>

(* More than 25 buffers: all but two are dropped, with a line that says so.*)
Drops ==
    /\ back = "write" /\ writing = 0 /\ Len(toWrite) > DropAbove
    /\ toWrite' = SubSeq(toWrite, 1, 2)
    /\ gone' = gone \union Ids(FlattenSeq(SubSeq(toWrite, 3, Len(toWrite))))
    /\ output' = append_unlocked(output, <<>>, 1, TRUE, clock)
    /\ UNCHANGED <<frontVars, new1, new2, writing, back, failures, ownerVars, sleeps, clock, lines>>

WritesBuffer(ok) ==
    /\ back = "write" /\ Len(toWrite) <= DropAbove /\ writing < Len(toWrite)
    /\ ~ ok => failures < MaxFailures /\ toWrite[writing + 1] # <<>>
    /\ LET b == toWrite[writing + 1] IN
       /\ output' = append_unlocked(output, b, length(b), ok, clock)
       /\ gone' = IF ok THEN gone ELSE gone \union Ids(b)
    /\ writing' = writing + 1 /\ failures' = failures + IF ok THEN 0 ELSE 1
    /\ UNCHANGED <<frontVars, new1, new2, toWrite, back, ownerVars, sleeps, clock, lines>>

(* A buffer that has been written is used again, and every round flushes.  *)
Reset(b) == Empty

RoundFlush(f) == Flush(f)

(* The end of a round: two of the buffers written are used again.          *)
Recycles ==
    LET left == IF Len(toWrite) > 2 THEN SubSeq(toWrite, 1, 2) ELSE toWrite
        rest == IF new1 = NULL THEN Front(left) ELSE left
    IN /\ back = "write" /\ writing > 0 /\ writing = Len(toWrite)
       /\ new1' = IF new1 = NULL THEN Reset(Last(left)) ELSE new1
       /\ new2' = IF new2 = NULL /\ rest # <<>> THEN Reset(Last(rest)) ELSE new2
       /\ toWrite' = <<>> /\ writing' = 0 /\ back' = "test" /\ output' = RoundFlush(output)
       /\ UNCHANGED <<frontVars, failures, ownerVars, sleeps, clock, lines, gone>>

(* waitForSeconds() ends by itself; so may any wait.                       *)
TimesOut ==
    /\ sleeps' \in Spurious(sleeps, "back")
    /\ UNCHANGED <<frontVars, backVars, ownerVars, clock, lines, gone>>
Wakes ==
    /\ sleeps' \in Spurious(sleeps, "user")
    /\ UNCHANGED <<frontVars, backVars, ownerVars, clock, lines, gone>>

Second == /\ clock < MaxClock /\ clock' = clock + 1
          /\ UNCHANGED <<frontVars, backVars, ownerVars, sleeps, lines, gone>>

UserStep == StartLogging \/ LatchWait \/ StopNotifies \/ StopJoins
BackStep == \/ Begins \/ TestsRunning \/ Swaps \/ Drops \/ Recycles
            \/ \E ok \in BOOLEAN : WritesBuffer(ok)

Next == \/ UserStep \/ StopLogging \/ BackStep \/ TimesOut \/ Wakes \/ Second
        \/ \E len \in LineLengths : AppendLine(len)

Spec == Init /\ [][Next]_logVars
-----------------------------------------------------------------------------
(* The lines on their way: written, being written, waiting, in that order. *)
OnTheWay ==
    LinesOf(output) \o FlattenSeq(SubSeq(toWrite, writing + 1, Len(toWrite)))
        \o FlattenSeq(buffers) \o current

(* They are all the lines appended, each as it was, once and in order, but *)
(* those that were given up because there were too many, too long, or      *)
(* fwrite() failed.                                                        *)
LinesInOrder ==
    LET way == OnTheWay IN
    /\ \A i, j \in 1 .. Len(way) : i < j => way[i].id < way[j].id
    /\ \A i \in 1 .. Len(way) : way[i] = lines[way[i].id]
    /\ Ids(way) = 1 .. Len(lines) \ gone

(* The asserts of threadFunc(): there are always two clean buffers at the  *)
(* start of a round, and never a full vector.                              *)
BuffersReady == back \in {"test", "swap"} => new1 = Empty /\ new2 = Empty /\ toWrite = <<>>

(* Outside the writing of a round the file holds all it was given: a crash *)
(* loses what is in the buffers of AsyncLogging only.                      *)
Flushed == back \in {"swap", "exit"} =>
    \A i \in 1 .. Len(output.files) : output.files[i].flushed = Len(output.files[i].lines)

FilesRolled == DistinctFiles(output) /\ RolledInTime(output)

(* As long as the logging is not stopped, every line gets out of the       *)
(* buffers, though no buffer fills up.                                     *)
InFile(i) == \E j \in 1 .. Len(output.files) : \E k \in 1 .. output.files[j].flushed :
                 output.files[j].lines[k].id = i
LinesReachFile == []<>(logging => \A i \in 1 .. Len(lines) : i \in gone \/ InFile(i))

(* start() and stop() return, whatever wakeup the latter misses.           *)
LoggingStops == []<>(user \notin {"wait", "notify", "join"})

(* The two sides of the logging exchange their buffers and lose nothing.   *)
LogKept == LinesInOrder /\ BuffersReady /\ Flushed /\ FilesRolled

(* Lines get out in time, and the logging can be stopped.                  *)
LogLives == LinesReachFile /\ LoggingStops
=============================================================================
