------------------------------ MODULE LogFile -------------------------------
(***************************************************************************)
(* LogFile and AppendFile: log files that are rolled by size and by day,   *)
(* as functions of a state f.  A file is named after the second in which   *)
(* it was opened; of each the model keeps the lines that fwrite() took and *)
(* how many of them have left the stdio buffer.                            *)
(***************************************************************************)
EXTENDS Naturals, Sequences, SequencesExt

CONSTANTS rollSize,         \* rollSize_, in bytes
          kRollPerSeconds,  \* a period
          flushEvery,       \* LogFile's flushInterval_
          checkEveryN       \* checkEveryN_

CurrentFile(f) == f.files[Len(f.files)]
Period(t) == (t \div kRollPerSeconds) * kRollPerSeconds

NewAppendFile(now) == [name |-> now, lines |-> <<>>, flushed |-> 0, written |-> 0, late |-> 0]

(* AppendFile::flush(), and the fclose() of its destructor.                *)
Flush(f) == LET n == Len(f.files) IN
            IF n = 0 THEN f ELSE [f EXCEPT !.files[n].flushed = Len(f.files[n].lines)]

(* rollFile(): at most one file a second.                                  *)
rollFile(f, now) ==
    IF now > f.lastRoll
    THEN [Flush(f) EXCEPT !.lastRoll = now, !.lastFlush = now, !.startOfPeriod = Period(now),
                          !.files = Append(@, NewAppendFile(now))]
    ELSE f

NewLogFile(now) ==
    rollFile([files |-> <<>>, count |-> 0, startOfPeriod |-> 0, lastRoll |-> 0, lastFlush |-> 0], now)

(* AppendFile::append(): what fwrite() does not take is given up, but      *)
(* counted.  `late' counts, for the property below, the calls that came in *)
(* a later period than the file.                                           *)
AppendFile(f, lines, bytes, ok, now) ==
    LET n == Len(f.files)
        file == f.files[n]
        late == IF Period(now) = Period(file.name) THEN 0 ELSE 1
    IN [f EXCEPT !.files[n] =
           [name |-> file.name, lines |-> IF ok THEN file.lines \o lines ELSE file.lines,
            flushed |-> file.flushed, written |-> file.written + bytes, late |-> file.late + late]]

Checks(f) == f.count >= checkEveryN

(* append_unlocked().                                                      *)
append_unlocked(f, lines, bytes, ok, now) ==
    LET g == AppendFile(f, lines, bytes, ok, now)
        c == [g EXCEPT !.count = @ + 1]
        z == [g EXCEPT !.count = 0]
    IN IF CurrentFile(g).written > rollSize THEN rollFile(g, now)
       ELSE IF ~ Checks(c) THEN c
       ELSE IF Period(now) # g.startOfPeriod THEN rollFile(z, now)
       ELSE IF now - g.lastFlush > flushEvery THEN [Flush(z) EXCEPT !.lastFlush = now]
       ELSE z

(* All the lines, file by file.                                            *)
LinesOf(f) == FlattenSeq([i \in 1 .. Len(f.files) |-> f.files[i].lines])

(* No two files have one name, or the second would append to the first.    *)
DistinctFiles(f) == \A i, j \in 1 .. Len(f.files) : i < j => f.files[i].name < f.files[j].name

(* A file takes at most checkEveryN calls of a later period.               *)
RolledInTime(f) == \A i \in 1 .. Len(f.files) : f.files[i].late <= checkEveryN
=============================================================================
