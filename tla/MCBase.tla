------------------------------- MODULE MCBase -------------------------------
(***************************************************************************)
(* The monitors and the calendar of muduo/base.  They do not interact: a   *)
(* behaviour chooses one of them, `part', and only that one moves.         *)
(***************************************************************************)
EXTENDS Integers, Sequences, FiniteSets

CONSTANTS Producers, Consumers, Capacity, MaxPuts
VARIABLES items, at, puts, taken

CONSTANTS Workers, Clients, maxQueueSize, MaxTasks
VARIABLES running, tasks, threads, joined, owner, doing, in, asked, done

CONSTANTS rollSize, kRollPerSeconds, flushEvery, checkEveryN,
          BufferSize, LineLengths, DropAbove, MaxLines, MaxClock, MaxFailures
VARIABLES logging, current, next, buffers, new1, new2, toWrite, writing, output, back, user,
          latch, sleeps, clock, failures, lines, gone

CONSTANTS FirstYear, FirstDay, LastYear, ZoneFiles
VARIABLE month

VARIABLE part

(* The threads are finitely many, and each has one job.                    *)
ASSUME ThreadsAssumption ==
    /\ IsFiniteSet(Producers) /\ IsFiniteSet(Consumers) /\ Producers \intersect Consumers = {}
    /\ IsFiniteSet(Workers) /\ IsFiniteSet(Clients) /\ Workers \intersect Clients = {}

ASSUME SizesAssumption == Capacity \in Nat /\ maxQueueSize \in Nat

(* A LogFile looks at the clock after a number of appends, periods last,   *)
(* and the writer drops buffers only when more than two are full.          *)
ASSUME LogAssumption ==
    /\ kRollPerSeconds \in Nat \ {0} /\ checkEveryN \in Nat \ {0} /\ DropAbove \in Nat \ {0, 1}

Queue == INSTANCE BlockingQueue
Unbounded == INSTANCE BlockingQueue WITH Capacity <- 0
Pool == INSTANCE ThreadPool
Log == INSTANCE AsyncLogging
Time == INSTANCE TimeZone

queueVars == <<items, at, puts, taken>>
poolVars == <<running, tasks, threads, joined, owner, doing, in, asked, done>>
logVars == <<logging, current, next, buffers, new1, new2, toWrite, writing, output, back, user,
             latch, sleeps, clock, failures, lines, gone>>
vars == <<queueVars, poolVars, logVars, month, part>>

Init == /\ part \in {"queue", "unbounded", "pool", "log", "time"}
        /\ Queue!Init /\ Pool!Init /\ Log!Init /\ Time!Init

Next == \/ part = "queue" /\ Queue!Next /\ UNCHANGED <<part, month, poolVars, logVars>>
        \/ part = "unbounded" /\ Unbounded!Next /\ UNCHANGED <<part, month, poolVars, logVars>>
        \/ part = "pool" /\ Pool!Next /\ UNCHANGED <<part, month, queueVars, logVars>>
        \/ part = "log" /\ Log!Next /\ UNCHANGED <<part, month, queueVars, poolVars>>
        \/ part = "time" /\ Time!Next /\ UNCHANGED <<part, queueVars, poolVars, logVars>>

(* The scheduler runs every thread that is not asleep; consumers and       *)
(* producers call again and again, tasks end, and waitForSeconds() times   *)
(* out.  Nobody is bound to call append(), run() or stop(), and no wakeup  *)
(* is spurious by necessity.                                               *)
Fairness ==
    /\ \A c \in Consumers : WF_queueVars(part = "queue" /\ Queue!Take(c))
    /\ \A c \in Consumers : WF_queueVars(part = "unbounded" /\ Unbounded!Take(c))
    /\ \A p \in Producers : WF_queueVars(part = "queue" /\ at[p] = "awake" /\ Queue!Put(p))
    /\ \A w \in Workers : WF_poolVars(part = "pool" /\ Pool!WorkerStep(w))
    /\ WF_poolVars(part = "pool" /\ Pool!OwnerStep)
    /\ \A c \in Clients : WF_poolVars(part = "pool" /\ in[c] = "awake" /\ Pool!Run(c))
    /\ WF_logVars(part = "log" /\ Log!BackStep)
    /\ WF_logVars(part = "log" /\ Log!UserStep)
    /\ WF_logVars(part = "log" /\ Log!TimesOut)

Spec == Init /\ [][Next]_vars /\ Fairness
-----------------------------------------------------------------------------
(* The properties of the parts, see their modules.                         *)

(* No thread of the queues or of the pool sleeps on what it could take     *)
(* while nobody awake is going to take it, and every item is taken once.   *)
WakeupsSuffice ==
    /\ IF part = "unbounded" THEN Unbounded!QueueServes ELSE Queue!QueueServes
    /\ Pool!PoolWakesEnough

(* Log lines are neither lost nor reordered between append() and the file. *)
LogKept == Log!LogKept

(* Date and TimeZone agree with a calendar that counts days.               *)
TimesAgree == part = "time" => Time!TimesAgree

(* Lines reach the file without further appends, and stop() returns.       *)
LogLives == Log!LogLives

(* Nobody waits for ever: not for an item or a place in a queue, not for a *)
(* task to be run, not for a pool to stop.                                 *)
AllServed == Queue!ItemsTaken /\ Pool!PoolFinishes
-----------------------------------------------------------------------------
\* For the definition of the zone files.
Dates == INSTANCE TimeZone WITH ZoneFiles <- {}

\* A full hour of coordinated time.
Hour(year, mon, day, hour) ==
    Dates!fromUtcTime([year |-> year, month |-> mon, day |-> day],
                      [tm_hour |-> hour, tm_min |-> 0, tm_sec |-> 0])

Localtime(gmtOffset, isDst) == [gmtOffset |-> gmtOffset, isDst |-> isDst]

\* A zone west of Greenwich after the epoch, and one with summer time before
\* it that has a local mean time before the first transition.
TheZoneFiles ==
    { [trans |-> <<Hour(2006, 4, 2, 7), Hour(2006, 10, 29, 6), Hour(2007, 3, 11, 7), Hour(2007, 11, 4, 6)>>,
       types |-> <<2, 1, 2, 1>>,
       localtimes |-> <<Localtime(-18000, FALSE), Localtime(-14400, TRUE)>>],
      [trans |-> <<Hour(1910, 1, 1, 0), Hour(1969, 4, 27, 2), Hour(1969, 10, 26, 1)>>,
       types |-> <<2, 3, 2>>,
       localtimes |-> <<Localtime(-75, FALSE), Localtime(0, FALSE), Localtime(3600, TRUE)>>] }
=============================================================================
