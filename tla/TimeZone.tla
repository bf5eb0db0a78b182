------------------------------ MODULE TimeZone ------------------------------
(***************************************************************************)
(* The calendar of muduo::Date and the conversions of muduo::TimeZone.     *)
(*                                                                         *)
(* They are pure functions.  The only variable walks through the months of *)
(* a calendar that knows nothing but how long months are; in each month    *)
(* the conversions are compared with it.  Times are in seconds and as in   *)
(* version 1 of the zone files have 32 bits, dates have no such limit.     *)
(***************************************************************************)
EXTENDS Integers, Sequences, FiniteSetsExt

CONSTANTS
  FirstYear, FirstDay,   \* a year, and the Julian day number of its 1 January
  LastYear,
  ZoneFiles              \* [trans, localtimes, types], see readTimeZoneFile

VARIABLE month   \* [year, number, first]: a month and the Julian day number of its first day

-----------------------------------------------------------------------------
(* Date.                                                                     *)

getJulianDayNumber(year, mon, day) ==
  LET a == (14 - mon) \div 12
      y == year + 4800 - a
      m == mon + (12 * a) - 3
  IN  day + (((153 * m) + 2) \div 5) + (y * 365) + (y \div 4) - (y \div 100) + (y \div 400) - 32045

\* Mutant: the century is not rounded up.
MutGetYearMonthDay(julianDayNumber) ==
  LET a == julianDayNumber + 32044
      b == (4 * a) \div 146097
      c == a - ((b * 146097) \div 4)
      d == ((4 * c) + 3) \div 1461
      e == c - ((1461 * d) \div 4)
      m == ((5 * e) + 2) \div 153
  IN  [day |-> e - (((153 * m) + 2) \div 5) + 1,
       month |-> m + 3 - (12 * (m \div 10)),
       year |-> (b * 100) + d - 4800 + (m \div 10)]

getYearMonthDay(julianDayNumber) ==
  LET a == julianDayNumber + 32044
      b == ((4 * a) + 3) \div 146097
      c == a - ((b * 146097) \div 4)
      d == ((4 * c) + 3) \div 1461
      e == c - ((1461 * d) \div 4)
      m == ((5 * e) + 2) \div 153
  IN  [day |-> e - (((153 * m) + 2) \div 5) + 1,
       month |-> m + 3 - (12 * (m \div 10)),
       year |-> (b * 100) + d - 4800 + (m \div 10)]

weekDay(julianDayNumber) == (julianDayNumber + 1) % 7

kJulianDayOf1970 == getJulianDayNumber(1970, 1, 1)

-----------------------------------------------------------------------------
(* Coordinated time.                                                         *)

kSecondsPerDay == 24 * 60 * 60

\* The division of C, which rounds towards zero.
Quotient(a, b) == IF a < 0 THEN -((-a) \div b) ELSE a \div b
Remainder(a, b) == a - (b * Quotient(a, b))

\* toUtcTime() splits a time into a day and the seconds into it.
DayAndSeconds(time) ==
  LET seconds == Remainder(time, kSecondsPerDay)
      days == Quotient(time, kSecondsPerDay)
  IN  IF seconds < 0 THEN [day |-> days - 1, seconds |-> seconds + kSecondsPerDay]
                     ELSE [day |-> days, seconds |-> seconds]

\* The fields of a struct tm; tm_year and tm_mon count as in Date.
fillHMS(seconds) ==
  [tm_hour |-> (seconds \div 60) \div 60, tm_min |-> (seconds \div 60) % 60, tm_sec |-> seconds % 60]

toUtcTime(time) ==
  LET at == DayAndSeconds(time)
      day == at.day + kJulianDayOf1970
      ymd == getYearMonthDay(day)
  IN  [date |-> ymd, time |-> fillHMS(at.seconds), tm_wday |-> weekDay(day),
       tm_yday |-> day - getJulianDayNumber(ymd.year, 1, 1)]

fromUtcTime(date, time) ==
  ((getJulianDayNumber(date.year, date.month, date.day) - kJulianDayOf1970) * kSecondsPerDay)
    + (time.tm_hour * 3600) + (time.tm_min * 60) + time.tm_sec

-----------------------------------------------------------------------------
(* Zones.                                                                    *)

\* What readTimeZoneFile() has read when the file ends behind `read' of its
\* localtimes: it gives up where it is, and the transitions, which need the
\* localtimes, are put together after all of them.  Indexes begin with 1.
readTimeZoneFile(file, read) ==
  [localtimes |-> SubSeq(file.localtimes, 1, read),
   transitions |->
     IF read < Len(file.localtimes) THEN <<>>
     ELSE [i \in DOMAIN file.trans |->
             [gmttime |-> file.trans[i],
              localtime |-> file.trans[i] + file.localtimes[file.types[i]].gmtOffset,
              localtimeIdx |-> file.types[i]]]]

\* A fixed zone.
FixedZone(eastOfUtc) ==
  [localtimes |-> <<[gmtOffset |-> eastOfUtc, isDst |-> FALSE]>>, transitions |-> <<>>]

\* std::lower_bound(): the first of the sorted times not before `time'.
lower_bound(times, time) == Min({i \in DOMAIN times : times[i] >= time} \cup {Len(times) + 1})

\* The transitions are compared by their gmttime or their localtime: times.
findLocaltime(data, times, time) ==
  LET i == lower_bound(times, time)
      found == IF i <= Len(times) /\ times[i] = time THEN i ELSE i - 1
  IN  IF times = <<>> \/ (times # <<>> /\ time < Head(times))
        THEN data.localtimes[1]
        ELSE data.localtimes[data.transitions[found].localtimeIdx]

\* gmtime_r() and timegm() are toUtcTime() and fromUtcTime(), as the code
\* says they should be.
toLocalTime(data, time) ==
  LET local == findLocaltime(data, [i \in DOMAIN data.transitions |-> data.transitions[i].gmttime], time)
  IN  [utc |-> toUtcTime(time + local.gmtOffset), tm_isdst |-> local.isDst, tm_gmtoff |-> local.gmtOffset]

fromLocalTime(data, localTm) ==
  LET seconds == fromUtcTime(localTm.utc.date, localTm.utc.time)
      local == findLocaltime(data, [i \in DOMAIN data.transitions |-> data.transitions[i].localtime], seconds)
      tryTm == toLocalTime(data, seconds - local.gmtOffset)
      again == /\ localTm.tm_isdst /\ ~tryTm.tm_isdst
               /\ tryTm.utc.time.tm_hour = localTm.utc.time.tm_hour
               /\ tryTm.utc.time.tm_min = localTm.utc.time.tm_min
  IN  (IF again THEN seconds - 3600 ELSE seconds) - local.gmtOffset

-----------------------------------------------------------------------------
(* The calendar that the conversions are compared with.                      *)

IsLeap(year) == year % 4 = 0 /\ (year % 100 = 0 => year % 400 = 0)

DaysIn(year, number) ==
  CASE number = 2 -> IF IsLeap(year) THEN 29 ELSE 28
    [] number \in {4, 6, 9, 11} -> 30
    [] OTHER -> 31

Init == month = [year |-> FirstYear, number |-> 1, first |-> FirstDay]

NextMonth ==
  /\ month.year = LastYear => month.number < 12
  /\ month' = [year |-> IF month.number = 12 THEN month.year + 1 ELSE month.year,
               number |-> (month.number % 12) + 1,
               first |-> month.first + DaysIn(month.year, month.number)]

Next == NextMonth

-----------------------------------------------------------------------------
(* Properties.                                                               *)

\* Every date has the day number that counting days gives, through leap years
\* and centuries, and getYearMonthDay() undoes it.
DatesAgree ==
  \A day \in 1..DaysIn(month.year, month.number) :
    LET n == month.first + day - 1
    IN  /\ getJulianDayNumber(month.year, month.number, day) = n
        /\ getYearMonthDay(n) = [year |-> month.year, month |-> month.number, day |-> day]

\* The days of the month whose seconds have 32 bits.
In32Bits == month.year \in 1902..2037

\* From the first to the last second of a month, before the epoch and after
\* it, toUtcTime() gives the date, the time of day and the day of the week
\* and of the year, and fromUtcTime() undoes it.
UtcAgrees ==
  In32Bits =>
    \A day \in {1, DaysIn(month.year, month.number)}, seconds \in {0, 59, 3600, kSecondsPerDay - 1} :
      LET n == month.first + day - 1
          utc == toUtcTime(((n - 2440588) * kSecondsPerDay) + seconds)
      IN  /\ utc.date = [year |-> month.year, month |-> month.number, day |-> day]
          /\ utc.time = fillHMS(seconds)
          /\ utc.tm_wday = (n - FirstDay + weekDay(FirstDay)) % 7
          /\ utc.tm_yday = day - 1 + MapThenSumSet(LAMBDA k : DaysIn(month.year, k), 1..month.number - 1)
          /\ fromUtcTime(utc.date, utc.time) = ((n - 2440588) * kSecondsPerDay) + seconds

\* The zones that can be read, files cut short included.
Zones ==
  UNION {{readTimeZoneFile(file, read) : read \in 1..Len(file.localtimes)} : file \in ZoneFiles}
  \cup {FixedZone(eastOfUtc) : eastOfUtc \in {-12600, 0, 28800}}

\* Around the transitions of a zone in this month, and on its first day.
Instants(zone) ==
  LET begin == (month.first - 2440588) * kSecondsPerDay
      end == begin + (DaysIn(month.year, month.number) * kSecondsPerDay)
      turns == {t \in {zone.transitions[i].gmttime : i \in DOMAIN zone.transitions} : begin <= t /\ t < end}
  IN  {t + d : t \in turns \cup {begin}, d \in {-7200, -3601, -3600, -3599, -1, 0, 1, 3599, 3600, 3601, 7200}}

\* At every instant the offset is that of the latest transition, and of the
\* zone's first localtime before there was one.
OffsetInForce ==
  In32Bits =>
    \A zone \in Zones : \A time \in Instants(zone) :
      LET passed == {i \in DOMAIN zone.transitions : zone.transitions[i].gmttime <= time}
          index == IF passed = {} THEN 1 ELSE zone.transitions[Max(passed)].localtimeIdx
      IN  toLocalTime(zone, time).tm_gmtoff = zone.localtimes[index].gmtOffset

\* fromLocalTime() undoes toLocalTime(), also in the hour that comes twice when
\* summer time ends and next to the hour that is left out when it begins.
LocalTimesReturn ==
  In32Bits =>
    \A zone \in Zones : \A time \in Instants(zone) : fromLocalTime(zone, toLocalTime(zone, time)) = time

\* Dates, coordinated time and local time are what a calendar says.
TimesAgree == DatesAgree /\ UtcAgrees /\ OffsetInForce /\ LocalTimesReturn
=============================================================================
