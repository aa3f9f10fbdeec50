---------------------------------- MODULE Dates ----------------------------------
(***************************************************************************)
(* The date of a point in time (system/ascdate.c), with daylight savings   *)
(* time.  Time is counted in hours since January 1, 1970: minutes and      *)
(* seconds are the remainders of a division and touch nothing else.        *)
(* Months count from 0 and weekdays from 0 for Sunday, as in the code.     *)
(***************************************************************************)
EXTENDS Integers, SequencesExt

CONSTANTS
    Instants,       \* local standard times that are asked for, years 1970 to 2099
    Daylights       \* settings of dt_daylight: "off", "on", "auto"

VARIABLES
    dtnow,          \* what ascdate() is called with
    dt_daylight     \* Date.dt_daylight

dtVars == <<dtnow, dt_daylight>>

DtInit == dtnow \in Instants /\ dt_daylight \in Daylights

-----------------------------------------------------------------------------
HRPERDY == 24
isleap(year) == year % 4 = 0
dt_msize == <<31, 28, 31, 30, 31, 30, 31, 31, 30, 31, 30, 31>>

HoursOfYear(year) == HRPERDY * IF isleap(year) THEN 366 ELSE 365
HoursOfMonth(year, month) ==
    HRPERDY * (dt_msize[month + 1] + IF month = 1 /\ isleap(year) THEN 1 ELSE 0)

\* The year of a time, and what is left of the time.
RECURSIVE YearFrom(_, _)
YearFrom(year, now) ==
    IF HoursOfYear(year) > now THEN [year |-> year, left |-> now]
    ELSE YearFrom(year + 1, now - HoursOfYear(year))

RECURSIVE MonthFrom(_, _, _)
MonthFrom(year, month, now) ==
    IF month = 12 \/ HoursOfMonth(year, month) > now THEN [month |-> month, left |-> now]
    ELSE MonthFrom(year, month + 1, now - HoursOfMonth(year, month))

\* The weekday of January 1.
Jan1(year) == (4 + (year - 1970) + (year - 1969) \div 4) % 7

\* The second Sunday of March, and the first of November.
Marss(year) ==
    LET mar1 == (Jan1(year) + dt_msize[1] + dt_msize[2] + IF isleap(year) THEN 1 ELSE 0) % 7
    IN  IF mar1 = 0 THEN 8 ELSE 15 - mar1

Novfs(year) ==
    LET nov1 == (FoldLeft(+, Jan1(year), SubSeq(dt_msize, 1, 10))
                   + IF isleap(year) THEN 1 ELSE 0) % 7
    IN  IF nov1 = 0 THEN 1 ELSE 8 - nov1

\* Mutant of IsDst: all of the Sunday in November counts as winter.
IsDstShort(year, month, day, hour) ==
    \/ month > 2 /\ month < 10
    \/ month = 2 /\ (day > Marss(year) \/ (day = Marss(year) /\ hour >= 2))
    \/ month = 10 /\ day < Novfs(year)

\* Whether daylight savings time is on, when that is computed.
IsDst(year, month, day, hour) ==
    \/ month > 2 /\ month < 10
    \/ month = 2 /\ (day > Marss(year) \/ (day = Marss(year) /\ hour >= 2))
    \/ month = 10 /\ ~(day > Novfs(year) \/ (day = Novfs(year) /\ hour >= 1))

\* An hour ahead, into the next day or month where need be; the weekday stays.
Ahead(d) ==
    IF d.hour < 23 THEN [d EXCEPT !.hour = @ + 1]
    ELSE IF d.day < dt_msize[d.month + 1] THEN [d EXCEPT !.hour = 0, !.day = @ + 1]
    ELSE [d EXCEPT !.hour = 0, !.day = 1, !.month = @ + 1]

\* ascdate()
Ascdate(now, daylight) ==
    LET y    == YearFrom(1970, now)
        m    == MonthFrom(y.year, 0, y.left)
        day  == m.left \div HRPERDY + 1
        hour == m.left % HRPERDY
        dst  == daylight = "on" \/ (daylight = "auto" /\ IsDst(y.year, m.month, day, hour))
        d    == [year |-> y.year, month |-> m.month, day |-> day, hour |-> hour, dst |-> dst,
                 dayofweek |-> (Jan1(y.year) + y.left \div HRPERDY) % 7]
    IN  IF dst THEN Ahead(d) ELSE d

-----------------------------------------------------------------------------
(* The calendar, not as ascdate() goes through it.                         *)

\* Days from January 1, 1970, to a date.
DaysTo(year, month, day) ==
    LET before == FoldLeft(+, 0, SubSeq(dt_msize, 1, month))
    IN  365 * (year - 1970) + Cardinality({y \in 1970 .. year - 1 : isleap(y)})
          + before + (IF month > 1 /\ isleap(year) THEN 1 ELSE 0) + day - 1

\* January 1, 1970, was a Thursday.
IsSunday(year, month, day) == (DaysTo(year, month, day) + 4) % 7 = 0

\* The n-th Sunday of a month.
Sunday(n, year, month) ==
    CHOOSE day \in 7 * (n - 1) + 1 .. 7 * n : IsSunday(year, month, day)

\* A date is that of the time it was made from: its day exists and it is as many hours
\* after January 1, 1970; and "DST is on between 2:00 AM the second Sunday of March and 2:00
\* AM the first sunday in November" (ascdate.c:127-129), however the hour ahead crosses the
\* end of a day or a month.  The weekday is that of the standard time: it does not move with
\* the day (ascdate.c:201-219).
DateRight ==
    LET d     == Ascdate(dtnow, dt_daylight)
        from  == HRPERDY * DaysTo(d.year, 2, Sunday(2, d.year, 2)) + 2
        until == HRPERDY * DaysTo(d.year, 10, Sunday(1, d.year, 10)) + 2
    IN  /\ d.hour \in 0 .. HRPERDY - 1 /\ d.month \in 0 .. 11
        /\ d.day \in 1 .. HoursOfMonth(d.year, d.month) \div HRPERDY
        /\ HRPERDY * DaysTo(d.year, d.month, d.day) + d.hour = dtnow + (IF d.dst THEN 1 ELSE 0)
        /\ dt_daylight = "auto" => d.dst = (dtnow >= from /\ dtnow + 1 < until)
        /\ d.dayofweek = (dtnow \div HRPERDY + 4) % 7
==================================================================================
