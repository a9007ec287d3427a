------------------------------- MODULE Calendar --------------------------------
(***************************************************************************)
(* muduo::Date and muduo::TimeZone: days counted from the Julian epoch,    *)
(* seconds from 1970, and the calendar.  The reference is a calendar that  *)
(* is turned leaf by leaf: civil is the date on it and weekday its day of  *)
(* the week, julian the number of the day.                                 *)
(***************************************************************************)
EXTENDS Integers

CONSTANTS
    FirstYear, LastYear,   \* bounds; Date.h:32 gives [1900..2500]
    FirstJulianDay,        \* of the first of January of FirstYear
    FirstWeekday,          \* 0 is Sunday
    TimeTYears,            \* bound: the years whose seconds TLC can count
    TimesOfDay             \* bound: the moments of a day

VARIABLES civil, weekday, julian
calendarVars == <<civil, weekday, julian>>

kSecondsPerDay == 24 * 60 * 60
kDaysPerWeek == 7

(* Integer division and remainder of C++, which round to zero. *)
Quot(a, b) == IF a >= 0 THEN a \div b ELSE -((-a) \div b)
Remainder(a, b) == a - b * Quot(a, b)

(* Date.cc *)
Cycle(month) == (14 - month) \div 12       \* 1 in January and February
getJulianDayNumber(year, month, day) ==
    LET a == Cycle(month)
        y == year + 4800 - a
        m == month + 12 * a - 3
    IN day + (153 * m + 2) \div 5 + y * 365 + y \div 4 - y \div 100 + y \div 400 - 32045

Century(a) == (4 * a + 3) \div 146097
getYearMonthDay(julianDayNumber) ==
    LET a == julianDayNumber + 32044
        b == Century(a)
        c == a - (b * 146097) \div 4
        d == (4 * c + 3) \div 1461
        e == c - (1461 * d) \div 4
        m == (5 * e + 2) \div 153
    IN [day |-> e - (153 * m + 2) \div 5 + 1,
        month |-> m + 3 - 12 * (m \div 10),
        year |-> b * 100 + d - 4800 + m \div 10]
weekDay(julianDayNumber) == (julianDayNumber + 1) % kDaysPerWeek
kJulianDayOf1970_01_01 == getJulianDayNumber(1970, 1, 1)

(* TimeZone::toUtcTime, before 1970 too. *)
DayAndSeconds(t) ==
    LET s == Remainder(t, kSecondsPerDay)
        d == Quot(t, kSecondsPerDay)
    IN IF s < 0 THEN [days |-> d - 1, seconds |-> s + kSecondsPerDay]
       ELSE [days |-> d, seconds |-> s]
fillHMS(s) == [sec |-> s % 60, min |-> (s \div 60) % 60, hour |-> (s \div 60) \div 60]
toUtcTime(t) ==
    LET at == DayAndSeconds(t)
        date == at.days + kJulianDayOf1970_01_01
        ymd == getYearMonthDay(date)
    IN [ymd |-> ymd, hms |-> fillHMS(at.seconds), wday |-> weekDay(date),
        yday |-> date - getJulianDayNumber(ymd.year, 1, 1)]
fromUtcTime(year, month, day, hour, minute, secs) ==
    (getJulianDayNumber(year, month, day) - kJulianDayOf1970_01_01) * kSecondsPerDay
        + hour * 3600 + minute * 60 + secs

-------------------------------------------------------------------------------
(* The reference: the calendar's own rules. *)
Leap(y) == y % 4 = 0 /\ (y % 100 = 0 => y % 400 = 0)
MonthLength(y, m) ==
    IF m = 2 THEN (IF Leap(y) THEN 29 ELSE 28) ELSE IF m \in {4, 6, 9, 11} THEN 30 ELSE 31
NextDay(c) ==
    IF c.day < MonthLength(c.year, c.month) THEN [c EXCEPT !.day = @ + 1]
    ELSE IF c.month < 12 THEN [year |-> c.year, month |-> c.month + 1, day |-> 1]
    ELSE [year |-> c.year + 1, month |-> 1, day |-> 1]

CalendarInit ==
    /\ civil = [year |-> FirstYear, month |-> 1, day |-> 1]
    /\ julian = FirstJulianDay /\ weekday = FirstWeekday
Turn ==
    /\ civil.year <= LastYear
    /\ civil' = NextDay(civil) /\ julian' = julian + 1
    /\ weekday' = IF weekday = 6 THEN 0 ELSE weekday + 1
CalendarSpec == CalendarInit /\ [][Turn]_calendarVars

-------------------------------------------------------------------------------
(* A day on the calendar and its number are the same day, both ways: the two
   formulas of Date.cc hold over every leap year and every century. *)
DatesAgree ==
    /\ getJulianDayNumber(civil.year, civil.month, civil.day) = julian
    /\ getYearMonthDay(julian) = civil
    /\ weekDay(julian) = weekday

EpochDay == 2440588     \* of the first of January 1970
(* Each moment of the day has that date, and is found again from it, before
   1970 as after; the day of the year counts from zero. *)
UtcRoundTrip ==
    civil.year \in TimeTYears => \A s \in TimesOfDay :
        LET t == (julian - EpochDay) * kSecondsPerDay + s
            utc == toUtcTime(t)
        IN /\ utc.ymd = civil /\ utc.wday = weekday
           /\ fromUtcTime(civil.year, civil.month, civil.day,
                          utc.hms.hour, utc.hms.min, utc.hms.sec) = t
           /\ utc.yday \in 0..365 /\ (utc.yday = 0) = (civil.month = 1 /\ civil.day = 1)
===============================================================================
