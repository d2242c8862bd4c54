------------------------------- MODULE Calendar -------------------------------
(***************************************************************************)
(* The calendar of the device: how the clock service advances a date       *)
(* (src/services/rtc/rtc_service.cpp) and which dates the clock setting    *)
(* accepts (src/app/rtc_setting/rtc_setting_app.cpp).  A date is walked    *)
(* day by day through the century, next to a day number computed without   *)
(* any table of months.                                                    *)
(***************************************************************************)
EXTENDS Integers

CONSTANTS
    Years,     \* the years a walk starts in
    MaxWalk    \* bound: days walked

ASSUME CalendarAssumption == Years \subseteq 2000 .. 2099 /\ MaxWalk \in Nat

VARIABLES
    date,    \* rtc_date
    start,   \* the year the walk started in, on the first of January
    walked   \* days since

calendarVars == <<date, start, walked>>

CalendarTypeOK ==
    /\ date \in [year : 2000 .. 2099, month : 1 .. 12, day : 1 .. 31]
    /\ start \in Years /\ walked \in 0 .. MaxWalk

IsLeapYear(year) == year % 4 = 0 /\ (year % 100 # 0 \/ year % 400 = 0)

MonthDays == <<31, 28, 31, 30, 31, 30, 31, 31, 30, 31, 30, 31>>

DaysInMonth(year, month) ==
    IF month = 2 /\ IsLeapYear(year) THEN 29 ELSE MonthDays[month]

\* Faulty variant: after the last year comes no other.
AfterYearEndless(year) == year + 1

\* advance_one_day: the century starts again.
AfterYear(year) == IF year < 2099 THEN year + 1 ELSE 2000

Advanced(d) ==
    IF d.day < DaysInMonth(d.year, d.month) THEN [d EXCEPT !.day = @ + 1]
    ELSE IF d.month < 12 THEN [year |-> d.year, month |-> d.month + 1, day |-> 1]
    ELSE [year |-> AfterYear(d.year), month |-> 1, day |-> 1]

\* advance_datetime, over a number of days
AdvancedBy(d, elapsed) ==
    LET after[n \in 0 .. elapsed] == IF n = 0 THEN d ELSE Advanced(after[n - 1])
    IN  after[elapsed]

\* build_datetime of the setting app, for the digits of a date.
Accepted(year, month, day) ==
    /\ year \in 2000 .. 2099 /\ month \in 1 .. 12
    /\ day >= 1 /\ day <= DaysInMonth(year, month)

CalendarInit ==
    /\ start \in Years /\ walked = 0
    /\ date = [year |-> start, month |-> 1, day |-> 1]

\* The clock is asked for after one day, or after a few.
Elapse(n) ==
    /\ walked + n <= MaxWalk /\ walked' = walked + n
    /\ date' = AdvancedBy(date, n) /\ UNCHANGED start

CalendarNext == Elapse(1) \/ Elapse(31)

CalendarSpec == CalendarInit /\ [][CalendarNext]_calendarVars
-----------------------------------------------------------------------------
\* The day number of a date, counting the years from March.
DayNumber(year, month, day) ==
    LET y == IF month > 2 THEN year ELSE year - 1
        m == (month + 9) % 12
    IN  365 * y + y \div 4 - y \div 100 + y \div 400 + (153 * m + 2) \div 5 + day

Century == DayNumber(2100, 1, 1) - DayNumber(2000, 1, 1)

\* The date the service shows after some days is the date so many days later,
\* over leap years and the end of the century; the setting app accepts every
\* date the service can show, and no day after the last one of a month
\* (advance_one_day, rtc_setting_app::build_datetime).
CalendarExact ==
    /\ (DayNumber(date.year, date.month, date.day) - DayNumber(start, 1, 1) - walked)
           % Century = 0
    /\ Accepted(date.year, date.month, date.day)
    /\ Accepted(date.year, date.month, date.day + 1) <=> Advanced(date).day # 1
=============================================================================
