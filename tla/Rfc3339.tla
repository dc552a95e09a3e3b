------------------------------- MODULE Rfc3339 -------------------------------
(***************************************************************************)
(* QueryBuilder::parse_rfc3339 (builder.hpp), which gives as_of_time() its *)
(* instant, against a calendar that is walked one day at a time.           *)
(*                                                                         *)
(* A text is its six numbers; sscanf stops behind them.  An instant keeps  *)
(* its days and its second of the day apart: the code's int64_t holds      *)
(* days * 86400 + second, TLC's integers would not.                        *)
(***************************************************************************)
EXTENDS Integers

CONSTANTS
    LastYear,  \* the walk ends with it
    Clocks     \* times of day: [hour, minute, second]

ASSUME CalendarAssumption ==
    /\ LastYear \in Nat /\ LastYear >= 1970
    /\ Clocks \subseteq [hour : Int, minute : Int, second : Int]

VARIABLES
    date,  \* [year, month, day]
    days   \* days walked since 1970-01-01

calendar == <<date, days>>

-----------------------------------------------------------------------------
IsLeap(year) == (year % 4 = 0 /\ year % 100 # 0) \/ year % 400 = 0

days_in_month == <<31, 28, 31, 30, 31, 30, 31, 31, 30, 31, 30, 31>>

\* The two loops: days of the years, and of the months, before a given one.
DaysFromYears[year \in 1970..LastYear] ==
    IF year = 1970 THEN 0
    ELSE DaysFromYears[year - 1] + 365 + (IF IsLeap(year - 1) THEN 1 ELSE 0)

DaysFromMonths[month \in 1..12] ==
    IF month = 1 THEN 0 ELSE DaysFromMonths[month - 1] + days_in_month[month - 1]

\* Fault: February itself is already a day longer.
LeapDayEarly(year, month) == IF month >= 2 /\ IsLeap(year) THEN 1 ELSE 0

LeapDay(year, month) == IF month > 2 /\ IsLeap(year) THEN 1 ELSE 0

parse_rfc3339(day, clock) ==
    [days |-> DaysFromYears[day.year] + DaysFromMonths[day.month]
                + LeapDay(day.year, day.month) + day.day - 1,
     second |-> clock.hour * 3600 + clock.minute * 60 + clock.second]

-----------------------------------------------------------------------------
(* The calendar: thirty days have April, June, September and November. *)

Length(day) ==
    CASE day.month \in {4, 6, 9, 11} -> 30
      [] day.month = 2 -> IF day.year % 400 = 0 THEN 29
                          ELSE IF day.year % 100 = 0 THEN 28
                          ELSE IF day.year % 4 = 0 THEN 29 ELSE 28
      [] OTHER -> 31

Epoch == date = [year |-> 1970, month |-> 1, day |-> 1] /\ days = 0

NextDay == date.day < Length(date) /\ date' = [date EXCEPT !.day = @ + 1]

NextMonth == /\ date.day = Length(date) /\ date.month < 12
             /\ date' = [date EXCEPT !.day = 1, !.month = @ + 1]

NextYear == /\ date.day = Length(date) /\ date.month = 12 /\ date.year < LastYear
            /\ date' = [year |-> date.year + 1, month |-> 1, day |-> 1]

Walk == (NextDay \/ NextMonth \/ NextYear) /\ days' = days + 1

CalendarSpec == Epoch /\ [][Walk]_calendar

\* A UTC time is parsed to the days that really lie between it and the epoch
\* and the seconds since its midnight, through every kind of leap year.
UtcIsExact ==
    \A clock \in Clocks :
        parse_rfc3339(date, clock) =
            [days |-> days, second |-> (clock.hour * 60 + clock.minute) * 60 + clock.second]
=============================================================================
