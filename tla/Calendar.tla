------------------------------ MODULE Calendar ------------------------------
(***************************************************************************)
(* The program's date functions checked against a calendar that only knows  *)
(* how to step from one day to the next.                                    *)
(***************************************************************************)
EXTENDS Utils

CONSTANTS Epochs,   \* the days to start from, each with its weekday
          Days      \* bound: how many days to step

\* The Gregorian calendar, stated apart from the program's tables.
MonthLength(y, m) ==
  IF m = 2
  THEN IF y % 4 = 0 /\ (y % 100 = 0 => y % 400 = 0) THEN 29 ELSE 28
  ELSE IF m \in {4, 6, 9, 11} THEN 30 ELSE 31

\* The days of the calendar, from the year 1.
IsDay(day) ==
  /\ day = [y |-> day.y, m |-> day.m, d |-> day.d]
  /\ day.y \in Nat \ {0} /\ day.m \in 1 .. 12 /\ day.d \in 1 .. MonthLength(day.y, day.m)

\* The program knows the weekday of the days to start from.
ASSUME CalendarAssumption ==
  /\ Days \in Nat
  /\ \A e \in Epochs : /\ IsDay(e.day)
                       /\ CaculateWeekDay(e.day.y, e.day.m, e.day.d) = e.weekday

VARIABLES today,    \* [y, m, d]
          weekday,  \* of today, counted up from the epoch's
          dayOfYear,\* of today, counted up from the last New Year; -1 before
          passed    \* days stepped

vars == <<today, weekday, dayOfYear, passed>>

Init == /\ \E e \in Epochs : today = e.day /\ weekday = e.weekday
        /\ dayOfYear = -1
        /\ passed = 0

LastOfMonth == today.d = MonthLength(today.y, today.m)

Tomorrow ==
  IF ~LastOfMonth THEN [today EXCEPT !.d = @ + 1]
  ELSE IF today.m < 12 THEN [y |-> today.y, m |-> today.m + 1, d |-> 1]
  ELSE [y |-> today.y + 1, m |-> 1, d |-> 1]

Step ==
  /\ passed < Days
  /\ today' = Tomorrow
  /\ weekday' = (weekday + 1) % 7
  /\ dayOfYear' = IF LastOfMonth /\ today.m = 12 THEN 0
                  ELSE IF dayOfYear = -1 THEN -1 ELSE dayOfYear + 1
  /\ passed' = passed + 1

Spec == Init /\ [][Step]_vars
-----------------------------------------------------------------------------
\* The weekday of every date is the one after the day before's, across the
\* ends of months, leap years and centuries.
WeekdayCorrect == CaculateWeekDay(today.y, today.m, today.d) = weekday

\* The day index counts the days of a year from 0 without a gap, so two days of
\* a year never share a drawer.
DayIndexCorrect ==
  dayOfYear # -1 => getIdxOfDate(today.y, today.m, today.d) = dayOfYear
=============================================================================
