------------------------------- MODULE Utils -------------------------------
(***************************************************************************)
(* The dates and times of Utils: a date is the integer yyyymmdd, a time the *)
(* integer hhmmss, and the drawers of a trip are found from them.  They are *)
(* those of records and of the clock, never negative, so \div and % are C's *)
(* / and %.  The date 0 of a zeroed record is a date too: year, month and   *)
(* day are 0.                                                              *)
(***************************************************************************)
EXTENDS Integers, Sequences, FiniteSetsExt

YEAR_MON_DATE_CVT(y, m, d) == y * 10000 + m * 100 + d
YEAR_MON_DATE_DVT(ymd) ==
  [y |-> ymd \div 10000, m |-> (ymd % 10000) \div 100, d |-> ymd % 100]

\* Mutant: January and February not counted with the year before.
WeekDayNoShift(y, m, d) ==
  (((d + 2 * m + (3 * (m + 1)) \div 5 + y + (y \div 4)
     - (y \div 100) + (y \div 400)) % 7) + 1) % 7

\* Zeller's rule: January and February count as months of the year before.
\* 0 is Sunday.
CaculateWeekDay(y, m, d) ==
  LET early == m \in {1, 2}
      yy    == IF early THEN y - 1 ELSE y
      mm    == IF early THEN m + 12 ELSE m
      week  == ((d + 2 * mm + (3 * (mm + 1)) \div 5 + yy + (yy \div 4)
                 - (yy \div 100) + (yy \div 400)) % 7) + 1
  IN  week % 7

\* Mutant: every fourth year.
LeapEveryFour(y) == y % 4 = 0

LeapYear(y) == (y % 4 = 0 /\ y % 100 # 0) \/ y % 400 = 0

daByMon(y) ==
  <<31, IF LeapYear(y) THEN 29 ELSE 28, 31, 30, 31, 30, 31, 31, 30, 31, 30, 31>>

\* Days in the months before mon, summed month by month; none before a month 0.
DaysBefore(y, mon) ==
  LET idx[i \in 0 .. 12] == IF i = 0 THEN 0 ELSE idx[i - 1] + daByMon(y)[i]
  IN  IF mon = 0 THEN 0 ELSE idx[mon - 1]

\* The index of a day among the 366 drawers of mBehavDatePerYear.
getIdxOfDate(y, mon, da) == DaysBefore(y, mon) + da - 1

\* "diff day is 1".  dt1 = dt++ leaves the old day in dt1, so the month is
\* carried only for a day past the end of it, and m1 = m++ is the old month.
getDateByDiffDay(ymd) ==
  LET t     == YEAR_MON_DATE_DVT(ymd)
      over  == t.d > daByMon(t.y)[t.m]
      dt1   == IF over THEN t.d - daByMon(t.y)[t.m] ELSE t.d
      carry == over /\ t.m > 12
  IN  YEAR_MON_DATE_CVT(IF carry THEN t.y + 1 ELSE t.y,
                        IF carry THEN t.m - 12 ELSE t.m, dt1)

TIME_DVT(hms) ==
  [h |-> hms \div 10000, m |-> (hms % 10000) \div 100, s |-> hms % 100]
=============================================================================
