--------------------------- MODULE Calendar_proofs ---------------------------
(***************************************************************************)
(* The program's date functions are right for every day of the calendar, as *)
(* they are for the days it starts from.                                    *)
(***************************************************************************)
EXTENDS Calendar, TLAPS

\* The index goes on where it was, across the ends of months and years.
CalendarInv ==
  /\ IsDay(today) /\ weekday \in 0 .. 6 /\ dayOfYear \in Int
  /\ WeekdayCorrect /\ DayIndexCorrect

-----------------------------------------------------------------------------
\* A number from 0 to 6 for every date.
LEMMA WeekDayType ==
  ASSUME NEW y \in Nat \ {0}, NEW m \in 1 .. 12, NEW d \in Nat
  PROVE  CaculateWeekDay(y, m, d) \in 0 .. 6
BY DEF CaculateWeekDay

\* Within a month the weekday goes on by one.
LEMMA WeekDayInMonth ==
  ASSUME NEW y \in Nat \ {0}, NEW m \in 1 .. 12, NEW d \in Nat
  PROVE  CaculateWeekDay(y, m, d + 1) = (CaculateWeekDay(y, m, d) + 1) % 7
BY DEF CaculateWeekDay

\* So it does from the last of a month to the first of the next.
LEMMA WeekDayNextMonth ==
  ASSUME NEW y \in Nat \ {0}, NEW m \in 1 .. 11
  PROVE  CaculateWeekDay(y, m + 1, 1) = (CaculateWeekDay(y, m, MonthLength(y, m)) + 1) % 7
BY DEF CaculateWeekDay, MonthLength

\* And from the last of a year to New Year.
LEMMA WeekDayNextYear ==
  ASSUME NEW y \in Nat \ {0}
  PROVE  CaculateWeekDay(y + 1, 1, 1) = (CaculateWeekDay(y, 12, 31) + 1) % 7
BY DEF CaculateWeekDay

-----------------------------------------------------------------------------
\* The table of the months has the length of each.
LEMMA MonthTable ==
  ASSUME NEW y \in Nat \ {0}, NEW m \in 1 .. 12
  PROVE  /\ daByMon(y)[m] = MonthLength(y, m)
         /\ MonthLength(y, m) \in 28 .. 31
BY DEF daByMon, MonthLength, LeapYear

\* What the program sums up to each month.
Sums(y) == [i \in 0 .. 12 |->
  LET feb == daByMon(y)[2]
  IN  CASE i = 0 -> 0        [] i = 1 -> 31        [] i = 2 -> 31 + feb
        [] i = 3 -> 62 + feb  [] i = 4 -> 92 + feb  [] i = 5 -> 123 + feb
        [] i = 6 -> 153 + feb [] i = 7 -> 184 + feb [] i = 8 -> 215 + feb
        [] i = 9 -> 245 + feb [] i = 10 -> 276 + feb [] i = 11 -> 306 + feb
        [] OTHER -> 337 + feb]

\* A sum goes on month by month.
Summed(y, f) ==
  f = [i \in 0 .. 12 |-> IF i = 0 THEN 0 ELSE f[i - 1] + daByMon(y)[i]]

LEMMA SumsAreSummed ==
  ASSUME NEW y \in Nat \ {0}
  PROVE  Summed(y, Sums(y))
<1> DEFINE feb == daByMon(y)[2]
           f == Sums(y)
<1>0. feb \in {28, 29}
  BY DEF daByMon
<1>1. ASSUME NEW i \in 0 .. 12
      PROVE  f[i] = IF i = 0 THEN 0 ELSE f[i - 1] + daByMon(y)[i]
  <2>1. CASE i = 0
    BY <2>1 DEF Sums
  <2>2. CASE i # 0
    <3>1. i \in 1 .. 12 /\ i - 1 \in 0 .. 11
      BY <2>2
    <3>2. CASE i \in {1, 2}
      BY <3>2, <1>0 DEF Sums, daByMon
    <3>3. CASE i \in {3, 4, 5}
      BY <3>3, <1>0 DEF Sums, daByMon
    <3>4. CASE i \in {6, 7, 8}
      BY <3>4, <1>0 DEF Sums, daByMon
    <3>5. CASE i \in {9, 10}
      BY <3>5, <1>0 DEF Sums, daByMon
    <3>6. CASE i \in {11, 12}
      BY <3>6, <1>0 DEF Sums, daByMon
    <3> QED
      BY <3>1, <3>2, <3>3, <3>4, <3>5, <3>6
  <2> QED
    BY <2>1, <2>2
<1>2. f = [i \in 0 .. 12 |-> f[i]]
  BY DEF Sums
<1> HIDE DEF f
<1>3. f = [i \in 0 .. 12 |-> IF i = 0 THEN 0 ELSE f[i - 1] + daByMon(y)[i]]
  BY <1>1, <1>2
<1> QED
  BY <1>3 DEF Summed, f

\* The days before a month: none before January, and a month more each time.
LEMMA DaysBeforeIs ==
  ASSUME NEW y \in Nat \ {0}
  PROVE  /\ DaysBefore(y, 1) = 0
         /\ \A m \in 1 .. 11 : /\ DaysBefore(y, m) \in Int
                                /\ DaysBefore(y, m + 1) = DaysBefore(y, m) + MonthLength(y, m)
         /\ DaysBefore(y, 12) \in Int
<1> DEFINE idx == CHOOSE f : Summed(y, f)
<1>1. Summed(y, idx)
  BY SumsAreSummed
<1>2. \A mon \in 1 .. 12 : DaysBefore(y, mon) = idx[mon - 1]
  BY DEF DaysBefore, Summed
<1> HIDE DEF idx
<1>3. idx[0] = 0 /\ \A i \in 1 .. 12 : idx[i] = idx[i - 1] + daByMon(y)[i]
  BY <1>1 DEF Summed
<1>4. \A i \in 1 .. 12 : daByMon(y)[i] \in Int
  BY MonthTable
<1>5. \A i \in 0 .. 11 : idx[i] \in Int
  <2>1. \A i \in 0 .. 3 : idx[i] \in Int
    BY <1>3, <1>4
  <2>2. \A i \in 4 .. 7 : idx[i] \in Int
    BY <1>3, <1>4, <2>1
  <2>3. \A i \in 8 .. 11 : idx[i] \in Int
    BY <1>3, <1>4, <2>2
  <2> QED
    BY <2>1, <2>2, <2>3
<1>6. ASSUME NEW m \in 1 .. 11
      PROVE  DaysBefore(y, m + 1) = DaysBefore(y, m) + MonthLength(y, m)
  <2>1. DaysBefore(y, m + 1) = idx[m] /\ DaysBefore(y, m) = idx[m - 1]
    BY <1>2
  <2>2. idx[m] = idx[m - 1] + daByMon(y)[m]
    BY <1>3
  <2> QED
    BY <2>1, <2>2, MonthTable
<1> QED
  BY <1>2, <1>3, <1>5, <1>6

\* The index of the day after, in the same year.
LEMMA IndexGoesOn ==
  ASSUME NEW y \in Nat \ {0}
  PROVE  /\ getIdxOfDate(y, 1, 1) = 0
         /\ \A m \in 1 .. 12, d \in Nat :
              /\ getIdxOfDate(y, m, d) \in Int
              /\ getIdxOfDate(y, m, d + 1) = getIdxOfDate(y, m, d) + 1
         /\ \A m \in 1 .. 11 :
              getIdxOfDate(y, m + 1, 1) = getIdxOfDate(y, m, MonthLength(y, m)) + 1
<1>1. \A m \in 1 .. 12 : DaysBefore(y, m) \in Int
  BY DaysBeforeIs
<1>2. \A m \in 1 .. 12 : MonthLength(y, m) \in Int
  BY MonthTable
<1> QED
  BY <1>1, <1>2, DaysBeforeIs DEF getIdxOfDate

-----------------------------------------------------------------------------
LEMMA CalendarInit ==
  ASSUME Init
  PROVE  CalendarInv
<1>1. PICK e \in Epochs : today = e.day /\ weekday = e.weekday
  BY DEF Init
<1>2. /\ IsDay(today)
      /\ CaculateWeekDay(today.y, today.m, today.d) = weekday
  BY <1>1, CalendarAssumption
<1>3. weekday \in 0 .. 6
  <2>1. /\ today.y \in Nat \ {0} /\ today.m \in 1 .. 12
        /\ today.d \in Nat
    BY <1>2 DEF IsDay, MonthLength
  <2> QED
    BY <1>2, <2>1, WeekDayType
<1> QED
  BY <1>2, <1>3 DEF CalendarInv, WeekdayCorrect, DayIndexCorrect, Init

LEMMA CalendarStep ==
  ASSUME CalendarInv, [Step]_vars
  PROVE  CalendarInv'
<1>1. CASE UNCHANGED vars
  BY <1>1 DEF CalendarInv, WeekdayCorrect, DayIndexCorrect, vars
<1>2. CASE Step
  <2> DEFINE y == today.y
             m == today.m
             d == today.d
             n == today'
  <2>1. /\ y \in Nat \ {0} /\ m \in 1 .. 12 /\ d \in Nat \ {0}
        /\ d \in 1 .. MonthLength(y, m)
        /\ today = [y |-> y, m |-> m, d |-> d]
        /\ MonthLength(y, m) \in 28 .. 31
        /\ weekday \in 0 .. 6 /\ dayOfYear \in Int
        /\ weekday = CaculateWeekDay(y, m, d)
        /\ dayOfYear # -1 => getIdxOfDate(y, m, d) = dayOfYear
    <3>1. /\ y \in Nat \ {0} /\ m \in 1 .. 12 /\ d \in 1 .. MonthLength(y, m)
          /\ today = [y |-> y, m |-> m, d |-> d]
      BY DEF CalendarInv, IsDay
    <3>2. MonthLength(y, m) \in 28 .. 31
      BY <3>1, MonthTable
    <3> QED
      BY <3>1, <3>2 DEF CalendarInv, WeekdayCorrect, DayIndexCorrect
  <2>2. /\ weekday' = (weekday + 1) % 7
        /\ today' = Tomorrow
        /\ dayOfYear' = IF d = MonthLength(y, m) /\ m = 12 THEN 0
                        ELSE IF dayOfYear = -1 THEN -1 ELSE dayOfYear + 1
    BY <1>2 DEF Step, LastOfMonth
  <2>3. weekday' \in 0 .. 6 /\ dayOfYear' \in Int
    BY <2>1, <2>2
  <2>4. /\ IsDay(n)
        /\ CaculateWeekDay(n.y, n.m, n.d) = weekday'
        /\ dayOfYear' # -1 => getIdxOfDate(n.y, n.m, n.d) = dayOfYear'
    <3> HIDE <1>2
    <3>1. CASE d # MonthLength(y, m)
      <4>1. n = [y |-> y, m |-> m, d |-> d + 1]
        BY <3>1, <2>1, <2>2 DEF Tomorrow, LastOfMonth
      <4>2. IsDay(n)
        BY <4>1, <3>1, <2>1 DEF IsDay
      <4>3. CaculateWeekDay(n.y, n.m, n.d) = weekday'
        BY <4>1, <2>1, <2>2, WeekDayInMonth
      <4>4. getIdxOfDate(n.y, n.m, n.d) = getIdxOfDate(y, m, d) + 1
        BY <4>1, <2>1, IndexGoesOn
      <4> QED
        BY <4>2, <4>3, <4>4, <3>1, <2>1, <2>2
    <3>2. CASE d = MonthLength(y, m) /\ m < 12
      <4>1. n = [y |-> y, m |-> m + 1, d |-> 1]
        BY <3>2, <2>1, <2>2 DEF Tomorrow, LastOfMonth
      <4>2. m \in 1 .. 11 /\ m + 1 \in 1 .. 12
        BY <3>2, <2>1
      <4>3. MonthLength(y, m + 1) \in 28 .. 31
        BY <4>2, <2>1, MonthTable
      <4>4. IsDay(n)
        BY <4>1, <4>2, <4>3, <2>1 DEF IsDay
      <4>5. CaculateWeekDay(n.y, n.m, n.d) = weekday'
        BY <4>1, <4>2, <3>2, <2>1, <2>2, WeekDayNextMonth
      <4>6. getIdxOfDate(n.y, n.m, n.d) = getIdxOfDate(y, m, d) + 1
        BY <4>1, <4>2, <3>2, <2>1, IndexGoesOn
      <4> QED
        BY <4>4, <4>5, <4>6, <3>2, <2>1, <2>2
    <3>3. CASE d = MonthLength(y, m) /\ m = 12
      <4>1. n = [y |-> y + 1, m |-> 1, d |-> 1]
        BY <3>3, <2>1, <2>2 DEF Tomorrow, LastOfMonth
      <4>2. y + 1 \in Nat \ {0} /\ MonthLength(y, 12) = 31
        BY <2>1 DEF MonthLength
      <4>3. MonthLength(y + 1, 1) \in 28 .. 31
        BY <4>2, MonthTable
      <4>4. IsDay(n)
        BY <4>1, <4>2, <4>3 DEF IsDay
      <4>5. CaculateWeekDay(n.y, n.m, n.d) = weekday'
        BY <4>1, <4>2, <3>3, <2>1, <2>2, WeekDayNextYear
      <4>6. getIdxOfDate(n.y, n.m, n.d) = 0
        BY <4>1, <4>2, IndexGoesOn
      <4> QED
        BY <4>4, <4>5, <4>6, <3>3, <2>2
    <3> QED
      BY <2>1, <3>1, <3>2, <3>3
  <2> QED
    BY <2>3, <2>4 DEF CalendarInv, WeekdayCorrect, DayIndexCorrect
<1> QED
  BY <1>1, <1>2

-----------------------------------------------------------------------------
\* However many days are stepped and from whichever days, whose weekday the
\* program knows, CaculateWeekDay goes on one weekday a day.
THEOREM WeekdayAlwaysCorrect == Spec => []WeekdayCorrect
<1>1. CalendarInv => WeekdayCorrect
  BY DEF CalendarInv
<1> QED
  BY <1>1, CalendarInit, CalendarStep, PTL DEF Spec

\* And from the first New Year on getIdxOfDate counts the days of each year from
\* 0: no two days of a year share a drawer of mBehavDatePerYear.
THEOREM DayIndexAlwaysCorrect == Spec => []DayIndexCorrect
<1>1. CalendarInv => DayIndexCorrect
  BY DEF CalendarInv
<1> QED
  BY <1>1, CalendarInit, CalendarStep, PTL DEF Spec
=============================================================================
