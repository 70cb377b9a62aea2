------------------------ MODULE RepeatSchedulesProofs ------------------------
(* Proofs about the calendar of repeating issues in RepeatSchedules, for every *)
(* date from 2001 on, every rule and any number of completions and changes.    *)
(*                                                                             *)
(* Years and months tile the days, so that a date has one year, month and day; *)
(* a monthly or yearly rule has one date in each month or year; and so the     *)
(* least of the candidates FirstOnOrAfter looks at is the first date that      *)
(* falls on the rule.  A plan walks from one first date to the next and leaves *)
(* none out; a rule filled in and stored is read back as it was.               *)
EXTENDS RepeatSchedules, FiniteSetTheorems, WellFoundedInduction, TLAPS

-------------------------------------------------------------------------------
(* The calendar *)

LEMMA LeastExists ==
    ASSUME NEW S \in SUBSET Nat, S # {}
    PROVE  \E x \in S : \A y \in S : x <= y
<1>1. PICK x \in S : \A y \in S : ~(<<y, x>> \in OpToRel(<, Nat))
  BY WFMin, NatLessThanWellFounded
<1>2. \A y \in S : ~(y < x)
  BY <1>1 DEF OpToRel
<1> QED
  BY <1>2

YearLength(y) == IF Leap(y) THEN 366 ELSE 365

Era == {y \in Int : y >= 2001}

LEMMA YearByYear ==
    ASSUME NEW y \in Era
    PROVE  /\ DaysBefore(y) \in Nat
           /\ DaysBefore(y + 1) = DaysBefore(y) + YearLength(y)
  BY DEF Era, DaysBefore, YearLength, Leap

LEMMA YearsApart ==
    ASSUME NEW y \in Era, NEW z \in Era, y < z
    PROVE  DaysBefore(y + 1) <= DaysBefore(z)
  BY DEF Era, DaysBefore

LEMMA YearBounds ==
    ASSUME NEW y \in Era
    PROVE  365 * (y - 2001) <= DaysBefore(y) /\ DaysBefore(y) <= 366 * (y - 2001)
  BY DEF Era, DaysBefore

LEMMA YearIs ==
    ASSUME NEW d \in Nat
    PROVE  Year(d) \in Era /\ DaysBefore(Year(d)) <= d /\ d < DaysBefore(Year(d) + 1)
<1> DEFINE Later == {n \in Nat : d < DaysBefore(2001 + n + 1)}
<1>1. d \div 365 \in Later
  <2>1. 2001 + d \div 365 + 1 \in Era
    BY DEF Era
  <2>2. 365 * (d \div 365 + 1) <= DaysBefore(2001 + d \div 365 + 1)
    BY <2>1, YearBounds
  <2> QED
    BY <2>1, <2>2, YearByYear
<1>2. PICK n \in Later : \A k \in Later : n <= k
  <2>1. Later \in SUBSET Nat
    OBVIOUS
  <2> HIDE DEF Later
  <2> QED
    BY <1>1, <2>1, LeastExists
<1>3. 2001 + n \in Era /\ d < DaysBefore(2001 + n + 1)
  BY <1>2 DEF Era
<1>4. DaysBefore(2001 + n) <= d
  <2>1. CASE n = 0
    BY <2>1 DEF DaysBefore
  <2>2. CASE n > 0
    <3>1. n - 1 \in Nat /\ n - 1 \notin Later
      BY <1>2, <2>2
    <3>2. 2001 + (n - 1) + 1 = 2001 + n
      OBVIOUS
    <3> QED
      BY <3>1, <3>2, <1>3, YearByYear
  <2> QED
    BY <1>2, <2>1, <2>2
<1>5. 2001 + n \in (2001 + d \div 366)..(2001 + d \div 365)
  <2>1. 365 * n <= d
    BY <1>3, <1>4, YearBounds, YearByYear
  <2>2. 2001 + n + 1 \in Era
    BY DEF Era
  <2>3. DaysBefore(2001 + n + 1) <= 366 * (n + 1) /\ DaysBefore(2001 + n + 1) \in Nat
    BY <2>2, YearBounds, YearByYear
  <2>4. d < 366 * (n + 1)
    BY <1>3, <2>3
  <2> QED
    BY <2>1, <2>4
<1> QED
  BY <1>3, <1>4, <1>5 DEF Year, Era

\* There is no other year of a date.
LEMMA YearOf ==
    ASSUME NEW d \in Nat, NEW y \in Era, DaysBefore(y) <= d, d < DaysBefore(y + 1)
    PROVE  Year(d) = y
<1>1. Year(d) \in Era /\ DaysBefore(Year(d)) <= d /\ d < DaysBefore(Year(d) + 1)
  BY YearIs
<1>2. ~(Year(d) < y)
  <2>1. Year(d) < y => DaysBefore(Year(d) + 1) <= DaysBefore(y)
    BY <1>1, YearsApart
  <2>2. DaysBefore(Year(d) + 1) \in Nat
    BY <1>1, YearByYear DEF Era
  <2> QED
    BY <1>1, <2>1, <2>2, YearByYear
<1>3. ~(y < Year(d))
  <2>1. y < Year(d) => DaysBefore(y + 1) <= DaysBefore(Year(d))
    BY <1>1, YearsApart
  <2>2. DaysBefore(y + 1) \in Nat
    BY YearByYear DEF Era
  <2> QED
    BY <1>1, <2>1, <2>2, YearByYear
<1> QED
  BY <1>1, <1>2, <1>3 DEF Era

-------------------------------------------------------------------------------
(* Months *)

MonthOf(y, m) == civilDate(y, m, 1)..civilDate(y, m, daysInMonth(y, m))

LEMMA MonthFacts ==
    ASSUME NEW y \in Era, NEW m \in 1..12
    PROVE  /\ daysInMonth(y, m) \in 28..31
           /\ civilDate(y, m, 1) \in Nat
           /\ civilDate(y, m, daysInMonth(y, m)) = civilDate(y, m, 1) + daysInMonth(y, m) - 1
           /\ civilDate(y, 1, 1) = DaysBefore(y)
           /\ m < 12 => civilDate(y, m + 1, 1) = civilDate(y, m, 1) + daysInMonth(y, m)
           /\ m = 12 => DaysBefore(y + 1) = civilDate(y, m, 1) + daysInMonth(y, m)
           /\ civilDate(y, m, 1) + daysInMonth(y, m) <= DaysBefore(y) + 31 * m
<1> DEFINE leap == IF Leap(y) THEN 1 ELSE 0
<1>0. leap \in 0..1
  OBVIOUS
<1>1. DaysBefore(y) \in Nat /\ DaysBefore(y + 1) = DaysBefore(y) + 365 + leap
  BY YearByYear DEF YearLength
<1>2. daysInMonth(y, m) = <<31, 28 + leap, 31, 30, 31, 30, 31, 31, 30, 31, 30, 31>>[m]
  <2>1. CASE m = 2
    BY <2>1 DEF daysInMonth
  <2>2. CASE m \in {4, 6, 9, 11}
    BY <2>2 DEF daysInMonth
  <2>3. CASE m \in {1, 3, 5, 7, 8, 10, 12}
    BY <2>3 DEF daysInMonth
  <2> QED
    BY <2>1, <2>2, <2>3
<1>3. \A day : civilDate(y, m, day) =
        DaysBefore(y) + <<0, 31, 59, 90, 120, 151, 181, 212, 243, 273, 304, 334>>[m]
        + (IF m > 2 THEN leap ELSE 0) + day - 1
  BY DEF civilDate
<1>4. civilDate(y, 1, 1) = DaysBefore(y)
  BY <1>1 DEF civilDate
<1>5. m < 12 => civilDate(y, m + 1, 1) =
        DaysBefore(y) + <<0, 31, 59, 90, 120, 151, 181, 212, 243, 273, 304, 334>>[m + 1]
        + (IF m + 1 > 2 THEN leap ELSE 0)
  BY <1>0, <1>1 DEF civilDate
<1> HIDE DEF leap
<1> QED
  BY <1>0, <1>1, <1>2, <1>3, <1>4, <1>5

LEMMA MonthIs ==
    ASSUME NEW d \in Nat
    PROVE  Month(d) \in 1..12 /\ d \in MonthOf(Year(d), Month(d))
<1> DEFINE y == Year(d)
           starts(m) == civilDate(y, m, 1)
<1>1. y \in Era /\ DaysBefore(y) <= d /\ d < DaysBefore(y + 1)
  BY YearIs
<1>2. \A m \in 1..12 : /\ starts(m) \in Nat /\ daysInMonth(y, m) \in 28..31
                        /\ starts(m) + daysInMonth(y, m) <= DaysBefore(y) + 31 * m
  BY <1>1, MonthFacts
<1>3. starts(1) <= d /\ d < starts(12) + daysInMonth(y, 12)
  BY <1>1, MonthFacts
<1>4. \A m \in 1..11 : starts(m + 1) = starts(m) + daysInMonth(y, m)
  BY <1>1, MonthFacts
<1> HIDE DEF starts
<1>5. \E m \in 1..12 : starts(m) <= d /\ d < starts(m) + daysInMonth(y, m)
  <2>1. \A m \in 1..11 : d < starts(m) + daysInMonth(y, m) \/ starts(m + 1) <= d
    BY <1>2, <1>4
  <2> SUFFICES ASSUME \A m \in 1..12 : ~(starts(m) <= d /\ d < starts(m) + daysInMonth(y, m))
               PROVE  FALSE
    OBVIOUS
  <2>2. \A m \in 1..11 : starts(m) <= d => starts(m + 1) <= d
    BY <2>1
  <2>3. starts(2) <= d /\ starts(3) <= d /\ starts(4) <= d
    BY <1>3, <2>2
  <2>4. starts(5) <= d /\ starts(6) <= d /\ starts(7) <= d
    BY <2>3, <2>2
  <2>5. starts(8) <= d /\ starts(9) <= d /\ starts(10) <= d
    BY <2>4, <2>2
  <2>6. starts(11) <= d /\ starts(12) <= d
    BY <2>5, <2>2
  <2> QED
    BY <1>3, <2>6
<1>6. PICK m \in 1..12 : starts(m) <= d /\ d < starts(m) + daysInMonth(y, m)
  BY <1>5
<1>7. m \in (d - DaysBefore(y)) \div 31 + 1..12
  <2>1. d - DaysBefore(y) < 31 * m /\ d - DaysBefore(y) \in Nat
    BY <1>1, <1>2, <1>6, YearByYear
  <2> QED
    BY <2>1
<1>8. Month(d) \in 1..12 /\ starts(Month(d)) <= d
      /\ d < starts(Month(d)) + daysInMonth(y, Month(d))
  <2>1. (d - DaysBefore(y)) \div 31 + 1 \in Nat \ {0}
    BY <1>1, YearByYear
  <2>2. \E k \in (d - DaysBefore(y)) \div 31 + 1..12 :
          starts(k) <= d /\ d < starts(k) + daysInMonth(y, k)
    BY <1>6, <1>7
  <2>3. Month(d) = CHOOSE k \in (d - DaysBefore(y)) \div 31 + 1..12 :
                     starts(k) <= d /\ d < starts(k) + daysInMonth(y, k)
    BY DEF Month, starts
  <2> HIDE DEF y
  <2> QED
    BY <2>1, <2>2, <2>3
<1>9. civilDate(y, Month(d), daysInMonth(y, Month(d)))
        = starts(Month(d)) + daysInMonth(y, Month(d)) - 1
  BY <1>1, <1>8, MonthFacts DEF starts
<1> QED
  BY <1>2, <1>8, <1>9 DEF MonthOf, starts

\* Months do not overlap, and follow each other in their order.
LEMMA MonthsApart ==
    ASSUME NEW y \in Era, NEW m \in 1..12, NEW z \in Era, NEW k \in 1..12,
           y * 12 + m < z * 12 + k
    PROVE  civilDate(y, m, 1) + daysInMonth(y, m) <= civilDate(z, k, 1)
<1>1. \A x \in Era, j \in 1..11 :
        civilDate(x, j + 1, 1) = civilDate(x, j, 1) + daysInMonth(x, j)
  BY MonthFacts
<1>2. \A x \in Era, j \in 1..12 :
        civilDate(x, j, 1) \in Nat /\ daysInMonth(x, j) \in 28..31
  BY MonthFacts
<1>3. ASSUME NEW x \in Era, NEW i \in 1..12, NEW j \in 1..12, i < j
      PROVE  civilDate(x, i, 1) + daysInMonth(x, i) <= civilDate(x, j, 1)
  <2> DEFINE starts(a) == civilDate(x, a, 1)
  <2>1. \A a \in 1..12 : starts(a) =
          DaysBefore(x) + <<0, 31, 59, 90, 120, 151, 181, 212, 243, 273, 304, 334>>[a]
          + (IF a > 2 /\ Leap(x) THEN 1 ELSE 0)
    BY YearByYear DEF civilDate
  <2>2. starts(i) + daysInMonth(x, i) = starts(i + 1)
    BY <1>1, <1>3
  <2>3. starts(i + 1) <= starts(j)
    <3> HIDE DEF starts
    <3> QED
      BY <2>1, <1>3, YearByYear
  <2> QED
    BY <2>2, <2>3
<1>4. CASE y = z
  <2>1. m < k
    BY <1>4 DEF Era
  <2> QED
    BY <1>3, <1>4, <2>1
<1>5. CASE y # z
  <2>1. y < z /\ y + 1 \in Era
    BY <1>5 DEF Era
  <2>2. civilDate(y, m, 1) + daysInMonth(y, m) <= DaysBefore(y + 1)
    <3>1. civilDate(y, 12, 1) + daysInMonth(y, 12) = DaysBefore(y + 1)
      BY MonthFacts
    <3>2. m < 12 => civilDate(y, m, 1) + daysInMonth(y, m) <= civilDate(y, 12, 1)
      BY <1>3
    <3> QED
      BY <1>2, <2>1, <3>1, <3>2, YearByYear
  <2>3. DaysBefore(y + 1) <= DaysBefore(z)
    BY <2>1, YearsApart
  <2>4. DaysBefore(z) <= civilDate(z, k, 1)
    <3>1. civilDate(z, 1, 1) = DaysBefore(z)
      BY MonthFacts
    <3>2. k > 1 => civilDate(z, 1, 1) + daysInMonth(z, 1) <= civilDate(z, k, 1)
      BY <1>3
    <3> QED
      BY <1>2, <3>1, <3>2
  <2>5. /\ DaysBefore(y + 1) \in Nat /\ DaysBefore(z) \in Nat
        /\ civilDate(y, m, 1) \in Nat /\ daysInMonth(y, m) \in Nat /\ civilDate(z, k, 1) \in Nat
    BY <1>2, <2>1, YearByYear
  <2> QED
    BY <2>2, <2>3, <2>4, <2>5
<1> QED
  BY <1>4, <1>5

\* A date lies in one month.
LEMMA MonthOfDate ==
    ASSUME NEW y \in Era, NEW m \in 1..12, NEW d \in MonthOf(y, m)
    PROVE  d \in Nat /\ Year(d) = y /\ Month(d) = m
<1>1. /\ civilDate(y, m, 1) \in Nat /\ daysInMonth(y, m) \in 28..31
      /\ civilDate(y, m, 1) <= d /\ d < civilDate(y, m, 1) + daysInMonth(y, m) /\ d \in Nat
  BY MonthFacts DEF MonthOf
<1> DEFINE z == Year(d)
           k == Month(d)
<1>2. z \in Era /\ k \in 1..12 /\ d \in MonthOf(z, k)
  BY <1>1, YearIs, MonthIs
<1>3. /\ civilDate(z, k, 1) \in Nat /\ daysInMonth(z, k) \in 28..31
      /\ civilDate(z, k, 1) <= d /\ d < civilDate(z, k, 1) + daysInMonth(z, k)
  BY <1>2, MonthFacts DEF MonthOf
<1> HIDE DEF z, k
<1>4. ~(y * 12 + m < z * 12 + k)
  BY <1>1, <1>2, <1>3, MonthsApart
<1>5. ~(z * 12 + k < y * 12 + m)
  BY <1>1, <1>2, <1>3, MonthsApart
<1>6. y = z /\ m = k
  BY <1>2, <1>4, <1>5 DEF Era
<1> QED
  BY <1>1, <1>6 DEF z, k

-------------------------------------------------------------------------------
(* Days *)

LEMMA DayIs ==
    ASSUME NEW d \in Nat
    PROVE  /\ Year(d) \in Era /\ Month(d) \in 1..12
           /\ Day(d) \in 1..LastDay(d) /\ LastDay(d) \in 28..31
           /\ d = civilDate(Year(d), Month(d), 1) + Day(d) - 1
           /\ d \in MonthOf(Year(d), Month(d))
<1> DEFINE y == Year(d)
           m == Month(d)
<1>1. y \in Era /\ m \in 1..12 /\ d \in MonthOf(y, m)
  BY YearIs, MonthIs
<1>2. /\ daysInMonth(y, m) \in 28..31
      /\ civilDate(y, m, 1) \in Nat
      /\ civilDate(y, m, daysInMonth(y, m)) = civilDate(y, m, 1) + daysInMonth(y, m) - 1
  BY <1>1, MonthFacts
<1>3. Day(d) = d - civilDate(y, m, 1) + 1 /\ LastDay(d) = daysInMonth(y, m)
  BY DEF Day, LastDay
<1> HIDE DEF y, m
<1>4. Day(d) \in 1..LastDay(d)
  BY <1>1, <1>2, <1>3 DEF MonthOf
<1>5. d = civilDate(y, m, 1) + Day(d) - 1
  BY <1>1, <1>2, <1>3
<1> QED
  BY <1>1, <1>2, <1>3, <1>4, <1>5 DEF y, m

LEMMA DaysFollow ==
    ASSUME NEW y \in Era, NEW m \in 1..12, NEW day \in Int
    PROVE  civilDate(y, m, day) = civilDate(y, m, 1) + day - 1
  BY YearByYear DEF civilDate

LEMMA DateIs ==
    ASSUME NEW y \in Era, NEW m \in 1..12, NEW d \in MonthOf(y, m)
    PROVE  /\ d \in Nat /\ Year(d) = y /\ Month(d) = m
           /\ Day(d) = d - civilDate(y, m, 1) + 1
           /\ LastDay(d) = daysInMonth(y, m)
  BY MonthOfDate DEF Day, LastDay

LEMMA MonthIndexIs ==
    ASSUME NEW d \in Nat
    PROVE  /\ monthIndex(d) \in Nat
           /\ monthIndex(d) \div 12 = Year(d) /\ (monthIndex(d) % 12) + 1 = Month(d)
<1>1. Year(d) \in Era /\ Month(d) \in 1..12
  BY DayIs
<1> QED
  BY <1>1 DEF Era, monthIndex

LEMMA DatesGoUp ==
    ASSUME NEW d \in Nat, NEW e \in Nat, d <= e
    PROVE  Year(d) <= Year(e) /\ monthIndex(d) <= monthIndex(e)
<1> DEFINE y == Year(d)
           m == Month(d)
           z == Year(e)
           k == Month(e)
<1>1. /\ y \in Era /\ m \in 1..12 /\ d \in MonthOf(y, m)
      /\ z \in Era /\ k \in 1..12 /\ e \in MonthOf(z, k)
  BY DayIs
<1> HIDE DEF y, m, z, k
<1>2. /\ civilDate(y, m, 1) \in Nat /\ civilDate(y, m, 1) <= d
      /\ civilDate(z, k, 1) \in Nat /\ e < civilDate(z, k, 1) + daysInMonth(z, k)
      /\ daysInMonth(z, k) \in 28..31
  BY <1>1, MonthFacts DEF MonthOf
<1>3. ~(z * 12 + k < y * 12 + m)
  BY <1>1, <1>2, MonthsApart
<1>4. y <= z /\ y * 12 + m - 1 <= z * 12 + k - 1
  BY <1>1, <1>3 DEF Era
<1> QED
  BY <1>4 DEF monthIndex, y, m, z, k

-------------------------------------------------------------------------------
(* Rules *)

RuleOK(r) ==
    /\ r.freq \in Frequency
    /\ r.interval \in Nat \ {0}
    /\ r.freq = "WEEKLY" => r.weekdays \in SUBSET (0..6)
    /\ r.freq = "MONTHLY" => /\ r.ordinal \in -1..4 /\ r.weekday \in 0..6
                             /\ r.ordinal = 0 => r.monthDay \in {-1} \cup 1..31
    /\ r.freq = "YEARLY" => r.month \in 1..12 /\ r.monthDay \in 1..31

LEMMA MinOfTwo ==
    ASSUME NEW a \in Int, NEW b \in Int
    PROVE  /\ Min({a, b}) = IF a <= b THEN a ELSE b
           /\ Max({a, b}) = IF a <= b THEN b ELSE a
  BY DEF Min, Max

\* The weekday in the week that begins or ends on a date.
LEMMA WeekdayFrom ==
    ASSUME NEW first \in Int, NEW weekday \in 0..6
    PROVE  \A d \in first..first + 6 :
             d % 7 = weekday <=> d = first + ((weekday - (first % 7) + 7) % 7)
  OBVIOUS

LEMMA WeekdayUpTo ==
    ASSUME NEW last \in Int, NEW weekday \in 0..6
    PROVE  \A d \in last - 6..last :
             d % 7 = weekday <=> d = last - (((last % 7) - weekday + 7) % 7)
  OBVIOUS

LEMMA MonthlyDateFalls ==
    ASSUME NEW r, RuleOK(r), r.freq = "MONTHLY", NEW y \in Era, NEW m \in 1..12
    PROVE  /\ monthlyDate(r, y, m) \in MonthOf(y, m)
           /\ \A d \in MonthOf(y, m) : OnDayOfMonth(r, d) <=> d = monthlyDate(r, y, m)
<1> DEFINE first == civilDate(y, m, 1)
           days == daysInMonth(y, m)
           lastDay == civilDate(y, m, days)
<1>1. first \in Nat /\ days \in 28..31 /\ lastDay = first + days - 1
  BY MonthFacts
<1>2. \A d \in MonthOf(y, m) : /\ d \in Nat /\ first <= d /\ d <= lastDay
                               /\ Day(d) = d - first + 1 /\ LastDay(d) = days
  BY DateIs, <1>1 DEF MonthOf
<1>3. \A d : d \in MonthOf(y, m) <=> d \in Nat /\ first <= d /\ d <= lastDay
  BY <1>1 DEF MonthOf
<1>4. r.ordinal = 0 => civilDate(y, m, r.monthDay) = first + r.monthDay - 1
  BY DaysFollow DEF RuleOK
<1> HIDE DEF first, days, lastDay
<1>5. CASE r.ordinal = -1
  <2>1. monthlyDate(r, y, m) = lastDay - (((lastDay % 7) - r.weekday + 7) % 7)
    BY <1>5 DEF monthlyDate, Weekday, lastDay, days
  <2>2. \A d \in MonthOf(y, m) :
          OnDayOfMonth(r, d) <=> d % 7 = r.weekday /\ d - first + 1 > days - 7
    BY <1>2, <1>5 DEF OnDayOfMonth, Weekday
  <2>3. r.weekday \in 0..6
    BY DEF RuleOK
  <2>4. monthlyDate(r, y, m) \in lastDay - 6..lastDay
    BY <1>1, <2>1, <2>3
  <2>5. \A d \in lastDay - 6..lastDay : d % 7 = r.weekday <=> d = monthlyDate(r, y, m)
    <3>1. lastDay \in Int
      BY <1>1
    <3>2. \A d \in lastDay - 6..lastDay :
            d % 7 = r.weekday <=> d = lastDay - (((lastDay % 7) - r.weekday + 7) % 7)
      BY <2>3, <3>1, WeekdayUpTo
    <3> QED
      BY <2>1, <3>2
  <2> QED
    BY <1>1, <1>3, <2>2, <2>4, <2>5
<1>6. CASE r.ordinal > 0
  <2>0. r.weekday \in 0..6 /\ r.ordinal \in 1..4
    BY <1>6 DEF RuleOK
  <2>1. monthlyDate(r, y, m) = first + ((r.weekday - (first % 7) + 7) % 7) + (r.ordinal - 1) * 7
    BY <2>0 DEF monthlyDate, Weekday, first
  <2>2. \A d \in MonthOf(y, m) :
          OnDayOfMonth(r, d) <=> d % 7 = r.weekday /\ (d - first) \div 7 + 1 = r.ordinal
    BY <1>1, <1>2, <1>6 DEF OnDayOfMonth, Weekday, RuleOK
  <2> DEFINE start == first + (r.ordinal - 1) * 7
  <2>3. start \in Nat /\ start % 7 = first % 7 /\ start \in first..first + 21
    BY <1>1, <2>0
  <2>4. monthlyDate(r, y, m) = start + ((r.weekday - (start % 7) + 7) % 7)
    BY <1>1, <2>0, <2>1, <2>3
  <2>5. \A d \in MonthOf(y, m) :
          (d - first) \div 7 + 1 = r.ordinal <=> d \in start..start + 6
    BY <1>1, <1>3, <2>0
  <2> HIDE DEF start
  <2>6. monthlyDate(r, y, m) \in start..start + 6
    BY <2>0, <2>3, <2>4
  <2>7. \A d \in start..start + 6 : d % 7 = r.weekday <=> d = monthlyDate(r, y, m)
    <3>1. start \in Int
      BY <2>3
    <3>2. \A d \in start..start + 6 :
            d % 7 = r.weekday <=> d = start + ((r.weekday - (start % 7) + 7) % 7)
      BY <2>0, <3>1, WeekdayFrom
    <3> QED
      BY <2>4, <3>2
  <2>8. start..start + 6 \subseteq MonthOf(y, m)
    BY <1>1, <1>3, <2>3
  <2> QED
    BY <2>2, <2>5, <2>6, <2>7, <2>8
<1>7. CASE r.ordinal = 0 /\ r.monthDay = -1
  <2>1. monthlyDate(r, y, m) = lastDay
    BY <1>7 DEF monthlyDate, lastDay, days
  <2>2. \A d \in MonthOf(y, m) : OnDayOfMonth(r, d) <=> d - first + 1 = days
    BY <1>2, <1>7 DEF OnDayOfMonth
  <2> QED
    BY <1>1, <1>2, <1>3, <2>1, <2>2
<1>8. CASE r.ordinal = 0 /\ r.monthDay # -1
  <2>1. monthlyDate(r, y, m) = Min({civilDate(y, m, r.monthDay), lastDay})
    BY <1>8 DEF monthlyDate, lastDay, days
  <2>2. r.monthDay \in 1..31
    BY <1>8 DEF RuleOK
  <2>3. monthlyDate(r, y, m) = IF r.monthDay <= days THEN first + r.monthDay - 1 ELSE lastDay
    BY <1>1, <1>4, <1>8, <2>1, <2>2, MinOfTwo
  <2>4. \A d \in MonthOf(y, m) :
          OnMonthDay(r, d) <=> \/ d - first + 1 = r.monthDay
                               \/ d - first + 1 = days /\ r.monthDay > days
    BY <1>1, <1>2, <2>2 DEF OnMonthDay
  <2>5. \A d : OnDayOfMonth(r, d) = OnMonthDay(r, d)
    BY <1>8 DEF OnDayOfMonth
  <2>6. \A d \in MonthOf(y, m) :
          OnMonthDay(r, d) <=>
            d = IF r.monthDay <= days THEN first + r.monthDay - 1 ELSE lastDay
    BY <1>1, <1>3, <2>2, <2>4
  <2> QED
    BY <1>1, <1>3, <2>2, <2>3, <2>5, <2>6
<1> QED
  BY <1>5, <1>6, <1>7, <1>8 DEF RuleOK

\* The date of a yearly rule in year y, as FirstOnOrAfter computes it.
YearlyDate(r, y) == civilDate(y, r.month, Min({r.monthDay, daysInMonth(y, r.month)}))

LEMMA YearlyDateFalls ==
    ASSUME NEW r, RuleOK(r), r.freq = "YEARLY", NEW y \in Era
    PROVE  /\ YearlyDate(r, y) \in MonthOf(y, r.month)
           /\ \A d \in MonthOf(y, r.month) : OnMonthDay(r, d) <=> d = YearlyDate(r, y)
<1> DEFINE m == r.month
           first == civilDate(y, m, 1)
           days == daysInMonth(y, m)
<1>0. m \in 1..12 /\ r.monthDay \in 1..31
  BY DEF RuleOK
<1>1. first \in Nat /\ days \in 28..31
  BY <1>0, MonthFacts
<1>2. \A d : d \in MonthOf(y, m) <=> d \in Nat /\ first <= d /\ d <= first + days - 1
  <2>1. civilDate(y, m, days) = first + days - 1
    BY <1>0, MonthFacts
  <2> QED
    BY <1>1, <2>1 DEF MonthOf
<1>7. \A d \in MonthOf(y, m) : /\ d \in Nat /\ Day(d) = d - first + 1 /\ LastDay(d) = days
  BY <1>0, DateIs
<1>3. YearlyDate(r, y) = first + (IF r.monthDay <= days THEN r.monthDay ELSE days) - 1
  <2>1. Min({r.monthDay, days}) = IF r.monthDay <= days THEN r.monthDay ELSE days
    <3>1. r.monthDay \in Int /\ days \in Int
      BY <1>0, <1>1
    <3> HIDE DEF days
    <3> QED
      BY <3>1, MinOfTwo
  <2>2. civilDate(y, m, Min({r.monthDay, days})) = first + Min({r.monthDay, days}) - 1
    <3>1. Min({r.monthDay, days}) \in Int
      BY <1>0, <1>1, <2>1
    <3> QED
      BY <1>0, <3>1, DaysFollow
  <2>3. YearlyDate(r, y) = civilDate(y, m, Min({r.monthDay, days}))
    BY DEF YearlyDate
  <2> QED
    BY <2>1, <2>2, <2>3
<1>4. \A d \in MonthOf(y, m) :
        OnMonthDay(r, d) <=> \/ d - first + 1 = r.monthDay
                             \/ d - first + 1 = days /\ r.monthDay > days
  BY <1>0, <1>1, <1>7 DEF OnMonthDay
<1> HIDE DEF first, days
<1>5. \A d \in MonthOf(y, m) : OnMonthDay(r, d) <=> d = YearlyDate(r, y)
  BY <1>0, <1>1, <1>2, <1>3, <1>4
<1>6. YearlyDate(r, y) \in MonthOf(y, m)
  BY <1>0, <1>1, <1>2, <1>3
<1> QED
  BY <1>5, <1>6

-------------------------------------------------------------------------------
(* The first date on or after another *)

IsFirst(r, startsOn, from, f) ==
    f = NoDate \/
    (/\ f \in Nat /\ f >= from /\ FallsOn(r, startsOn, f)
     /\ \A d \in Nat : from <= d /\ d < f => ~FallsOn(r, startsOn, d))

LEMMA LeastIs ==
    ASSUME NEW S \in SUBSET Nat
    PROVE  \/ Least(S) = NoDate /\ S = {}
           \/ Least(S) \in S /\ \A d \in S : Least(S) <= d
<1>1. CASE S = {}
  BY <1>1 DEF Least
<1>2. CASE S # {}
  BY <1>2, LeastExists DEF Least, Min
<1> QED
  BY <1>1, <1>2

LEMMA StartIs ==
    ASSUME NEW from \in Nat, NEW startsOn \in Nat
    PROVE  LET start == Max({from, startsOn}) IN
           /\ start \in Nat /\ start >= from /\ start >= startsOn
           /\ \A d \in Nat : d >= start <=> d >= from /\ d >= startsOn
<1>1. from \in Int /\ startsOn \in Int
  OBVIOUS
<1>2. Max({from, startsOn}) = IF from <= startsOn THEN startsOn ELSE from
  BY <1>1, MinOfTwo
<1> QED
  BY <1>2

\* Candidates that fall on the rule, and are all that do up to any of them.
LEMMA LeastIsFirst ==
    ASSUME NEW r, NEW from \in Nat, NEW startsOn \in Nat, NEW start,
           start = Max({from, startsOn}), NEW S \in SUBSET Nat,
           \A d \in S : d >= start => FallsOn(r, startsOn, d),
           \A d \in Nat, e \in S :
             start <= d /\ d <= e /\ FallsOn(r, startsOn, d) => d \in S
    PROVE  IsFirst(r, startsOn, from, Least({d \in S : d >= start}))
<1> DEFINE T == {d \in S : d >= start}
           f == Least(T)
<1>1. T \in SUBSET Nat
  OBVIOUS
<1> HIDE DEF T
<1>2. CASE f = NoDate
  BY <1>2 DEF IsFirst, T
<1>3. CASE f \in T /\ \A d \in T : f <= d
  <2>1. f \in S /\ f \in Nat /\ f >= start /\ FallsOn(r, startsOn, f)
    BY <1>3 DEF T
  <2>2. f >= from /\ start \in Nat
    BY <2>1, StartIs
  <2>3. ASSUME NEW d \in Nat, from <= d, d < f, FallsOn(r, startsOn, d) PROVE FALSE
    <3>1. d >= start
      BY <2>3, StartIs DEF FallsOn
    <3>2. d \in T
      BY <2>1, <2>2, <2>3, <3>1 DEF T
    <3> QED
      BY <1>3, <2>1, <2>3, <3>2
  <2> QED
    BY <2>1, <2>2, <2>3 DEF IsFirst, T
<1> QED
  BY <1>1, <1>2, <1>3, LeastIs

LEMMA WeeklyFirst ==
    ASSUME NEW r, RuleOK(r), r.freq = "WEEKLY", NEW startsOn \in Nat, NEW from \in Nat
    PROVE  IsFirst(r, startsOn, from, FirstOnOrAfter(r, startsOn, from))
<1> DEFINE start == Max({from, startsOn})
           n == r.interval
           S == {d \in start..start + 7 * (n + 1) - 1 :
                   /\ (weekIndex(d) - weekIndex(startsOn)) % n = 0
                   /\ Weekday(d) \in r.weekdays}
<1>1. start \in Nat /\ start >= startsOn
  BY StartIs
<1>2. S \in SUBSET Nat /\ S = {d \in S : d >= start}
  BY <1>1
<1>3. FirstOnOrAfter(r, startsOn, from) = Least(S)
  BY DEF FirstOnOrAfter
<1>4. \A d \in Nat : FallsOn(r, startsOn, d) <=>
        /\ d >= startsOn /\ Weekday(d) \in r.weekdays
        /\ (weekIndex(d) - weekIndex(startsOn)) % n = 0
  BY DEF FallsOn
<1>5. \A d \in S : FallsOn(r, startsOn, d)
  BY <1>1, <1>4
<1>6. ASSUME NEW d \in Nat, NEW e \in S, start <= d, d <= e, FallsOn(r, startsOn, d)
      PROVE  d \in S
  <2>1. d \in start..start + 7 * (n + 1) - 1
    BY <1>1, <1>6 DEF RuleOK
  <2> QED
    BY <1>4, <1>6, <2>1
<1> HIDE DEF S
<1>7. IsFirst(r, startsOn, from, Least({d \in S : d >= start}))
  BY <1>2, <1>5, <1>6, LeastIsFirst
<1> QED
  BY <1>2, <1>3, <1>7

LEMMA MonthlyFirst ==
    ASSUME NEW r, RuleOK(r), r.freq = "MONTHLY", NEW startsOn \in Nat, NEW from \in Nat
    PROVE  IsFirst(r, startsOn, from, FirstOnOrAfter(r, startsOn, from))
<1> DEFINE start == Max({from, startsOn})
           n == r.interval
           months == {m \in monthIndex(start)..monthIndex(start) + 2 * n + 1 :
                        (m - monthIndex(startsOn)) % n = 0}
           date(m) == monthlyDate(r, m \div 12, (m % 12) + 1)
           S == {date(m) : m \in months}
<1>1. start \in Nat /\ start >= startsOn
  BY StartIs
<1>2. FirstOnOrAfter(r, startsOn, from) = Least({d \in S : d >= start})
  BY DEF FirstOnOrAfter
<1>3. /\ monthIndex(start) \in Nat /\ monthIndex(start) \div 12 \in Era /\ n \in Nat
      /\ monthIndex(startsOn) \in Nat
  BY <1>1, MonthIndexIs, DayIs DEF RuleOK
<1>4. \A m \in months : m \in Nat /\ m \div 12 \in Era /\ (m % 12) + 1 \in 1..12
  BY <1>3 DEF Era
<1>5. ASSUME NEW m \in months
      PROVE  /\ date(m) \in Nat /\ monthIndex(date(m)) = m /\ OnDayOfMonth(r, date(m))
  <2>1. date(m) \in MonthOf(m \div 12, (m % 12) + 1) /\ OnDayOfMonth(r, date(m))
    BY <1>4, MonthlyDateFalls
  <2>2. /\ date(m) \in Nat /\ Year(date(m)) = m \div 12 /\ Month(date(m)) = (m % 12) + 1
    BY <1>4, <2>1, DateIs
  <2> QED
    BY <1>4, <2>1, <2>2 DEF monthIndex
<1>6. \A d \in Nat : FallsOn(r, startsOn, d) <=>
        /\ d >= startsOn /\ OnDayOfMonth(r, d)
        /\ (monthIndex(d) - monthIndex(startsOn)) % n = 0
  BY DEF FallsOn
<1> HIDE DEF date
<1>7. \A d \in S : d \in Nat /\ (d >= start => FallsOn(r, startsOn, d))
  <2> SUFFICES ASSUME NEW m \in months
               PROVE  date(m) \in Nat /\ (date(m) >= start => FallsOn(r, startsOn, date(m)))
    OBVIOUS
  <2>1. (m - monthIndex(startsOn)) % n = 0
    OBVIOUS
  <2> HIDE DEF months
  <2>2. date(m) \in Nat /\ monthIndex(date(m)) = m /\ OnDayOfMonth(r, date(m))
    BY <1>5
  <2>3. date(m) >= start => date(m) >= startsOn
    BY <1>1, <2>2
  <2> QED
    BY <1>6, <2>1, <2>2, <2>3
<1>8. ASSUME NEW d \in Nat, NEW e \in S, start <= d, d <= e, FallsOn(r, startsOn, d)
      PROVE  d \in S
  <2>1. PICK m \in months : e = date(m)
    OBVIOUS
  <2>2. monthIndex(start) <= monthIndex(d) /\ monthIndex(d) <= m /\ monthIndex(d) \in Nat
    BY <1>1, <1>5, <1>8, <2>1, DatesGoUp, MonthIndexIs
  <2>3. monthIndex(d) \in months
    BY <1>3, <1>4, <1>6, <1>8, <2>2
  <2>4. d = date(monthIndex(d))
    <3>1. /\ Year(d) \in Era /\ Month(d) \in 1..12 /\ d \in MonthOf(Year(d), Month(d))
          /\ OnDayOfMonth(r, d)
      BY <1>6, <1>8, DayIs
    <3>2. d = monthlyDate(r, Year(d), Month(d))
      BY <3>1, MonthlyDateFalls
    <3> QED
      BY <3>2, MonthIndexIs DEF date
  <2> QED
    BY <2>3, <2>4
<1> HIDE DEF S, months
<1>9. IsFirst(r, startsOn, from, Least({d \in S : d >= start}))
  BY <1>7, <1>8, LeastIsFirst
<1> QED
  BY <1>2, <1>9

LEMMA YearlyFirst ==
    ASSUME NEW r, RuleOK(r), r.freq = "YEARLY", NEW startsOn \in Nat, NEW from \in Nat
    PROVE  IsFirst(r, startsOn, from, FirstOnOrAfter(r, startsOn, from))
<1> DEFINE start == Max({from, startsOn})
           n == r.interval
           years == {y \in Year(start)..Year(start) + 2 * n + 1 :
                       (y - Year(startsOn)) % n = 0}
           S == {YearlyDate(r, y) : y \in years}
<1>1. start \in Nat /\ start >= startsOn
  BY StartIs
<1>2. FirstOnOrAfter(r, startsOn, from) = Least({d \in S : d >= start})
  BY DEF FirstOnOrAfter, YearlyDate
<1>3. Year(start) \in Era /\ n \in Nat /\ r.month \in 1..12 /\ \A y \in years : y \in Era
  <2>1. Year(start) \in Era
    BY <1>1, DayIs
  <2>2. n \in Nat /\ r.month \in 1..12
    BY DEF RuleOK
  <2> HIDE DEF start, n
  <2> QED
    BY <2>1, <2>2 DEF Era
<1>4. ASSUME NEW y \in years
      PROVE  /\ YearlyDate(r, y) \in Nat /\ OnMonthDay(r, YearlyDate(r, y))
             /\ Year(YearlyDate(r, y)) = y /\ Month(YearlyDate(r, y)) = r.month
  <2>1. YearlyDate(r, y) \in MonthOf(y, r.month) /\ OnMonthDay(r, YearlyDate(r, y))
    BY <1>3, YearlyDateFalls
  <2> QED
    BY <1>3, <2>1, DateIs
<1>5. \A d \in Nat : FallsOn(r, startsOn, d) <=>
        /\ d >= startsOn /\ OnMonthDay(r, d) /\ Month(d) = r.month
        /\ (Year(d) - Year(startsOn)) % n = 0
  BY DEF FallsOn
<1>6. \A d \in S : d \in Nat /\ (d >= start => FallsOn(r, startsOn, d))
  BY <1>1, <1>4, <1>5
<1>7. ASSUME NEW d \in Nat, NEW e \in S, start <= d, d <= e, FallsOn(r, startsOn, d)
      PROVE  d \in S
  <2>1. PICK y \in years : e = YearlyDate(r, y)
    OBVIOUS
  <2>2. Year(start) <= Year(d) /\ Year(d) <= y /\ Year(d) \in Era
    BY <1>1, <1>4, <1>7, <2>1, DatesGoUp, DayIs
  <2>3. Year(d) \in years
    BY <1>3, <1>5, <1>7, <2>2 DEF Era
  <2>4. d = YearlyDate(r, Year(d))
    BY <1>5, <1>7, <2>2, DayIs, YearlyDateFalls
  <2> QED
    BY <2>3, <2>4
<1> HIDE DEF S, years
<1>8. IsFirst(r, startsOn, from, Least({d \in S : d >= start}))
  BY <1>6, <1>7, LeastIsFirst
<1> QED
  BY <1>2, <1>8

LEMMA CronFirst ==
    ASSUME NEW r, r.freq = "CRON", NEW startsOn \in Nat, NEW from \in Nat
    PROVE  IsFirst(r, startsOn, from, FirstOnOrAfter(r, startsOn, from))
<1> DEFINE start == Max({from, startsOn})
           years == {y \in Year(start)..Year(start) + 5 : Leap(y)}
           S == {civilDate(y, 2, 29) : y \in years}
<1>1. start \in Nat /\ start >= startsOn
  BY StartIs
<1>2. FirstOnOrAfter(r, startsOn, from) = Least({d \in S : d >= start})
  BY DEF FirstOnOrAfter, cronNext
<1>3. Year(start) \in Era
  BY <1>1, DayIs
<1>4. \A d \in Nat : FallsOn(r, startsOn, d) <=> d >= startsOn /\ Month(d) = 2 /\ Day(d) = 29
  BY DEF FallsOn
<1> HIDE DEF start
<1>5. ASSUME NEW y \in years
      PROVE  LET d == civilDate(y, 2, 29) IN
             d \in Nat /\ Year(d) = y /\ Month(d) = 2 /\ Day(d) = 29
  <2>1. y \in Era /\ Leap(y)
    BY <1>3 DEF Era
  <2>2. daysInMonth(y, 2) = 29
    BY <2>1 DEF daysInMonth
  <2>3. civilDate(y, 2, 1) \in Nat /\ civilDate(y, 2, 29) = civilDate(y, 2, 1) + 28
    BY <2>1, <2>2, MonthFacts
  <2>4. civilDate(y, 2, 29) \in MonthOf(y, 2)
    BY <2>2, <2>3 DEF MonthOf
  <2> QED
    BY <2>1, <2>3, <2>4, DateIs
<1>6. \A d \in S : d \in Nat /\ (d >= start => FallsOn(r, startsOn, d))
  BY <1>1, <1>4, <1>5
<1>7. ASSUME NEW d \in Nat, NEW e \in S, start <= d, d <= e, FallsOn(r, startsOn, d)
      PROVE  d \in S
  <2>1. PICK y \in years : e = civilDate(y, 2, 29)
    OBVIOUS
  <2>2. Year(start) <= Year(d) /\ Year(d) <= y /\ Year(d) \in Era
    BY <1>1, <1>5, <1>7, <2>1, DatesGoUp, DayIs
  <2>3. Month(d) = 2 /\ Day(d) = 29 /\ Day(d) \in 1..daysInMonth(Year(d), 2)
    BY <1>4, <1>7, DayIs DEF LastDay
  <2>4. Leap(Year(d))
    BY <2>3 DEF daysInMonth
  <2>5. Year(d) \in years
    BY <1>3, <2>2, <2>4 DEF Era
  <2>6. d = civilDate(Year(d), 2, 29)
    <3>1. d = civilDate(Year(d), 2, 1) + 29 - 1
      BY <2>3, DayIs
    <3> QED
      BY <2>2, <3>1, DaysFollow
  <2> QED
    BY <2>5, <2>6
<1> HIDE DEF S, years
<1>8. IsFirst(r, startsOn, from, Least({d \in S : d >= start}))
  BY <1>6, <1>7, LeastIsFirst DEF start
<1> QED
  BY <1>2, <1>8

\* The least multiple of n that is x or more.
LEMMA MultipleUpTo ==
    ASSUME NEW n \in Nat \ {0}, NEW x \in Nat
    PROVE  LET up == ((x + n - 1) \div n) * n IN
           /\ up \in Nat /\ up >= x /\ up % n = 0
           /\ \A z \in Nat : x <= z /\ z < up => z % n # 0
<1> DEFINE q == (x + n - 1) \div n
<1>1. q \in Nat /\ q * n <= x + n - 1 /\ x + n - 1 < q * n + n
  OBVIOUS
<1> HIDE DEF q
<1>2. q * n \in Nat
  BY <1>1
<1>3. (q * n) % n = 0
  BY <1>1
<1>4. ASSUME NEW z \in Nat, x <= z, z < q * n, z % n = 0 PROVE FALSE
  <2> DEFINE k == z \div n
  <2>1. k \in Nat /\ z = k * n
    BY <1>4
  <2> HIDE DEF k
  <2>2. k < q
    BY <1>1, <1>4, <2>1
  <2>3. (k + 1) * n <= q * n
    BY <1>1, <2>1, <2>2
  <2>4. k * n + n <= q * n
    BY <2>1, <2>3
  <2> QED
    BY <1>1, <1>4, <2>1, <2>4
<1> QED
  BY <1>1, <1>2, <1>3, <1>4 DEF q

LEMMA DailyFirst ==
    ASSUME NEW r, RuleOK(r), r.freq = "DAILY", NEW startsOn \in Nat, NEW from \in Nat
    PROVE  IsFirst(r, startsOn, from, FirstOnOrAfter(r, startsOn, from))
<1> DEFINE start == Max({from, startsOn})
           n == r.interval
           x == start - startsOn
           up == ((x + n - 1) \div n) * n
<1>1. start \in Nat /\ start >= startsOn /\ start >= from /\ n \in Nat \ {0}
  BY StartIs DEF RuleOK
<1>2. x \in Nat
  BY <1>1
<1>3. FirstOnOrAfter(r, startsOn, from) = startsOn + up
  BY DEF FirstOnOrAfter
<1>4. \A d \in Nat : FallsOn(r, startsOn, d) <=> d >= startsOn /\ (d - startsOn) % n = 0
  BY DEF FallsOn
<1>5. \A d \in Nat : d >= start <=> d >= from /\ d >= startsOn
  BY StartIs
<1> HIDE DEF start, n
<1>6. /\ up \in Nat /\ up >= x /\ up % n = 0
      /\ \A z \in Nat : x <= z /\ z < up => z % n # 0
  <2> HIDE DEF x
  <2> QED
    BY <1>1, <1>2, MultipleUpTo
<1> HIDE DEF up
<1>7. startsOn + up \in Nat /\ startsOn + up >= from /\ FallsOn(r, startsOn, startsOn + up)
  <2>1. startsOn + up - startsOn = up
    BY <1>6
  <2> QED
    BY <1>1, <1>4, <1>6, <2>1
<1>8. ASSUME NEW d \in Nat, from <= d, d < startsOn + up, FallsOn(r, startsOn, d) PROVE FALSE
  <2>1. d >= startsOn /\ d >= start /\ (d - startsOn) % n = 0
    BY <1>4, <1>5, <1>8
  <2>2. d - startsOn \in Nat /\ x <= d - startsOn /\ d - startsOn < up
    BY <1>1, <1>6, <1>8, <2>1
  <2> QED
    BY <1>6, <2>1, <2>2
<1> QED
  BY <1>3, <1>7, <1>8 DEF IsFirst

\* FirstOnOrAfter finds the first date that falls on the rule, whichever it is.
LEMMA FirstIsFirst ==
    ASSUME NEW r, RuleOK(r), NEW startsOn \in Nat, NEW from \in Nat
    PROVE  IsFirst(r, startsOn, from, FirstOnOrAfter(r, startsOn, from))
  BY DailyFirst, WeeklyFirst, MonthlyFirst, YearlyFirst, CronFirst DEF RuleOK, Frequency

Date == Nat \cup {NoDate}

LEMMA NextIs ==
    ASSUME NEW r, RuleOK(r), NEW startsOn \in Nat, NEW from \in Nat
    PROVE  FirstOnOrAfter(r, startsOn, from) \in Date
  BY FirstIsFirst DEF IsFirst, Date

-------------------------------------------------------------------------------
(* The dates of a plan *)

\* A recursive function of the natural numbers exists as far as it is wanted.
Walks(V, a, step, N) ==
    \E g \in [0..N -> V] : g[0] = a /\ \A n \in 1..N : g[n] = step[g[n - 1]]

LEMMA StepByStep ==
    ASSUME NEW V, NEW a \in V, NEW step \in [V -> V], NEW N \in Nat
    PROVE  Walks(V, a, step, N)
<1> USE DEF Walks
<1> DEFINE Has(m) == Walks(V, a, step, m)
           Bad == {m \in Nat : ~Has(m)}
<1>1. Has(0)
  <2> DEFINE g == [n \in 0..0 |-> a]
  <2>1. g \in [0..0 -> V] /\ g[0] = a /\ \A n \in 1..0 : FALSE
    OBVIOUS
  <2> QED
    BY <2>1
<1>2. ASSUME NEW m \in Nat, Has(m) PROVE Has(m + 1)
  <2>1. PICK g \in [0..m -> V] : g[0] = a /\ \A n \in 1..m : g[n] = step[g[n - 1]]
    BY <1>2
  <2> DEFINE h == [n \in 0..m + 1 |-> IF n = m + 1 THEN step[g[m]] ELSE g[n]]
  <2>2. h \in [0..m + 1 -> V]
    BY <2>1
  <2>3. h[0] = a
    BY <2>1
  <2>4. ASSUME NEW n \in 1..m + 1 PROVE h[n] = step[h[n - 1]]
    BY <2>1
  <2> QED
    BY <2>2, <2>3, <2>4
<1>3. Bad = {}
  <2> SUFFICES ASSUME Bad # {} PROVE FALSE
    OBVIOUS
  <2>1. Bad \in SUBSET Nat
    OBVIOUS
  <2> HIDE DEF Has
  <2>2. PICK m \in Bad : \A k \in Bad : m <= k
    <3> HIDE DEF Bad
    <3> QED
      BY <2>1, LeastExists
  <2>3. m \in Nat /\ m # 0 /\ ~Has(m)
    BY <1>1, <2>2
  <2>4. m - 1 \in Nat /\ Has(m - 1)
    BY <2>2, <2>3
  <2>5. Has(m - 1 + 1)
    BY <1>2, <2>4
  <2> QED
    BY <2>3, <2>5
<1> HIDE DEF Has
<1>4. Has(N)
  BY <1>3
<1> QED
  BY <1>4 DEF Has

LEMMA PlanDatesAre ==
    ASSUME NEW r, RuleOK(r), NEW startsOn \in Nat, NEW current \in Nat,
           NEW completedOn \in Nat
    PROVE  LET date == PlanDates(r, startsOn, current, completedOn) IN
           /\ \A n \in 0..MaxRepeatPlanSteps : date[n] \in Date
           /\ date[0] = NextAfter(r, startsOn, current)
           /\ \A n \in 1..MaxRepeatPlanSteps :
                date[n] = IF Missed(date[n - 1], completedOn)
                            THEN NextAfter(r, startsOn, date[n - 1]) ELSE date[n - 1]
<1> DEFINE N == MaxRepeatPlanSteps
           a == NextAfter(r, startsOn, current)
           step == [d \in Date |-> IF Missed(d, completedOn)
                                     THEN NextAfter(r, startsOn, d) ELSE d]
           date == PlanDates(r, startsOn, current, completedOn)
           Is(g) == g = [n \in 0..N |->
                      IF n = 0 THEN NextAfter(r, startsOn, current)
                      ELSE IF Missed(g[n - 1], completedOn)
                             THEN NextAfter(r, startsOn, g[n - 1]) ELSE g[n - 1]]
<1>1. a \in Date
  BY NextIs DEF NextAfter
<1>2. step \in [Date -> Date]
  <2>1. ASSUME NEW d \in Date, Missed(d, completedOn) PROVE NextAfter(r, startsOn, d) \in Date
    <3>1. d \in Nat /\ d + 1 \in Nat
      BY <2>1 DEF Missed, Date
    <3> QED
      BY <3>1, NextIs DEF NextAfter
  <2> QED
    BY <2>1
<1>3. N \in Nat
  BY RepeatsAssumption
<1> HIDE DEF a, N, step
<1>4. PICK g \in [0..N -> Date] : g[0] = a /\ \A n \in 1..N : g[n] = step[g[n - 1]]
  <2>1. Walks(Date, a, step, N)
    BY <1>1, <1>2, <1>3, StepByStep
  <2> QED
    BY <2>1 DEF Walks
<1>5. Is(g)
  <2>1. g = [n \in 0..N |-> g[n]]
    BY <1>4
  <2>2. ASSUME NEW n \in 0..N
        PROVE  g[n] = IF n = 0 THEN NextAfter(r, startsOn, current)
                      ELSE IF Missed(g[n - 1], completedOn)
                             THEN NextAfter(r, startsOn, g[n - 1]) ELSE g[n - 1]
    <3>1. CASE n = 0
      BY <1>4, <3>1 DEF a
    <3>2. CASE n # 0
      <4>1. n \in 1..N /\ n - 1 \in 0..N
        BY <1>3, <3>2
      <4>2. g[n] = step[g[n - 1]] /\ g[n - 1] \in Date
        BY <1>4, <4>1
      <4> QED
        BY <3>2, <4>2 DEF step
    <3> QED
      BY <3>1, <3>2
  <2> QED
    BY <2>1, <2>2
<1>6. date = CHOOSE f : Is(f)
  BY DEF PlanDates, N
<1> HIDE DEF date
<1>7. Is(date)
  <2> HIDE DEF Is
  <2> QED
    BY <1>5, <1>6
<1>8. \A n \in 0..N : date[n] \in Date
  <2> DEFINE Bad == {n \in 0..N : date[n] \notin Date}
  <2> SUFFICES ASSUME Bad # {} PROVE FALSE
    OBVIOUS
  <2>1. Bad \in SUBSET Nat
    BY <1>3
  <2>2. PICK n \in Bad : \A k \in Bad : n <= k
    <3> HIDE DEF Bad
    <3> QED
      BY <2>1, LeastExists
  <2>3. n \in 0..N /\ date[n] \notin Date
    OBVIOUS
  <2>4. n # 0
    BY <1>1, <1>3, <1>7, <2>3 DEF a
  <2>5. n - 1 \in 0..N /\ n - 1 \notin Bad
    BY <1>3, <2>2, <2>3, <2>4
  <2>6. date[n - 1] \in Date
    BY <2>5
  <2>7. date[n] = step[date[n - 1]]
    BY <1>7, <2>3, <2>4, <2>6 DEF step
  <2> QED
    BY <1>2, <2>3, <2>6, <2>7
<1> QED
  BY <1>3, <1>7, <1>8 DEF N, date

LEMMA CountDistinct ==
    ASSUME NEW k \in Nat, NEW g,
           \A i, j \in 0..k - 1 : g[i] = g[j] => i = j
    PROVE  /\ IsFiniteSet({g[i] : i \in 0..k - 1})
           /\ Cardinality({g[i] : i \in 0..k - 1}) = k
<1> DEFINE S == 0..k - 1
           T == {g[i] : i \in S}
           f == [i \in S |-> g[i]]
<1>1. IsFiniteSet(S) /\ Cardinality(S) = k
  BY FS_Interval
<1>2. f \in Bijection(S, T)
  BY DEF Bijection, Injection, Surjection, IsInjective
<1>3. ExistsBijection(S, T)
  BY <1>2 DEF ExistsBijection
<1> QED
  BY <1>1, <1>3, FS_Bijection

\* The dates on the rule after one date and before another.
Between(r, startsOn, current, f) ==
    {d \in current + 1..f - 1 : FallsOn(r, startsOn, d)}

\* The first k dates of a plan have passed, the next has not if it is there, and
\* they are all that fall on the rule.
Walked(r, startsOn, current, completedOn, date, k) ==
    /\ k \in 0..MaxRepeatPlanSteps
    /\ {n \in 0..MaxRepeatPlanSteps - 1 : Missed(date[n], completedOn)} = 0..k - 1
    /\ \A n \in 0..k : date[n] \in Date
    /\ \A n \in 0..k - 1 : date[n] \in Nat /\ date[n] < completedOn
    /\ k < MaxRepeatPlanSteps => ~Missed(date[k], completedOn)
    /\ \A n \in 0..k : date[n] \in Nat =>
         /\ date[n] > current /\ FallsOn(r, startsOn, date[n])
         /\ \A j \in 0..n - 1 : date[j] < date[n]
         /\ Between(r, startsOn, current, date[n]) = {date[j] : j \in 0..n - 1}

LEMMA PlanWalks ==
    ASSUME NEW r, RuleOK(r), NEW startsOn \in Nat, NEW current \in Nat,
           NEW completedOn \in Nat
    PROVE  LET date == PlanDates(r, startsOn, current, completedOn) IN
           Walked(r, startsOn, current, completedOn, date,
             Cardinality({n \in 0..MaxRepeatPlanSteps - 1 : Missed(date[n], completedOn)}))
<1> DEFINE N == MaxRepeatPlanSteps
           date == PlanDates(r, startsOn, current, completedOn)
           passed == {n \in 0..N - 1 : Missed(date[n], completedOn)}
<1>0. N \in Nat
  BY RepeatsAssumption
<1>1. /\ \A n \in 0..N : date[n] \in Date
      /\ date[0] = NextAfter(r, startsOn, current)
      /\ \A n \in 1..N :
           date[n] = IF Missed(date[n - 1], completedOn)
                       THEN NextAfter(r, startsOn, date[n - 1]) ELSE date[n - 1]
  BY PlanDatesAre
<1> HIDE DEF N, date
<1>2. PICK k \in 0..N : /\ k < N => ~Missed(date[k], completedOn)
                        /\ \A n \in 0..k - 1 : Missed(date[n], completedOn)
  <2> DEFINE Stop == {n \in 0..N : n < N => ~Missed(date[n], completedOn)}
  <2>1. Stop \in SUBSET Nat /\ N \in Stop
    BY <1>0
  <2>2. PICK k \in Stop : \A n \in Stop : k <= n
    <3> HIDE DEF Stop
    <3> QED
      BY <2>1, LeastExists
  <2>3. \A n \in 0..k - 1 : n \in 0..N /\ n \notin Stop
    BY <1>0, <2>2
  <2> QED
    BY <1>0, <2>2, <2>3
<1>3. \A n \in k..N - 1 : ~Missed(date[n], completedOn)
  <2> DEFINE Bad == {n \in k..N - 1 : Missed(date[n], completedOn)}
  <2> SUFFICES ASSUME Bad # {} PROVE FALSE
    OBVIOUS
  <2>1. Bad \in SUBSET Nat
    BY <1>0, <1>2
  <2>2. PICK n \in Bad : \A m \in Bad : n <= m
    <3> HIDE DEF Bad
    <3> QED
      BY <2>1, LeastExists
  <2>3. n > k /\ n \in 1..N
    BY <1>0, <1>2, <2>2
  <2>4. n - 1 \in k..N - 1 /\ n - 1 \notin Bad
    BY <1>0, <1>2, <2>2, <2>3
  <2>5. date[n] = date[n - 1]
    BY <1>1, <2>3, <2>4
  <2> QED
    BY <2>2, <2>4, <2>5
<1>4. passed = 0..k - 1
  BY <1>0, <1>2, <1>3
<1>5. Cardinality(passed) = k
  <2> HIDE DEF passed
  <2>1. Cardinality(0..k - 1) = IF 0 > k - 1 THEN 0 ELSE k - 1 - 0 + 1
    BY <1>0, <1>2, FS_Interval
  <2> QED
    BY <1>0, <1>2, <1>4, <2>1
<1>6. \A n \in 0..k : n \in 0..N
  BY <1>0, <1>2
<1>7. \A n \in 0..k - 1 : date[n] \in Nat /\ date[n] < completedOn
  BY <1>0, <1>1, <1>2, <1>6 DEF Missed, Date
<1> DEFINE Reaches(n) ==
             date[n] \in Nat =>
                /\ date[n] > current /\ FallsOn(r, startsOn, date[n])
                /\ \A j \in 0..n - 1 : date[j] < date[n]
                /\ Between(r, startsOn, current, date[n]) = {date[j] : j \in 0..n - 1}
<1>8. Reaches(0)
  <2> SUFFICES ASSUME date[0] \in Nat
               PROVE  /\ date[0] > current /\ FallsOn(r, startsOn, date[0])
                      /\ Between(r, startsOn, current, date[0]) = {}
    OBVIOUS
  <2>1. IsFirst(r, startsOn, current + 1, date[0])
    BY <1>1, FirstIsFirst DEF NextAfter
  <2>2. date[0] # NoDate
    BY DEF NoDate
  <2> QED
    BY <2>1, <2>2 DEF IsFirst, Between
<1>9. ASSUME NEW n \in 1..k, Reaches(n - 1) PROVE Reaches(n)
  <2> SUFFICES ASSUME date[n] \in Nat
               PROVE  /\ date[n] > current /\ FallsOn(r, startsOn, date[n])
                      /\ \A j \in 0..n - 1 : date[j] < date[n]
                      /\ Between(r, startsOn, current, date[n]) = {date[j] : j \in 0..n - 1}
    OBVIOUS
  <2>1. n - 1 \in 0..k - 1 /\ n \in 1..N
    BY <1>0, <1>2
  <2>2. date[n - 1] \in Nat /\ Missed(date[n - 1], completedOn)
    BY <1>2, <1>7, <2>1
  <2>3. date[n] = FirstOnOrAfter(r, startsOn, date[n - 1] + 1)
    BY <1>1, <2>1, <2>2 DEF NextAfter
  <2>4. /\ date[n] >= date[n - 1] + 1 /\ FallsOn(r, startsOn, date[n])
        /\ \A d \in Nat : date[n - 1] + 1 <= d /\ d < date[n] => ~FallsOn(r, startsOn, d)
    <3>1. IsFirst(r, startsOn, date[n - 1] + 1, date[n])
      BY <2>2, <2>3, FirstIsFirst
    <3>2. date[n] # NoDate
      BY DEF NoDate
    <3> QED
      BY <3>1, <3>2 DEF IsFirst
  <2>5. /\ date[n - 1] > current /\ FallsOn(r, startsOn, date[n - 1])
        /\ \A j \in 0..n - 1 - 1 : date[j] < date[n - 1]
        /\ Between(r, startsOn, current, date[n - 1]) = {date[j] : j \in 0..n - 1 - 1}
    BY <1>9, <2>2
  <2>6. \A j \in 0..n - 1 : j \in 0..n - 1 - 1 \/ j = n - 1
    BY <2>1
  <2>7. \A j \in 0..n - 1 : date[j] \in Nat /\ date[j] < date[n]
    BY <1>7, <2>1, <2>2, <2>4, <2>5, <2>6
  <2>8. ASSUME NEW d \in Between(r, startsOn, current, date[n])
        PROVE  d \in {date[j] : j \in 0..n - 1}
    <3>1. d \in Nat /\ d > current /\ d < date[n] /\ FallsOn(r, startsOn, d)
      BY DEF Between
    <3>2. d <= date[n - 1]
      BY <2>2, <2>4, <3>1
    <3>3. CASE d = date[n - 1]
      BY <2>1, <3>3
    <3>4. CASE d < date[n - 1]
      <4>1. d \in Between(r, startsOn, current, date[n - 1])
        BY <2>2, <3>1, <3>4 DEF Between
      <4> QED
        BY <2>1, <2>5, <4>1
    <3> QED
      BY <2>2, <3>1, <3>2, <3>3, <3>4
  <2>9. ASSUME NEW j \in 0..n - 1 PROVE date[j] \in Between(r, startsOn, current, date[n])
    <3>1. date[j] > current /\ FallsOn(r, startsOn, date[j])
      <4>1. CASE j = n - 1
        BY <2>5, <4>1
      <4>2. CASE j \in 0..n - 1 - 1
        <5>1. date[j] \in Between(r, startsOn, current, date[n - 1])
          BY <2>5, <4>2
        <5> QED
          BY <5>1 DEF Between
      <4> QED
        BY <2>6, <4>1, <4>2
    <3> QED
      BY <2>7, <3>1 DEF Between
  <2> QED
    BY <2>2, <2>4, <2>5, <2>7, <2>8, <2>9
<1>10. \A n \in 0..k : Reaches(n)
  <2> DEFINE Bad == {n \in 0..k : ~Reaches(n)}
  <2> SUFFICES ASSUME Bad # {} PROVE FALSE
    OBVIOUS
  <2> HIDE DEF Reaches
  <2>1. Bad \in SUBSET Nat
    BY <1>2
  <2>2. PICK n \in Bad : \A m \in Bad : n <= m
    <3> HIDE DEF Bad
    <3> QED
      BY <2>1, LeastExists
  <2>3. n \in 1..k
    BY <1>0, <1>2, <1>8, <2>2
  <2>4. Reaches(n - 1)
    BY <2>2, <2>3
  <2> QED
    BY <1>9, <2>2, <2>3, <2>4
<1> QED
  BY <1>0, <1>1, <1>2, <1>4, <1>5, <1>6, <1>7, <1>10 DEF N, date, Walked

\* A plan goes on to the first date that falls on the rule and has not passed,
\* and it has skipped all before, or as many as it may look at.
PlanIs(r, startsOn, current, completedOn, plan) ==
    LET missed == Between(r, startsOn, current, plan.next)
        count == Len(plan.skipped) IN
    /\ plan.skipped \in Seq(Nat)
    /\ plan.next \in Date
    /\ plan.next # NoDate =>
         /\ plan.next > current /\ FallsOn(r, startsOn, plan.next)
         /\ count = Min({Cardinality(missed), MaxRepeatPlanSteps})
         /\ \A d \in missed : d < completedOn
         /\ plan.next >= completedOn
         /\ \A i \in 1..count :
              /\ plan.skipped[i] \in missed
              /\ {d \in missed : d < plan.skipped[i]} = {plan.skipped[j] : j \in 1..i - 1}

\* Whatever date a repetition is completed on, what PlanAfterCompletion plans is
\* the first date of the rule that has not passed, and what it has skipped are the
\* dates of the rule before it, in order: all, or as many as it may look at.
THEOREM PlanIsSound ==
    ASSUME NEW r, RuleOK(r), NEW startsOn \in Nat, NEW current \in Nat,
           NEW completedOn \in Nat
    PROVE  PlanIs(r, startsOn, current, completedOn,
                  PlanAfterCompletion(r, startsOn, current, completedOn))
<1> DEFINE N == MaxRepeatPlanSteps
           date == PlanDates(r, startsOn, current, completedOn)
           passed == {n \in 0..N - 1 : Missed(date[n], completedOn)}
           k == Cardinality(passed)
           plan == PlanAfterCompletion(r, startsOn, current, completedOn)
           f == plan.next
           missed == Between(r, startsOn, current, f)
<1>0. N \in Nat
  BY RepeatsAssumption
<1>1. Walked(r, startsOn, current, completedOn, date, k)
  BY PlanWalks
<1>2. /\ f = IF Missed(date[k], completedOn)
               THEN FirstOnOrAfter(r, startsOn, completedOn) ELSE date[k]
      /\ plan.skipped = [n \in 1..k |-> date[n - 1]]
  BY DEF PlanAfterCompletion
<1> HIDE DEF date, k, passed, f
<1>3. /\ k \in 0..N
      /\ \A n \in 0..k : date[n] \in Date
      /\ \A n \in 0..k - 1 : date[n] \in Nat /\ date[n] < completedOn
      /\ k < N => ~Missed(date[k], completedOn)
  BY <1>1 DEF Walked
<1>4. ASSUME NEW n \in 0..k, date[n] \in Nat
      PROVE  /\ date[n] > current /\ FallsOn(r, startsOn, date[n])
             /\ \A j \in 0..n - 1 : date[j] < date[n]
             /\ Between(r, startsOn, current, date[n]) = {date[j] : j \in 0..n - 1}
  BY <1>1, <1>4 DEF Walked
<1> HIDE DEF N
<1>5. plan.skipped \in Seq(Nat) /\ Len(plan.skipped) = k
  <2>1. \A n \in 1..k : date[n - 1] \in Nat
    BY <1>0, <1>3
  <2>2. k \in Nat /\ plan.skipped = [n \in 1..k |-> date[n - 1]]
    BY <1>0, <1>2, <1>3
  <2> HIDE DEF plan
  <2> QED
    BY <2>1, <2>2
<1>6. f \in Date
  <2>1. k \in 0..k
    BY <1>0, <1>3
  <2> QED
    BY <1>3, <1>2, <2>1, NextIs
<1> SUFFICES ASSUME f # NoDate
             PROVE  /\ f > current /\ FallsOn(r, startsOn, f)
                    /\ k = Min({Cardinality(missed), N})
                    /\ \A d \in missed : d < completedOn
                    /\ f >= completedOn
                    /\ \A i \in 1..k :
                         /\ plan.skipped[i] \in missed
                         /\ {d \in missed : d < plan.skipped[i]} =
                              {plan.skipped[j] : j \in 1..i - 1}
  BY <1>5, <1>6 DEF PlanIs, f, N
<1> HIDE DEF plan
<1>7. f \in Nat /\ k \in Nat
  BY <1>0, <1>3, <1>6 DEF Date
<1>8. \A i, j \in 0..k - 1 : /\ i < j => date[i] < date[j]
                             /\ date[i] = date[j] => i = j
  <2>1. ASSUME NEW i \in 0..k - 1, NEW j \in 0..k - 1, i < j PROVE date[i] < date[j]
    <3>1. j \in 0..k /\ i \in 0..j - 1 /\ date[j] \in Nat
      BY <1>3, <1>7, <2>1
    <3> QED
      BY <1>4, <3>1
  <2>2. ASSUME NEW i \in 0..k - 1, NEW j \in 0..k - 1, date[i] = date[j] PROVE i = j
    <3>1. date[i] \in Nat /\ date[j] \in Nat /\ i \in Int /\ j \in Int
      BY <1>3, <1>7
    <3> QED
      BY <2>1, <2>2, <3>1
  <2> QED
    BY <2>1, <2>2
<1> DEFINE walked == {date[j] : j \in 0..k - 1}
<1>9. IsFiniteSet(walked) /\ Cardinality(walked) = k
  BY <1>7, <1>8, CountDistinct
\* Whatever comes next, what was skipped lies before it.
<1>10. ASSUME f > current, \A n \in 0..k - 1 : date[n] < f
      PROVE  \A i \in 1..k :
               /\ plan.skipped[i] \in missed
               /\ {d \in missed : d < plan.skipped[i]} = {plan.skipped[j] : j \in 1..i - 1}
  <2> TAKE i \in 1..k
  <2>1. i - 1 \in 0..k - 1 /\ i - 1 \in 0..k
    BY <1>7
  <2>2. plan.skipped[i] = date[i - 1] /\ date[i - 1] \in Nat /\ date[i - 1] < f
    BY <1>3, <1>2, <1>10, <2>1
  <2>3. /\ date[i - 1] > current /\ FallsOn(r, startsOn, date[i - 1])
        /\ Between(r, startsOn, current, date[i - 1]) = {date[j] : j \in 0..i - 1 - 1}
    BY <1>4, <2>1, <2>2
  <2>4. date[i - 1] \in missed
    BY <1>7, <2>2, <2>3 DEF Between
  <2>5. {d \in missed : d < date[i - 1]} = Between(r, startsOn, current, date[i - 1])
    BY <1>7, <2>2 DEF Between
  <2>6. {date[j] : j \in 0..i - 1 - 1} = {plan.skipped[j] : j \in 1..i - 1}
    <3>1. \A j \in 1..i - 1 : plan.skipped[j] = date[j - 1] /\ j - 1 \in 0..i - 1 - 1
      BY <1>2, <1>7
    <3>2. \A j \in 0..i - 1 - 1 : j + 1 \in 1..i - 1 /\ date[j] = date[j + 1 - 1]
      BY <1>7
    <3>3. \A j \in 0..i - 1 - 1 : j + 1 \in 1..i - 1 /\ plan.skipped[j + 1] = date[j]
      BY <3>1, <3>2
    <3> QED
      BY <3>1, <3>3
  <2> QED
    BY <2>2, <2>3, <2>4, <2>5, <2>6
\* Every date the plan may look at has passed.
<1>11. CASE Missed(date[k], completedOn)
  <2>1. k = N /\ f = FirstOnOrAfter(r, startsOn, completedOn)
    BY <1>0, <1>3, <1>2, <1>11
  <2>2. date[k] \in Nat /\ date[k] < completedOn /\ k \in 0..k
    BY <1>3, <1>7, <1>11 DEF Missed, Date
  <2>3. /\ f >= completedOn /\ FallsOn(r, startsOn, f)
        /\ \A d \in Nat : completedOn <= d /\ d < f => ~FallsOn(r, startsOn, d)
    BY <2>1, FirstIsFirst DEF IsFirst
  <2>4. f > current /\ \A n \in 0..k - 1 : date[n] < f
    BY <1>3, <1>4, <1>7, <2>2, <2>3
  <2>5. \A d \in missed : d < completedOn
    BY <1>7, <2>3 DEF Between
  <2>6. k = Min({Cardinality(missed), N})
    <3>1. missed \in SUBSET (current + 1..f - 1)
      BY DEF Between
    <3>2. IsFiniteSet(missed) /\ Cardinality(missed) \in Nat
      <4>1. current + 1 \in Int /\ f - 1 \in Int
        BY <1>7
      <4>2. IsFiniteSet(current + 1..f - 1)
        BY <4>1, FS_Interval
      <4>3. IsFiniteSet(missed)
        BY <3>1, <4>2, FS_Subset
      <4> QED
        BY <4>3, FS_CardinalityType
    <3>3. walked \subseteq missed
      <4>1. walked = Between(r, startsOn, current, date[k])
        BY <1>4, <2>2
      <4> QED
        BY <1>7, <2>2, <2>3, <4>1 DEF Between
    <3>4. k <= Cardinality(missed)
      BY <1>9, <3>2, <3>3, FS_Subset
    <3> QED
      BY <1>0, <2>1, <3>2, <3>4, MinOfTwo
  <2> QED
    BY <1>10, <2>3, <2>4, <2>5, <2>6
\* The plan came to a date that has not passed.
<1>12. CASE ~Missed(date[k], completedOn)
  <2>1. f = date[k] /\ k \in 0..k /\ f >= completedOn
    BY <1>2, <1>7, <1>12 DEF Missed
  <2>2. /\ f > current /\ FallsOn(r, startsOn, f) /\ \A n \in 0..k - 1 : date[n] < f
        /\ missed = walked
    BY <1>4, <1>7, <2>1
  <2>3. \A d \in missed : d < completedOn
    BY <1>3, <2>2
  <2>4. k = Min({Cardinality(missed), N})
    <3>1. Cardinality(missed) = k
      BY <1>9, <2>2
    <3> QED
      BY <1>0, <1>3, <3>1, MinOfTwo
  <2> QED
    BY <1>10, <2>1, <2>2, <2>3, <2>4
<1> QED
  BY <1>11, <1>12

-------------------------------------------------------------------------------
(* Rules as they are filled in, stored and read back *)

RuleRecord == [freq : Frequency, interval : Nat \ {0}, weekdays : SUBSET (0..6),
               ordinal : -1..4, weekday : 0..6, monthDay : Int, month : Int]

\* A rule whose start date is filled in.
Filled(r) ==
    /\ r \in RuleRecord
    /\ r.interval > 1 => r.interval <= MaxRepeatInterval
    /\ r.weekdays = {} <=> r.freq # "WEEKLY"
    /\ r.freq # "MONTHLY" => r.ordinal = 0
    /\ r.ordinal = 0 => r.weekday = 0
    /\ r.freq # "YEARLY" => r.month = 0
    /\ r.freq = "MONTHLY" /\ r.ordinal = 0 => r.monthDay \in {-1} \cup 1..31
    /\ r.freq = "YEARLY" => r.month \in 1..12 /\ r.monthDay \in 1..daysInMonth(2000, r.month)
    /\ ~(r.freq = "YEARLY" \/ (r.freq = "MONTHLY" /\ r.ordinal = 0)) => r.monthDay = 0

LEMMA FilledIsOK == ASSUME NEW r, Filled(r) PROVE RuleOK(r)
<1>1. r.freq = "YEARLY" => r.month \in 1..12 /\ r.monthDay \in 1..31
  BY DEF Filled, daysInMonth
<1> QED
  BY <1>1 DEF Filled, RuleOK, RuleRecord

TextRecord == [freq : Frequency, interval : Int, days : SUBSET (Int \X (0..6)),
               monthDay : Int, month : Int]

\* What a valid text stands for.
LEMMA ParsedIs ==
    ASSUME NEW t \in TextRecord, IsFiniteSet(t.days), ValidText(t)
    PROVE  LET r == ParseRepeatRule(t) IN
           /\ r \in RuleRecord /\ r.freq = t.freq
           /\ r.interval > 1 => r.interval <= MaxRepeatInterval
           /\ t.freq # "WEEKLY" => r.weekdays = {}
           /\ t.freq # "MONTHLY" => r.ordinal = 0
           /\ r.ordinal = 0 => r.weekday = 0
           /\ t.freq # "YEARLY" => r.month = 0
           /\ t.freq = "MONTHLY" => r.monthDay \in {-1} \cup 0..31
           /\ t.freq = "MONTHLY" /\ r.ordinal # 0 => r.monthDay = 0
           /\ t.freq = "YEARLY" /\ r.month # 0 =>
                r.month \in 1..12 /\ r.monthDay \in 1..daysInMonth(2000, r.month)
           /\ t.freq = "YEARLY" /\ r.month = 0 => r.monthDay = 0
           /\ t.freq \in {"DAILY", "WEEKLY", "CRON"} => r.monthDay = 0
<1> DEFINE nth == IF t.freq = "MONTHLY" /\ t.days # {}
                    THEN CHOOSE p \in t.days : TRUE ELSE <<0, 0>>
           r == ParseRepeatRule(t)
<1>1. r = [freq |-> t.freq, interval |-> IF t.interval = 0 THEN 1 ELSE t.interval,
           weekdays |-> IF t.freq = "WEEKLY" THEN {p[2] : p \in t.days} ELSE {},
           ordinal |-> nth[1], weekday |-> nth[2],
           monthDay |-> t.monthDay, month |-> t.month]
  BY DEF ParseRepeatRule
<1>2. /\ t.freq \in Frequency /\ t.interval \in Int /\ t.days \in SUBSET (Int \X (0..6))
      /\ t.monthDay \in Int /\ t.month \in Int
  BY DEF TextRecord
<1>3. t.interval \in 0..MaxRepeatInterval /\ MaxRepeatInterval \in Nat
  BY RepeatsAssumption DEF ValidText
<1>4. /\ t.freq = "MONTHLY" /\ t.days # {} =>
           nth \in t.days /\ nth[1] \in {-1} \cup 1..4 /\ nth[2] \in 0..6
      /\ ~(t.freq = "MONTHLY" /\ t.days # {}) => nth = <<0, 0>>
  <2>1. ASSUME t.freq = "MONTHLY", t.days # {}
        PROVE  nth \in t.days /\ nth[1] \in {-1} \cup 1..4 /\ nth[2] \in 0..6
    <3>1. nth \in t.days
      BY <2>1
    <3>2. \A p \in t.days : p[1] \in {-1} \cup 1..4
      BY <2>1 DEF ValidText
    <3>3. \A p \in t.days : p[2] \in 0..6
      BY <1>2
    <3> HIDE DEF nth
    <3> QED
      BY <3>1, <3>2, <3>3
  <2> QED
    BY <2>1
<1> HIDE DEF nth
<1>5. nth[1] \in -1..4 /\ nth[2] \in 0..6 /\ (nth[1] = 0 => nth[2] = 0)
      /\ (t.freq # "MONTHLY" => nth[1] = 0)
  BY <1>4
<1>6. {p[2] : p \in t.days} \in SUBSET (0..6)
  BY <1>2
<1>7. r \in RuleRecord
  <2>1. (IF t.interval = 0 THEN 1 ELSE t.interval) \in Nat \ {0}
    BY <1>3
  <2>2. (IF t.freq = "WEEKLY" THEN {p[2] : p \in t.days} ELSE {}) \in SUBSET (0..6)
    BY <1>6
  <2> QED
    BY <1>1, <1>2, <1>5, <2>1, <2>2 DEF RuleRecord
<1>8. /\ r.freq = t.freq /\ r.monthDay = t.monthDay /\ r.month = t.month
      /\ r.ordinal = nth[1] /\ r.weekday = nth[2]
      /\ r.interval = IF t.interval = 0 THEN 1 ELSE t.interval
      /\ t.freq # "WEEKLY" => r.weekdays = {}
  BY <1>1
<1> HIDE DEF r
<1>9. r.interval > 1 => r.interval <= MaxRepeatInterval
  BY <1>3, <1>8
<1>10. CASE t.freq = "MONTHLY"
  <2>1. t.month = 0 /\ t.monthDay \in {-1} \cup 0..31 /\ (t.days = {} \/ t.monthDay = 0)
    BY <1>10 DEF ValidText
  <2> QED
    BY <1>4, <1>5, <1>7, <1>8, <1>9, <1>10, <2>1 DEF r
<1>11. CASE t.freq = "YEARLY"
  <2>1. /\ (t.month = 0) = (t.monthDay = 0)
        /\ t.month # 0 => t.month \in 1..12 /\ t.monthDay \in 1..daysInMonth(2000, t.month)
    BY <1>11 DEF ValidText
  <2> QED
    BY <1>5, <1>7, <1>8, <1>9, <1>11, <2>1 DEF r
<1>12. CASE t.freq \in {"DAILY", "WEEKLY", "CRON"}
  <2>1. t.month = 0 /\ t.monthDay = 0
    BY <1>12 DEF ValidText
  <2> QED
    BY <1>5, <1>7, <1>8, <1>9, <1>12, <2>1 DEF r
<1> QED
  BY <1>2, <1>10, <1>11, <1>12 DEF Frequency

LEMMA AnchoredIsFilled ==
    ASSUME NEW t \in TextRecord, IsFiniteSet(t.days), ValidText(t), NEW startsOn \in Nat
    PROVE  Filled(Anchored(ParseRepeatRule(t), startsOn))
<1> DEFINE r == ParseRepeatRule(t)
           full == Anchored(r, startsOn)
<1>1. /\ r \in RuleRecord /\ r.freq = t.freq
      /\ r.interval > 1 => r.interval <= MaxRepeatInterval
      /\ t.freq # "WEEKLY" => r.weekdays = {}
      /\ t.freq # "MONTHLY" => r.ordinal = 0
      /\ r.ordinal = 0 => r.weekday = 0
      /\ t.freq # "YEARLY" => r.month = 0
      /\ t.freq = "MONTHLY" => r.monthDay \in {-1} \cup 0..31
      /\ t.freq = "MONTHLY" /\ r.ordinal # 0 => r.monthDay = 0
      /\ t.freq = "YEARLY" /\ r.month # 0 =>
           r.month \in 1..12 /\ r.monthDay \in 1..daysInMonth(2000, r.month)
      /\ t.freq = "YEARLY" /\ r.month = 0 => r.monthDay = 0
      /\ t.freq \in {"DAILY", "WEEKLY", "CRON"} => r.monthDay = 0
  BY ParsedIs
<1>2. /\ Weekday(startsOn) \in 0..6 /\ Month(startsOn) \in 1..12
      /\ Day(startsOn) \in 1..31 /\ Day(startsOn) \in 1..daysInMonth(2000, Month(startsOn))
  <2>1. /\ Month(startsOn) \in 1..12 /\ Day(startsOn) \in 1..LastDay(startsOn)
        /\ LastDay(startsOn) \in 28..31
    BY DayIs
  <2>2. LastDay(startsOn) <= daysInMonth(2000, Month(startsOn))
    BY <2>1 DEF LastDay, daysInMonth, Leap
  <2>3. daysInMonth(2000, Month(startsOn)) \in Nat
    BY DEF daysInMonth
  <2> QED
    BY <2>1, <2>2, <2>3 DEF Weekday
<1> HIDE DEF r
<1>3. /\ r.freq \in Frequency /\ r.interval \in Nat \ {0} /\ r.weekdays \in SUBSET (0..6)
      /\ r.ordinal \in -1..4 /\ r.weekday \in 0..6 /\ r.monthDay \in Int /\ r.month \in Int
  BY <1>1 DEF RuleRecord
<1> DEFINE weekly == r.freq = "WEEKLY" /\ r.weekdays = {}
           monthly == r.freq = "MONTHLY" /\ r.monthDay = 0 /\ r.ordinal = 0
           yearly == r.freq = "YEARLY" /\ r.month = 0
<1>4. full = [freq |-> r.freq, interval |-> r.interval,
              weekdays |-> IF weekly THEN {Weekday(startsOn)} ELSE r.weekdays,
              ordinal |-> r.ordinal, weekday |-> r.weekday,
              monthDay |-> IF monthly \/ yearly THEN Day(startsOn) ELSE r.monthDay,
              month |-> IF yearly THEN Month(startsOn) ELSE r.month]
  <2>1. r = [freq |-> r.freq, interval |-> r.interval, weekdays |-> r.weekdays,
             ordinal |-> r.ordinal, weekday |-> r.weekday,
             monthDay |-> r.monthDay, month |-> r.month]
    BY <1>1 DEF RuleRecord
  <2>2. CASE weekly
    BY <2>1, <2>2 DEF Anchored
  <2>3. CASE monthly
    BY <2>1, <2>3 DEF Anchored
  <2>4. CASE yearly
    BY <2>1, <2>4 DEF Anchored
  <2>5. CASE ~weekly /\ ~monthly /\ ~yearly
    BY <2>1, <2>5 DEF Anchored
  <2> QED
    BY <2>2, <2>3, <2>4, <2>5
<1>5. /\ full.freq = r.freq /\ full.interval = r.interval
      /\ full.ordinal = r.ordinal /\ full.weekday = r.weekday
      /\ full.weekdays = IF weekly THEN {Weekday(startsOn)} ELSE r.weekdays
      /\ full.monthDay = IF monthly \/ yearly THEN Day(startsOn) ELSE r.monthDay
      /\ full.month = IF yearly THEN Month(startsOn) ELSE r.month
  BY <1>4
<1>6. full \in RuleRecord
  <2>1. (IF weekly THEN {Weekday(startsOn)} ELSE r.weekdays) \in SUBSET (0..6)
    BY <1>2, <1>3
  <2>2. (IF monthly \/ yearly THEN Day(startsOn) ELSE r.monthDay) \in Int
    BY <1>2, <1>3
  <2>3. (IF yearly THEN Month(startsOn) ELSE r.month) \in Int
    BY <1>2, <1>3
  <2> HIDE DEF weekly, monthly, yearly, full
  <2> QED
    BY <1>3, <1>4, <2>1, <2>2, <2>3 DEF RuleRecord
<1> HIDE DEF full
<1>7. /\ full.interval > 1 => full.interval <= MaxRepeatInterval
      /\ full.freq # "MONTHLY" => full.ordinal = 0
      /\ full.ordinal = 0 => full.weekday = 0
  <2>1. /\ r.freq = t.freq /\ (r.interval > 1 => r.interval <= MaxRepeatInterval)
        /\ (t.freq # "MONTHLY" => r.ordinal = 0) /\ (r.ordinal = 0 => r.weekday = 0)
    BY <1>1
  <2> QED
    BY <1>5, <2>1
<1>8. full.weekdays = {} <=> full.freq # "WEEKLY"
  <2>1. r.freq # "WEEKLY" => r.weekdays = {}
    BY <1>1
  <2> QED
    BY <1>5, <2>1
<1>9. full.freq # "YEARLY" => full.month = 0
  <2>1. r.freq # "YEARLY" => r.month = 0
    BY <1>1
  <2> QED
    BY <1>5, <2>1
<1>10. full.freq = "MONTHLY" /\ full.ordinal = 0 => full.monthDay \in {-1} \cup 1..31
  <2>1. r.freq = "MONTHLY" => r.monthDay \in {-1} \cup 0..31
    BY <1>1
  <2> QED
    BY <1>2, <1>5, <2>1
<1>11. full.freq = "YEARLY" =>
         full.month \in 1..12 /\ full.monthDay \in 1..daysInMonth(2000, full.month)
  <2>1. r.freq = "YEARLY" /\ r.month # 0 =>
          r.month \in 1..12 /\ r.monthDay \in 1..daysInMonth(2000, r.month)
    BY <1>1
  <2>2. CASE yearly
    <3>1. full.month = Month(startsOn) /\ full.monthDay = Day(startsOn)
      BY <1>5, <2>2
    <3> QED
      BY <1>2, <3>1
  <2>3. CASE ~yearly /\ r.freq = "YEARLY"
    <3>1. full.month = r.month /\ full.monthDay = r.monthDay
      BY <1>5, <2>3
    <3> QED
      BY <2>1, <2>3, <3>1
  <2> QED
    BY <1>5, <2>2, <2>3
<1>12. ~(full.freq = "YEARLY" \/ (full.freq = "MONTHLY" /\ full.ordinal = 0)) =>
         full.monthDay = 0
  <2>1. /\ r.freq = "MONTHLY" /\ r.ordinal # 0 => r.monthDay = 0
        /\ r.freq \in {"DAILY", "WEEKLY", "CRON"} => r.monthDay = 0
    BY <1>1
  <2> QED
    BY <1>3, <1>5, <2>1 DEF Frequency
<1>13. Filled(full)
  <2> HIDE DEF weekly, monthly, yearly
  <2> QED
    BY <1>6, <1>7, <1>8, <1>9, <1>10, <1>11, <1>12 DEF Filled
<1> QED
  BY <1>13 DEF full, r

\* A filled rule is stored as a valid text and read back as it was, whatever start
\* date it is anchored to then (String, ParseRepeatRule, Anchored).
THEOREM StoredAndRead ==
    ASSUME NEW r, Filled(r), NEW startsOn
    PROVE  /\ ParseRepeatRule(Text(r)) = r
           /\ Anchored(r, startsOn) = r
           /\ ValidText(Text(r))
<1> DEFINE t == Text(r)
           days == CASE r.freq = "WEEKLY" -> {<<0, day>> : day \in r.weekdays}
                     [] r.freq = "MONTHLY" /\ r.ordinal # 0 -> {<<r.ordinal, r.weekday>>}
                     [] OTHER -> {}
           nth == IF t.freq = "MONTHLY" /\ t.days # {}
                    THEN CHOOSE p \in t.days : TRUE ELSE <<0, 0>>
<1>1. /\ r \in RuleRecord
      /\ r.interval > 1 => r.interval <= MaxRepeatInterval
      /\ r.weekdays = {} <=> r.freq # "WEEKLY"
      /\ r.freq # "MONTHLY" => r.ordinal = 0
      /\ r.ordinal = 0 => r.weekday = 0
      /\ r.freq # "YEARLY" => r.month = 0
      /\ r.freq = "MONTHLY" /\ r.ordinal = 0 => r.monthDay \in {-1} \cup 1..31
      /\ r.freq = "YEARLY" =>
           r.month \in 1..12 /\ r.monthDay \in 1..daysInMonth(2000, r.month)
      /\ ~(r.freq = "YEARLY" \/ (r.freq = "MONTHLY" /\ r.ordinal = 0)) => r.monthDay = 0
  BY DEF Filled
<1>2. /\ t.freq = r.freq /\ t.interval = IF r.interval > 1 THEN r.interval ELSE 0
      /\ t.days = days /\ t.month = IF r.freq = "YEARLY" THEN r.month ELSE 0
      /\ t.monthDay = IF r.freq \in {"MONTHLY", "YEARLY"} /\ r.ordinal = 0
                        THEN r.monthDay ELSE 0
  BY DEF Text
<1>3. /\ r.freq \in Frequency /\ r.interval \in Nat \ {0} /\ r.weekdays \in SUBSET (0..6)
      /\ r.ordinal \in -1..4 /\ r.weekday \in 0..6
  BY <1>1 DEF RuleRecord
<1> HIDE DEF t
<1>4. t.monthDay = r.monthDay /\ t.month = r.month
  BY <1>1, <1>2
<1>5. r.freq = "WEEKLY" => days = {<<0, day>> : day \in r.weekdays}
  OBVIOUS
<1>6. r.freq = "MONTHLY" /\ r.ordinal # 0 => days = {<<r.ordinal, r.weekday>>}
  OBVIOUS
<1>7. r.freq # "WEEKLY" /\ ~(r.freq = "MONTHLY" /\ r.ordinal # 0) => days = {}
  OBVIOUS
<1> HIDE DEF days
<1>8. nth = <<r.ordinal, r.weekday>>
  <2>1. CASE r.freq = "MONTHLY" /\ r.ordinal # 0
    BY <1>2, <1>6, <2>1
  <2>2. CASE ~(r.freq = "MONTHLY" /\ r.ordinal # 0)
    <3>1. nth = <<0, 0>>
      BY <1>2, <1>7, <2>2
    <3>2. r.ordinal = 0 /\ r.weekday = 0
      BY <1>1, <2>2
    <3> QED
      BY <3>1, <3>2
  <2> QED
    BY <2>1, <2>2
<1>9. (IF t.freq = "WEEKLY" THEN {p[2] : p \in t.days} ELSE {}) = r.weekdays
  <2>1. CASE r.freq = "WEEKLY"
    <3>1. {p[2] : p \in {<<0, day>> : day \in r.weekdays}} = r.weekdays
      <4> DEFINE S == {<<0, day>> : day \in r.weekdays}
      <4>1. \A day \in r.weekdays : <<0, day>> \in S /\ <<0, day>>[2] = day
        OBVIOUS
      <4>2. \A p \in S : p[2] \in r.weekdays
        OBVIOUS
      <4> HIDE DEF S
      <4>3. \A day \in r.weekdays : \E p \in S : p[2] = day
        BY <4>1
      <4>4. {p[2] : p \in S} = r.weekdays
        BY <4>2, <4>3
      <4> QED
        BY <4>4 DEF S
    <3> QED
      BY <1>2, <1>5, <2>1, <3>1
  <2>2. CASE r.freq # "WEEKLY"
    BY <1>1, <1>2, <2>2
  <2> QED
    BY <2>1, <2>2
<1>10. (IF t.interval = 0 THEN 1 ELSE t.interval) = r.interval
  BY <1>2, <1>3
<1>11. ParseRepeatRule(t) = r
  <2>1. ParseRepeatRule(t) =
          [freq |-> t.freq, interval |-> IF t.interval = 0 THEN 1 ELSE t.interval,
           weekdays |-> IF t.freq = "WEEKLY" THEN {p[2] : p \in t.days} ELSE {},
           ordinal |-> nth[1], weekday |-> nth[2],
           monthDay |-> t.monthDay, month |-> t.month]
    BY DEF ParseRepeatRule
  <2>2. nth[1] = r.ordinal /\ nth[2] = r.weekday
    BY <1>8
  <2>3. r = [freq |-> r.freq, interval |-> r.interval, weekdays |-> r.weekdays,
             ordinal |-> r.ordinal, weekday |-> r.weekday,
             monthDay |-> r.monthDay, month |-> r.month]
    BY <1>1 DEF RuleRecord
  <2> HIDE DEF nth
  <2> QED
    BY <1>2, <1>4, <1>9, <1>10, <2>1, <2>2, <2>3
<1>12. Anchored(r, startsOn) = r
  BY <1>1 DEF Anchored
<1>13. ValidText(t)
  <2>1. t.interval \in 0..MaxRepeatInterval
    BY <1>1, <1>2, <1>3, RepeatsAssumption
  <2>2. CASE r.freq = "WEEKLY"
    BY <1>1, <1>2, <1>4, <1>5, <2>1, <2>2 DEF ValidText
  <2>3. CASE r.freq = "MONTHLY" /\ r.ordinal # 0
    <3>1. Cardinality(t.days) = 1
      BY <1>2, <1>6, <2>3, FS_Singleton
    <3> QED
      BY <1>1, <1>2, <1>3, <1>4, <1>6, <2>1, <2>3, <3>1 DEF ValidText
  <2>4. CASE r.freq = "MONTHLY" /\ r.ordinal = 0
    <3>1. t.days = {} /\ Cardinality(t.days) = 0
      BY <1>2, <1>7, <2>4, FS_EmptySet
    <3> QED
      BY <1>1, <1>2, <1>4, <2>1, <2>4, <3>1 DEF ValidText
  <2>5. CASE r.freq = "YEARLY"
    BY <1>1, <1>2, <1>4, <1>7, <2>1, <2>5 DEF ValidText, daysInMonth
  <2>6. CASE r.freq \in {"DAILY", "CRON"}
    <3>1. t.freq = r.freq /\ t.days = {} /\ t.monthDay = 0 /\ t.month = 0
      BY <1>1, <1>2, <1>4, <1>7, <2>6
    <3> QED
      BY <2>1, <2>6, <3>1 DEF ValidText
  <2> QED
    BY <1>3, <2>2, <2>3, <2>4, <2>5, <2>6 DEF Frequency
<1> QED
  BY <1>11, <1>12, <1>13 DEF t

-------------------------------------------------------------------------------
(* Only a cron schedule ends: any other has a date within every interval.      *)

LEMMA MultipleComes ==
    ASSUME NEW n \in Nat \ {0}, NEW a \in Int, NEW b \in Int
    PROVE  \E k \in a + 1..a + n : (k - b) % n = 0
<1> DEFINE p == (a - b) \div n
           q == (a - b) % n
<1>1. p \in Int /\ q \in 0..n - 1 /\ a - b = n * p + q
  OBVIOUS
<1> HIDE DEF p, q
<1>2. a + n - q \in a + 1..a + n
  BY <1>1
<1>3. (a + n - q) - b = n * p + n /\ n * p + n = n * (p + 1)
  BY <1>1
<1>4. (n * (p + 1)) % n = 0
  BY <1>1
<1> QED
  BY <1>2, <1>3, <1>4

Goes(r) == RuleOK(r) /\ r.freq # "CRON" /\ (r.freq = "WEEKLY" => r.weekdays # {})

LEMMA FirstExists ==
    ASSUME NEW r, Goes(r), NEW startsOn \in Nat, NEW from \in Nat
    PROVE  FirstOnOrAfter(r, startsOn, from) \in Nat
<1> DEFINE start == Max({from, startsOn})
           n == r.interval
           first == FirstOnOrAfter(r, startsOn, from)
<1>1. start \in Nat /\ start >= startsOn /\ n \in Nat \ {0}
  BY StartIs DEF Goes, RuleOK
<1>2. ASSUME NEW S \in SUBSET Nat, S # {} PROVE Least(S) \in Nat
  BY <1>2, LeastIs
<1>3. CASE r.freq = "DAILY"
  <2>1. first = startsOn + ((start - startsOn + n - 1) \div n) * n
    BY <1>3 DEF FirstOnOrAfter
  <2>2. start - startsOn \in Nat
    BY <1>1
  <2> HIDE DEF start, n, first
  <2>3. ((start - startsOn + n - 1) \div n) * n \in Nat
    BY <1>1, <2>2, MultipleUpTo
  <2> QED
    BY <2>1, <2>3 DEF first
<1>4. CASE r.freq = "WEEKLY"
  <2> DEFINE S == {d \in start..start + 7 * (n + 1) - 1 :
                     /\ (weekIndex(d) - weekIndex(startsOn)) % n = 0
                     /\ Weekday(d) \in r.weekdays}
  <2>1. first = Least(S)
    BY <1>4 DEF FirstOnOrAfter
  <2> HIDE DEF first
  <2>2. PICK w \in 0..6 : w \in r.weekdays
    BY <1>4 DEF Goes, RuleOK
  <2>3. weekIndex(start) \in Int /\ weekIndex(startsOn) \in Int
    BY <1>1 DEF weekIndex
  <2> HIDE DEF n, start
  <2>4. PICK k \in weekIndex(start) + 1..weekIndex(start) + n :
          (k - weekIndex(startsOn)) % n = 0
    BY <1>1, <2>3, MultipleComes
  <2>5. 7 * k + w \in start..start + 7 * (n + 1) - 1
    BY <1>1, <2>2, <2>3, <2>4 DEF weekIndex
  <2>6. weekIndex(7 * k + w) = k /\ Weekday(7 * k + w) = w
    BY <2>2, <2>3, <2>4 DEF weekIndex, Weekday
  <2>7. S # {} /\ S \in SUBSET Nat
    BY <1>1, <2>2, <2>4, <2>5, <2>6
  <2> HIDE DEF S
  <2> QED
    BY <1>2, <2>1, <2>7 DEF first
<1>5. CASE r.freq = "MONTHLY"
  <2> DEFINE months == {m \in monthIndex(start)..monthIndex(start) + 2 * n + 1 :
                          (m - monthIndex(startsOn)) % n = 0}
             date(m) == monthlyDate(r, m \div 12, (m % 12) + 1)
             S == {d \in {date(m) : m \in months} : d >= start}
  <2>1. first = Least(S)
    BY <1>5 DEF FirstOnOrAfter
  <2> HIDE DEF first
  <2>2. /\ monthIndex(start) \in Nat /\ monthIndex(start) \div 12 \in Era
        /\ monthIndex(startsOn) \in Nat
    BY <1>1, MonthIndexIs, DayIs
  <2> HIDE DEF n, start
  <2>3. ASSUME NEW m \in months PROVE date(m) \in Nat /\ monthIndex(date(m)) = m
    <3>1. m \in Nat /\ m \div 12 \in Era /\ (m % 12) + 1 \in 1..12
      BY <2>2 DEF Era
    <3> HIDE DEF months
    <3>2. date(m) \in MonthOf(m \div 12, (m % 12) + 1)
      BY <1>5, <3>1, MonthlyDateFalls DEF Goes
    <3>3. date(m) \in Nat /\ Year(date(m)) = m \div 12 /\ Month(date(m)) = (m % 12) + 1
      BY <3>1, <3>2, DateIs
    <3> QED
      BY <3>1, <3>3 DEF monthIndex
  <2>4. PICK m \in monthIndex(start) + 1..monthIndex(start) + n :
          (m - monthIndex(startsOn)) % n = 0
    <3>1. monthIndex(start) \in Int /\ monthIndex(startsOn) \in Int
      BY <2>2
    <3> QED
      BY <1>1, <3>1, MultipleComes
  <2>5. m \in months /\ m > monthIndex(start)
    BY <1>1, <2>2, <2>4
  <2> HIDE DEF months, date
  <2>6. date(m) >= start
    BY <1>1, <2>2, <2>3, <2>5, DatesGoUp
  <2>7. S # {} /\ S \in SUBSET Nat
    BY <2>3, <2>5, <2>6
  <2> HIDE DEF S
  <2> QED
    BY <1>2, <2>1, <2>7 DEF first
<1>6. CASE r.freq = "YEARLY"
  <2> DEFINE years == {y \in Year(start)..Year(start) + 2 * n + 1 :
                         (y - Year(startsOn)) % n = 0}
             S == {d \in {YearlyDate(r, y) : y \in years} : d >= start}
  <2>1. first = Least(S)
    BY <1>6 DEF FirstOnOrAfter, YearlyDate
  <2> HIDE DEF first
  <2>2. Year(start) \in Era /\ Year(startsOn) \in Era /\ r.month \in 1..12
    BY <1>1, <1>6, DayIs DEF Goes, RuleOK
  <2> HIDE DEF n, start
  <2>3. ASSUME NEW y \in years PROVE YearlyDate(r, y) \in Nat /\ Year(YearlyDate(r, y)) = y
    <3>1. y \in Era
      BY <2>2 DEF Era
    <3> HIDE DEF years
    <3>2. YearlyDate(r, y) \in MonthOf(y, r.month)
      BY <1>6, <3>1, YearlyDateFalls DEF Goes
    <3> QED
      BY <2>2, <3>1, <3>2, DateIs
  <2>4. PICK y \in Year(start) + 1..Year(start) + n : (y - Year(startsOn)) % n = 0
    <3>1. Year(start) \in Int /\ Year(startsOn) \in Int
      BY <2>2 DEF Era
    <3> QED
      BY <1>1, <3>1, MultipleComes
  <2>5. y \in years /\ y > Year(start) /\ Year(start) \in Int
    BY <1>1, <2>2, <2>4 DEF Era
  <2> HIDE DEF years
  <2>6. YearlyDate(r, y) >= start
    BY <1>1, <2>2, <2>3, <2>5, DatesGoUp
  <2>7. S # {} /\ S \in SUBSET Nat
    BY <2>3, <2>5, <2>6
  <2> HIDE DEF S
  <2> QED
    BY <1>2, <2>1, <2>7 DEF first
<1> QED
  BY <1>3, <1>4, <1>5, <1>6 DEF Goes, RuleOK, Frequency

\* FirstOnOrAfter is exact: but for a cron expression it always finds a date, one on
\* or after the date it is given that falls on the rule, and none does before it.
THEOREM FirstDateIsFound ==
    ASSUME NEW r, Goes(r), NEW startsOn \in Nat, NEW from \in Nat
    PROVE  LET f == FirstOnOrAfter(r, startsOn, from) IN
           /\ f \in Nat /\ f >= from /\ FallsOn(r, startsOn, f)
           /\ \A d \in Nat : from <= d /\ d < f => ~FallsOn(r, startsOn, d)
<1>1. FirstOnOrAfter(r, startsOn, from) \in Nat
  BY FirstExists
<1>2. IsFirst(r, startsOn, from, FirstOnOrAfter(r, startsOn, from))
  BY FirstIsFirst DEF Goes
<1> QED
  BY <1>1, <1>2 DEF IsFirst, NoDate

LEMMA PlanGoesOn ==
    ASSUME NEW r, Goes(r), NEW startsOn \in Nat, NEW current \in Nat,
           NEW completedOn \in Nat
    PROVE  PlanAfterCompletion(r, startsOn, current, completedOn).next \in Nat
<1> DEFINE N == MaxRepeatPlanSteps
           date == PlanDates(r, startsOn, current, completedOn)
           k == Cardinality({n \in 0..N - 1 : Missed(date[n], completedOn)})
<1>1. /\ date[0] = NextAfter(r, startsOn, current)
      /\ \A n \in 1..N :
           date[n] = IF Missed(date[n - 1], completedOn)
                       THEN NextAfter(r, startsOn, date[n - 1]) ELSE date[n - 1]
  BY PlanDatesAre DEF Goes
<1>2. k \in 0..N
  <2>1. Walked(r, startsOn, current, completedOn, date, k)
    BY PlanWalks DEF Goes
  <2> QED
    BY <2>1 DEF Walked
<1>3. PlanAfterCompletion(r, startsOn, current, completedOn).next =
        IF Missed(date[k], completedOn)
          THEN FirstOnOrAfter(r, startsOn, completedOn) ELSE date[k]
  BY DEF PlanAfterCompletion
<1>4. N \in Nat
  BY RepeatsAssumption
<1> HIDE DEF N, date, k
<1>5. \A d \in Nat : NextAfter(r, startsOn, d) \in Nat
  BY FirstExists DEF NextAfter
<1>6. \A n \in 0..N : date[n] \in Nat
  <2> DEFINE Ends == {n \in 0..N : date[n] \notin Nat}
  <2> SUFFICES ASSUME Ends # {} PROVE FALSE
    OBVIOUS
  <2>1. PICK n \in Ends : \A m \in Ends : n <= m
    <3>1. Ends \in SUBSET Nat
      BY <1>4
    <3> HIDE DEF Ends
    <3> QED
      BY <3>1, LeastExists
  <2>2. n # 0
    BY <1>1, <1>5, <2>1
  <2>3. n \in 1..N /\ n - 1 \in 0..N /\ n - 1 \notin Ends
    BY <1>4, <2>1, <2>2
  <2>4. date[n - 1] \in Nat
    BY <2>3
  <2> QED
    BY <1>1, <1>5, <2>1, <2>3, <2>4
<1> QED
  BY <1>2, <1>3, <1>6, FirstExists

-------------------------------------------------------------------------------
(* A series *)

RepeatsInv ==
    /\ RepeatsTypeOK
    /\ phase # "none" =>
         /\ occurrence \in Nat /\ stored.startsOn \in Nat
         /\ Filled(asked) /\ stored.text = Text(asked)
    /\ NoRepetitionLost

LEMMA RepeatsInvInit == RepeatsInit => RepeatsInv
<1> SUFFICES ASSUME RepeatsInit PROVE RepeatsInv
  OBVIOUS
<1>1. ValidText(stored.text)
  <2>1. stored.text.freq = "DAILY" /\ stored.text.interval = 0 /\ stored.text.days = {}
        /\ stored.text.monthDay = 0 /\ stored.text.month = 0
    BY DEF RepeatsInit, NoSchedule, Shorthand
  <2> QED
    BY <2>1, RepeatsAssumption DEF ValidText
<1>2. /\ phase = "none" /\ occurrence = NoDate /\ changed = FALSE /\ moves = 0
      /\ followed = NoCompletion /\ skipped = NothingSkipped
  BY DEF RepeatsInit
<1>3. RepeatsTypeOK
  <2>1. Len(skipped.dates) = 0
    BY <1>2 DEF NothingSkipped
  <2>2. Len(skipped.dates) <= MaxRepeatSkippedDates /\ moves \in 0..Moves
    BY <1>2, <2>1, RepeatsAssumption
  <2>3. phase \in {"none"} /\ occurrence \in {NoDate} /\ changed \in BOOLEAN
    BY <1>2
  <2> QED
    BY <1>1, <2>2, <2>3 DEF RepeatsTypeOK
<1>4. NoRepetitionLost
  BY <1>2 DEF NoRepetitionLost
<1> QED
  BY <1>2, <1>3, <1>4 DEF RepeatsInv

LEMMA SetRepeatKeeps ==
    ASSUME RepeatsInv, NEW text \in RuleText, NEW startsOn \in Nat,
           SetRepeat(text, startsOn)
    PROVE  RepeatsInv'
<1> DEFINE rule == Anchored(ParseRepeatRule(text), startsOn)
           first == FirstOnOrAfter(rule, startsOn, startsOn)
<1>1. /\ moves < Moves /\ ValidText(text) /\ first # NoDate /\ occurrence' = first
      /\ stored' = [text |-> Text(rule), startsOn |-> startsOn]
      /\ asked' = rule /\ phase' = "live" /\ changed' = TRUE /\ moves' = moves + 1
      /\ skipped' = skipped /\ followed' = followed
  BY DEF SetRepeat
<1>2. Filled(rule)
  <2>1. text \in TextRecord /\ IsFiniteSet(text.days)
    BY RepeatsAssumption DEF TextRecord
  <2> QED
    BY <1>1, <2>1, AnchoredIsFilled
<1> HIDE DEF rule
<1>3. ValidText(Text(rule))
  BY <1>2, StoredAndRead
<1>4. IsFirst(rule, startsOn, startsOn, first)
  BY <1>2, FilledIsOK, FirstIsFirst
<1> HIDE DEF first
<1>5. /\ first \in Nat /\ first >= startsOn /\ FallsOn(rule, startsOn, first)
      /\ \A d \in Nat : startsOn <= d /\ d < first => ~FallsOn(rule, startsOn, d)
  BY <1>1, <1>4 DEF IsFirst
<1>6. stored'.startsOn = startsOn /\ stored'.text = Text(rule)
  BY <1>1
<1>7. RepeatsTypeOK'
  BY <1>1, <1>3, <1>5, <1>6, RepeatsAssumption DEF RepeatsInv, RepeatsTypeOK
<1>8. NoRepetitionLost'
  <2>1. \A d \in startsOn..first - 1 : ~FallsOn(rule, startsOn, d)
    BY <1>5
  <2>2. FallsOn(asked', stored'.startsOn, occurrence') /\ OnItsDate'
    BY <1>1, <1>5, <1>6, <2>1 DEF OnItsDate
  <2>3. IF followed' = NoCompletion THEN skipped' = NothingSkipped ELSE SkippedAreCounted'
    BY <1>1 DEF RepeatsInv, NoRepetitionLost, SkippedAreCounted
  <2> QED
    BY <1>1, <2>2, <2>3 DEF NoRepetitionLost
<1> QED
  BY <1>1, <1>2, <1>5, <1>6, <1>7, <1>8 DEF RepeatsInv

LEMMA StopRepeatKeeps == RepeatsInv /\ StopRepeat => RepeatsInv'
  BY DEF RepeatsInv, RepeatsTypeOK, StopRepeat, NoRepetitionLost, OnItsDate,
         SkippedAreCounted

LEMMA CompleteKeeps ==
    ASSUME RepeatsInv, NEW completedOn \in Nat, Complete(completedOn)
    PROVE  RepeatsInv'
<1> DEFINE rule == Anchored(ParseRepeatRule(stored.text), stored.startsOn)
           plan == PlanAfterCompletion(rule, stored.startsOn, occurrence, completedOn)
           missed == Between(rule, stored.startsOn, occurrence, plan.next)
           count == Len(plan.skipped)
           named == Min({count, MaxRepeatSkippedDates})
<1>1. /\ phase = "live" /\ moves < Moves /\ moves' = moves + 1
      /\ stored' = stored /\ asked' = asked
      /\ plan.next = NoDate =>
           phase' = "ended" /\ UNCHANGED <<occurrence, skipped, followed, changed>>
      /\ plan.next # NoDate =>
           /\ phase' = "live" /\ occurrence' = plan.next /\ changed' = FALSE
           /\ skipped' = [count |-> count, dates |-> SubSeq(plan.skipped, 1, named)]
           /\ followed' = [after |-> occurrence, on |-> completedOn, rule |-> asked,
                           startsOn |-> stored.startsOn, next |-> plan.next]
  BY DEF Complete
<1>2. occurrence \in Nat /\ stored.startsOn \in Nat
  BY <1>1 DEF RepeatsInv
<1>3. rule = asked /\ Filled(asked)
  BY <1>1, StoredAndRead DEF RepeatsInv
<1>4. PlanIs(rule, stored.startsOn, occurrence, completedOn, plan)
  BY <1>2, <1>3, FilledIsOK, PlanIsSound
<1>5. plan.next = NoDate => asked.freq = "CRON"
  <2> SUFFICES ASSUME asked.freq # "CRON" PROVE plan.next # NoDate
    OBVIOUS
  <2>1. Goes(asked)
    BY <1>3, FilledIsOK DEF Goes, Filled
  <2>2. plan.next \in Nat
    BY <1>2, <1>3, <2>1, PlanGoesOn
  <2> QED
    BY <2>2 DEF NoDate
<1> HIDE DEF plan, rule
\* The schedule has no more dates.
<1>6. CASE plan.next = NoDate
  BY <1>1, <1>5, <1>6, RepeatsAssumption
  DEF RepeatsInv, RepeatsTypeOK, NoRepetitionLost, OnItsDate, SkippedAreCounted
\* It has: the next repetition is made.
<1>7. CASE plan.next # NoDate
  <2>1. /\ plan.skipped \in Seq(Nat) /\ plan.next \in Nat
        /\ plan.next > occurrence /\ FallsOn(rule, stored.startsOn, plan.next)
        /\ count = Min({Cardinality(missed), MaxRepeatPlanSteps})
        /\ \A d \in missed : d < completedOn
        /\ plan.next >= completedOn
        /\ \A i \in 1..count :
             /\ plan.skipped[i] \in missed
             /\ {d \in missed : d < plan.skipped[i]} = {plan.skipped[j] : j \in 1..i - 1}
    BY <1>4, <1>7 DEF PlanIs, Date
  <2>2. count \in Nat /\ named \in 0..count /\ named <= MaxRepeatSkippedDates
    <3>1. count \in Nat /\ MaxRepeatSkippedDates \in Nat
      BY <2>1, RepeatsAssumption
    <3> HIDE DEF count
    <3>2. named = IF count <= MaxRepeatSkippedDates THEN count ELSE MaxRepeatSkippedDates
      BY <3>1, MinOfTwo
    <3> QED
      BY <3>1, <3>2
  <2>3. /\ Len(skipped'.dates) = named /\ DOMAIN skipped'.dates = 1..named
        /\ \A i \in 1..named : skipped'.dates[i] = plan.skipped[i]
    <3> HIDE DEF named
    <3>1. skipped'.dates = SubSeq(plan.skipped, 1, named)
      BY <1>1, <1>7
    <3>2. skipped'.dates = [i \in 1..named |-> plan.skipped[i]]
      BY <2>1, <2>2, <3>1
    <3> QED
      BY <2>2, <3>2
  <2>4. skipped'.count = count
    BY <1>1, <1>7
  <2>5. /\ followed'.after = occurrence /\ followed'.on = completedOn
        /\ followed'.rule = asked /\ followed'.startsOn = stored.startsOn
        /\ followed'.next = plan.next
    BY <1>1, <1>7
  <2>6. followed' # NoCompletion
    BY <1>2, <2>5 DEF NoCompletion, NoDate
  <2>7. SkippedAreCounted'
    <3> DEFINE lost == {d \in occurrence + 1..plan.next - 1 :
                          FallsOn(rule, stored.startsOn, d)}
    <3>1. lost = missed
      BY DEF Between
    <3> HIDE DEF lost, missed, count
    <3>2. \A i \in 1..named :
            {d \in lost : d < skipped'.dates[i]} = {skipped'.dates[j] : j \in 1..i - 1}
      <4> TAKE i \in 1..named
      <4>1. i \in 1..count /\ \A j \in 1..i - 1 : j \in 1..named
        BY <2>2
      <4>2. {skipped'.dates[j] : j \in 1..i - 1} = {plan.skipped[j] : j \in 1..i - 1}
        BY <2>3, <4>1
      <4> QED
        BY <2>1, <2>3, <3>1, <4>1, <4>2
    <3>3. ToSet(skipped'.dates) \subseteq lost
      <4>1. \A i \in 1..named : i \in 1..count
        BY <2>2
      <4>2. \A i \in 1..named : skipped'.dates[i] \in lost
        BY <2>1, <2>3, <3>1, <4>1
      <4> HIDE DEF named
      <4> QED
        BY <2>3, <4>2 DEF ToSet
    <3>4. /\ skipped'.count = Min({Cardinality(lost), MaxRepeatPlanSteps})
          /\ \A d \in lost : d < followed'.on
          /\ followed'.next >= followed'.on
          /\ Len(skipped'.dates) = Min({skipped'.count, MaxRepeatSkippedDates})
      BY <2>1, <2>3, <2>4, <2>5, <3>1
    <3>5. {d \in followed'.after + 1..followed'.next - 1 :
             FallsOn(followed'.rule, followed'.startsOn, d)} = lost
      BY <1>3, <2>5 DEF lost
    <3> HIDE DEF named
    <3> QED
      BY <2>3, <3>2, <3>3, <3>4, <3>5 DEF SkippedAreCounted
  <2>8. NoRepetitionLost'
    <3>1. FallsOn(asked', stored'.startsOn, occurrence') /\ OnItsDate'
      BY <1>1, <1>3, <1>7, <2>1, <2>5 DEF OnItsDate
    <3> QED
      BY <1>1, <1>7, <2>6, <2>7, <3>1 DEF NoRepetitionLost
  <2> HIDE DEF missed, count, named
  <2>9. RepeatsTypeOK'
    <3>1. ValidText(stored.text) /\ moves \in 0..Moves
      BY DEF RepeatsInv, RepeatsTypeOK
    <3>2. moves' \in 0..Moves
      BY <1>1, <3>1, RepeatsAssumption
    <3>3. ValidText(stored'.text)
      BY <1>1, <3>1
    <3> QED
      BY <1>1, <1>7, <2>1, <2>2, <2>3, <3>2, <3>3 DEF RepeatsTypeOK
  <2> QED
    BY <1>1, <1>7, <2>1, <2>8, <2>9 DEF RepeatsInv
<1> QED
  BY <1>6, <1>7

LEMMA RepeatsInvStep == RepeatsInv /\ [RepeatsNext]_repeatVars => RepeatsInv'
<1> SUFFICES ASSUME RepeatsInv, [RepeatsNext]_repeatVars PROVE RepeatsInv'
  OBVIOUS
<1>1. ASSUME NEW text \in RuleText, NEW startsOn \in StartsOn, SetRepeat(text, startsOn)
      PROVE  RepeatsInv'
  BY <1>1, SetRepeatKeeps, RepeatsAssumption
<1>2. ASSUME NEW text \in RuleText, phase = "live", SetRepeat(text, occurrence)
      PROVE  RepeatsInv'
  BY <1>2, SetRepeatKeeps DEF RepeatsInv
<1>3. CASE StopRepeat
  BY <1>3, StopRepeatKeeps
<1>4. ASSUME NEW late \in Lateness, occurrence + late >= 0, Complete(occurrence + late)
      PROVE  RepeatsInv'
  <2>1. occurrence + late \in Nat
    BY <1>4, RepeatsAssumption DEF RepeatsInv, Complete
  <2> QED
    BY <1>4, <2>1, CompleteKeeps
<1>5. CASE UNCHANGED repeatVars
  BY <1>5 DEF RepeatsInv, RepeatsTypeOK, NoRepetitionLost, OnItsDate, SkippedAreCounted,
              repeatVars
<1> QED
  BY <1>1, <1>2, <1>3, <1>4, <1>5 DEF RepeatsNext

LEMMA RepeatsInvSays == RepeatsInv => RepeatsTypeOK /\ NoRepetitionLost
  BY DEF RepeatsInv

\* Whatever rules are asked for, whenever they start, however they are changed,
\* stopped and picked up again, and however early or late each repetition is
\* completed, a series stays within its types, no repetition of it is lost without
\* being counted, and the notice names the first that were skipped
\* (PlanAfterCompletion, FirstOnOrAfter, Anchored, String, applyIssueRepeat).
THEOREM RepetitionsAreNeverLost == RepeatsSpec => [](RepeatsTypeOK /\ NoRepetitionLost)
  BY RepeatsInvInit, RepeatsInvStep, RepeatsInvSays, PTL DEF RepeatsSpec

===============================================================================
