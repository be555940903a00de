------------------------ MODULE FileSelection_proofs ------------------------
(***************************************************************************)
(* From time options to flow files, for all times, time zones, paths and   *)
(* directories: tm_diff is the difference of calendar times, begin and end *)
(* are what the options mean, and the list of files is what paths and      *)
(* times ask for.                                                          *)
(***************************************************************************)
EXTENDS FileSelection, SumTheorems, SequenceTheorems

----------------------------------------------------------------------------
(* The calendar.                                                           *)

\* A year has a leap day or it has none.
LEMMA LeapStep ==
    \A y \in Int : LeapsBefore(y + 1) = LeapsBefore(y) + (IF IsLeap(y) THEN 1 ELSE 0)
  BY DEF LeapsBefore, IsLeap

\* The first day of a year.
NewYearDay(y) == DayOf(y, 0, 1)

\* Days before the months.
LEMMA MonthsType ==
    /\ \A m \in 0..11 : DaysBefore[m + 1] \in 0..334
    /\ DaysBefore[1] = 0 /\ DaysBefore[2] = 31 /\ DaysBefore[3] = 59
    /\ \A m, n \in 0..11 : m < n => DaysBefore[m + 1] + 28 <= DaysBefore[n + 1]
<1>1. DaysBefore = <<0, 31, 59, 90, 120, 151, 181, 212, 243, 273, 304, 334>>
  BY DEF DaysBefore
<1>2. \A m \in 0..11 : m = 0 \/ m = 1 \/ m = 2 \/ m = 3 \/ m = 4 \/ m = 5 \/ m = 6 \/ m = 7
                       \/ m = 8 \/ m = 9 \/ m = 10 \/ m = 11
  OBVIOUS
<1>3. /\ DaysBefore[1] = 0 /\ DaysBefore[2] = 31 /\ DaysBefore[3] = 59 /\ DaysBefore[4] = 90
      /\ DaysBefore[5] = 120 /\ DaysBefore[6] = 151 /\ DaysBefore[7] = 181 /\ DaysBefore[8] = 212
      /\ DaysBefore[9] = 243 /\ DaysBefore[10] = 273 /\ DaysBefore[11] = 304
      /\ DaysBefore[12] = 334
  BY <1>1
<1>4. \A m \in 0..11 : DaysBefore[m + 1] \in 0..334
  BY <1>2, <1>3
<1>5. \A m, n \in 0..11 : m < n => DaysBefore[m + 1] + 28 <= DaysBefore[n + 1]
  BY <1>2, <1>3
<1> QED
  BY <1>3, <1>4, <1>5

\* A year has 365 or 366 days.
LEMMA YearStep ==
    \A y \in Int : /\ NewYearDay(y) \in Int
                   /\ NewYearDay(y + 1) = NewYearDay(y) + (IF IsLeap(y) THEN 366 ELSE 365)
<1> TAKE y \in Int
<1>1. \A z \in Int : NewYearDay(z) = 365 * (z - BaseYear) + LeapsBefore(z) - LeapsBefore(BaseYear)
  <2>1. DaysBefore[1] = 0
    BY MonthsType
  <2> QED
    BY <2>1, CalendarAssumption DEF NewYearDay, DayOf, LeapsBefore
<1>2. LeapsBefore(y) \in Int /\ LeapsBefore(BaseYear) \in Int
  BY CalendarAssumption DEF LeapsBefore
<1>3. LeapsBefore(y + 1) = LeapsBefore(y) + (IF IsLeap(y) THEN 1 ELSE 0)
  BY LeapStep
<1> QED
  BY <1>1, <1>2, <1>3, CalendarAssumption

\* Years after the first one, and before it.
LEMMA YearsBound ==
    \A n \in Nat : /\ 365 * n <= NewYearDay(BaseYear + n) /\ NewYearDay(BaseYear + n) <= 366 * n
                   /\ -366 * n <= NewYearDay(BaseYear - n) /\ NewYearDay(BaseYear - n) <= -365 * n
<1> DEFINE T == {n \in Nat :
                   /\ 365 * n <= NewYearDay(BaseYear + n) /\ NewYearDay(BaseYear + n) <= 366 * n
                   /\ -366 * n <= NewYearDay(BaseYear - n) /\ NewYearDay(BaseYear - n) <= -365 * n}
<1>0. BaseYear \in Int
  BY CalendarAssumption
<1>1. 0 \in T
  <2>1. NewYearDay(BaseYear) = 0
    BY <1>0, MonthsType DEF NewYearDay, DayOf, LeapsBefore
  <2>2. BaseYear + 0 = BaseYear /\ BaseYear - 0 = BaseYear
    BY <1>0
  <2> QED
    BY <2>1, <2>2
<1>2. ASSUME NEW n \in Nat, n \in T PROVE n + 1 \in T
  <2>1. PICK y, z : y = BaseYear + n /\ z = BaseYear - (n + 1)
    OBVIOUS
  <2>2. y \in Int /\ z \in Int /\ z + 1 = BaseYear - n /\ y + 1 = BaseYear + (n + 1)
    BY <1>0, <2>1
  <2>3. /\ NewYearDay(y) \in Int /\ NewYearDay(z) \in Int
        /\ NewYearDay(y + 1) - NewYearDay(y) \in {365, 366}
        /\ NewYearDay(z + 1) - NewYearDay(z) \in {365, 366}
        /\ NewYearDay(y + 1) \in Int /\ NewYearDay(z + 1) \in Int
    BY <2>2, YearStep
  <2>4. /\ 365 * n <= NewYearDay(y) /\ NewYearDay(y) <= 366 * n
        /\ -366 * n <= NewYearDay(z + 1) /\ NewYearDay(z + 1) <= -365 * n
    BY <1>2, <2>1, <2>2
  <2>5. /\ 365 * (n + 1) <= NewYearDay(y + 1) /\ NewYearDay(y + 1) <= 366 * (n + 1)
        /\ -366 * (n + 1) <= NewYearDay(z) /\ NewYearDay(z) <= -365 * (n + 1)
    BY <2>3, <2>4
  <2> QED
    BY <2>1, <2>2, <2>5
<1>3. Nat \subseteq T
  <2> HIDE DEF T
  <2> QED
    BY <1>1, <1>2, NatInduct
<1> QED
  BY <1>3

\* Every day is in a year, and that year is among those YearOf looks at.
LEMMA YearExists ==
    \A d \in Int : /\ YearOf(d) \in Int
                   /\ NewYearDay(YearOf(d)) <= d /\ d < NewYearDay(YearOf(d) + 1)
<1> TAKE d \in Int
<1>0. BaseYear \in Int
  BY CalendarAssumption
<1>1. PICK a, b : a = d \div 366 /\ b = d \div 365
  OBVIOUS
<1>2. /\ a \in Int /\ b \in Int
      /\ 366 * a <= d /\ d < 366 * (a + 1)
      /\ 365 * b <= d /\ d < 365 * (b + 1)
  BY <1>1
<1>3. PICK S : S = (BaseYear + a - 1)..(BaseYear + b + 1) \cup (BaseYear + b - 1)..(BaseYear + a + 1)
  OBVIOUS
<1>4. \E y \in S : NewYearDay(y) <= d /\ d < NewYearDay(y + 1)
  <2>1. CASE d >= 0
    <3> DEFINE T == {k \in Nat : d < NewYearDay(BaseYear + k)}
    <3>1. b + 1 \in Nat /\ 365 * (b + 1) <= NewYearDay(BaseYear + (b + 1))
      BY <1>2, <2>1, YearsBound
    <3>2. NewYearDay(BaseYear + (b + 1)) \in Int
      BY <1>0, <1>2, YearStep
    <3>3. b + 1 \in T
      BY <1>2, <3>1, <3>2
    <3>4. PICK k \in T : \A m \in T : k <= m
      BY <3>3, LeastNat
    <3>5. k \in Nat /\ d < NewYearDay(BaseYear + k) /\ NewYearDay(BaseYear + k) <= 366 * k
      BY <3>4, YearsBound
    <3>6. NewYearDay(BaseYear + k) \in Int
      BY <1>0, <3>5, YearStep
    <3>7. a < k /\ k <= b + 1 /\ k # 0
      BY <1>2, <2>1, <3>3, <3>4, <3>5, <3>6
    <3>8. PICK y : y = BaseYear + (k - 1)
      OBVIOUS
    <3>9. y \in S /\ y + 1 = BaseYear + k /\ y \in Int /\ k - 1 \in Nat
      BY <1>0, <1>2, <1>3, <3>5, <3>7, <3>8
    <3>10. k - 1 \notin T
      BY <3>4, <3>5, <3>7
    <3>11. NewYearDay(y) <= d
      <4>1. ~(d < NewYearDay(y)) /\ NewYearDay(y) \in Int
        BY <3>8, <3>9, <3>10, YearStep
      <4> QED
        BY <4>1
    <3> QED
      BY <3>5, <3>9, <3>11
  <2>2. CASE d < 0
    <3> DEFINE T == {k \in Nat : NewYearDay(BaseYear - k) <= d}
    <3>1. -b \in Nat /\ NewYearDay(BaseYear - (-b)) <= -365 * (-b)
      BY <1>2, <2>2, YearsBound
    <3>2. NewYearDay(BaseYear - (-b)) \in Int
      BY <1>0, <1>2, YearStep
    <3>3. -b \in T
      BY <1>2, <3>1, <3>2
    <3>4. PICK k \in T : \A m \in T : k <= m
      BY <3>3, LeastNat
    <3>5. k \in Nat /\ NewYearDay(BaseYear - k) <= d /\ -366 * k <= NewYearDay(BaseYear - k)
      BY <3>4, YearsBound
    <3>6. NewYearDay(BaseYear - k) \in Int /\ NewYearDay(BaseYear - 0) >= 0
      BY <1>0, <3>5, YearStep, YearsBound
    <3>7. -k <= a /\ k <= -b
      BY <1>2, <3>3, <3>4, <3>5, <3>6
    <3>8. PICK y : y = BaseYear - k
      OBVIOUS
    <3>9. k # 0
      <4>1. -366 * 0 <= NewYearDay(BaseYear - 0) /\ NewYearDay(BaseYear - 0) \in Int
        BY <1>0, YearsBound, YearStep
      <4> QED
        BY <2>2, <3>5, <4>1
    <3>10. y \in S /\ y + 1 = BaseYear - (k - 1) /\ y \in Int /\ k - 1 \in Nat
      BY <1>0, <1>2, <1>3, <3>5, <3>7, <3>8, <3>9
    <3>11. k - 1 \notin T
      BY <3>4, <3>5, <3>9
    <3>12. d < NewYearDay(y + 1)
      <4>1. ~(NewYearDay(y + 1) <= d) /\ NewYearDay(y + 1) \in Int
        BY <3>10, <3>11, YearStep
      <4> QED
        BY <4>1
    <3> QED
      BY <3>5, <3>8, <3>10, <3>12
  <2> QED
    BY <2>1, <2>2
<1>5. YearOf(d) = CHOOSE y \in S : NewYearDay(y) <= d /\ d < NewYearDay(y + 1)
  BY <1>1, <1>3 DEF YearOf, NewYearDay
<1>6. S \subseteq Int
  BY <1>0, <1>2, <1>3
<1> QED
  BY <1>4, <1>5, <1>6

\* The days tm_diff counts are those of the calendar: quarters, hundreds and four
\* hundreds of years are the leap years.
LEMMA DaysCounted ==
    ASSUME NEW y \in Int, NEW z \in Int, NEW m \in Int, NEW n \in Int,
           NEW a, NEW b, a.year = y, b.year = z, a.yday = m, b.yday = n
    PROVE  DiffDays(a, b) = (NewYearDay(y) + m) - (NewYearDay(z) + n)
<1>1. \A x \in Int : /\ YearsBy4(x) = (x - 1) \div 4
                     /\ ((x - 1) \div 4) \div 25 = (x - 1) \div 100
                     /\ ((x - 1) \div 100) \div 4 = (x - 1) \div 400
  BY DEF YearsBy4
<1>2. \A x \in Int : NewYearDay(x) = 365 * (x - BaseYear) + LeapsBefore(x) - LeapsBefore(BaseYear)
  <2>1. DaysBefore[1] = 0
    BY MonthsType
  <2> QED
    BY <2>1, CalendarAssumption DEF NewYearDay, DayOf, LeapsBefore
<1>3. \A x \in Int : LeapsBefore(x) = (x - 1) \div 4 - (x - 1) \div 100 + (x - 1) \div 400
  BY DEF LeapsBefore
<1>4. PICK y4, y100, y400, z4, z100, z400 :
         /\ y4 = (y - 1) \div 4 /\ y100 = (y - 1) \div 100 /\ y400 = (y - 1) \div 400
         /\ z4 = (z - 1) \div 4 /\ z100 = (z - 1) \div 100 /\ z400 = (z - 1) \div 400
  OBVIOUS
<1>5. y4 \in Int /\ y100 \in Int /\ y400 \in Int /\ z4 \in Int /\ z100 \in Int /\ z400 \in Int
  BY <1>4
<1>6. /\ YearsBy4(y) = y4 /\ y4 \div 25 = y100 /\ y100 \div 4 = y400
      /\ YearsBy4(z) = z4 /\ z4 \div 25 = z100 /\ z100 \div 4 = z400
  BY <1>1, <1>4
<1>7. DiffDays(a, b) = 365 * (y - z) + (y4 - z4) - (y100 - z100) + (y400 - z400) + (m - n)
  BY <1>6 DEF DiffDays
<1>8. /\ NewYearDay(y) = 365 * (y - BaseYear) + (y4 - y100 + y400) - LeapsBefore(BaseYear)
      /\ NewYearDay(z) = 365 * (z - BaseYear) + (z4 - z100 + z400) - LeapsBefore(BaseYear)
  BY <1>2, <1>3, <1>4
<1>9. BaseYear \in Int /\ LeapsBefore(BaseYear) \in Int
  BY CalendarAssumption DEF LeapsBefore
<1> QED
  BY <1>5, <1>7, <1>8, <1>9

\* Days, hours, minutes and seconds of a calendar time.
AddsUp(x, q, h, mi, se) ==
    /\ q \in Int /\ h \in 0..23 /\ mi \in 0..59 /\ se \in 0..59
    /\ x = 86400 * q + 3600 * h + 60 * mi + se

ClockParts(x, q, h, mi, se) ==
    /\ AddsUp(x, q, h, mi, se)
    /\ q = x \div Day /\ h = (x % Day) \div 3600 /\ mi = (x % 3600) \div 60 /\ se = x % 60

\* Every time has a day, an hour, a minute and a second.
LEMMA ClockPartsExist == ASSUME NEW x \in Int
                         PROVE  \E q, h, mi, se : ClockParts(x, q, h, mi, se)
<1>1. Day = 86400
  BY DEF Day
<1>2. PICK q, u \in Int : q = x \div 86400 /\ u = x % 86400 /\ x = 86400 * q + u
  OBVIOUS
<1>3. PICK h, v \in Int : h = u \div 3600 /\ v = u % 3600 /\ u = 3600 * h + v
  OBVIOUS
<1>4. PICK mi, se \in Int : mi = v \div 60 /\ se = v % 60 /\ v = 60 * mi + se
  OBVIOUS
<1>5. x % 3600 = v
  <2>1. x = 3600 * (24 * q + h) + v /\ v \in 0..3599
    BY <1>2, <1>3
  <2> QED
    BY <2>1, <1>2, <1>3
<1>6. x % 60 = se
  <2>1. PICK w \in Int : w = 60 * (24 * q + h) + mi
    BY <1>2, <1>3, <1>4
  <2>2. x = 60 * w + se /\ se \in 0..59
    BY <2>1, <1>2, <1>3, <1>4
  <2> QED
    BY <2>2
<1>7. h \in 0..23 /\ mi \in 0..59 /\ se \in 0..59
  BY <1>2, <1>3, <1>4
<1>8. ClockParts(x, q, h, mi, se)
  BY <1>1, <1>2, <1>3, <1>4, <1>5, <1>6, <1>7 DEF ClockParts, AddsUp
<1> QED
  BY <1>8

\* tm_diff of broken-down times is the difference of the calendar times, whatever
\* the years.
LEMMA DiffExact == \A s, t \in Int : TmDiff(Gmtime(s), Gmtime(t)) = s - t
<1> TAKE s, t \in Int
<1>1. PICK c, d : c = s \div Day /\ d = t \div Day
  OBVIOUS
<1>2. c \in Int /\ d \in Int
  BY <1>1 DEF Day
<1>3. PICK y, z : y = YearOf(c) /\ z = YearOf(d)
  OBVIOUS
<1>4. y \in Int /\ z \in Int /\ NewYearDay(y) \in Int /\ NewYearDay(z) \in Int
  BY <1>2, <1>3, YearExists, YearStep
<1>5. PICK a, b : a = Gmtime(s) /\ b = Gmtime(t)
  OBVIOUS
<1>6. /\ a.year = y /\ a.yday = c - NewYearDay(y)
      /\ b.year = z /\ b.yday = d - NewYearDay(z)
      /\ a.hour = (s % Day) \div 3600 /\ a.min = (s % 3600) \div 60 /\ a.sec = s % 60
      /\ b.hour = (t % Day) \div 3600 /\ b.min = (t % 3600) \div 60 /\ b.sec = t % 60
  BY <1>1, <1>3, <1>5 DEF Gmtime, NewYearDay
<1>7. DiffDays(a, b) = c - d
  <2>1. PICK m, n : m = c - NewYearDay(y) /\ n = d - NewYearDay(z)
    OBVIOUS
  <2>2. DiffDays(a, b) = (NewYearDay(y) + m) - (NewYearDay(z) + n)
    BY <1>2, <1>4, <1>6, <2>1, DaysCounted
  <2> QED
    BY <1>2, <1>4, <2>1, <2>2
<1>8. PICK sq, sh, sm, ss : ClockParts(s, sq, sh, sm, ss)
  BY ClockPartsExist
<1>9. PICK tq, th, tm, ts : ClockParts(t, tq, th, tm, ts)
  BY ClockPartsExist
<1>10. /\ a.hour = sh /\ a.min = sm /\ a.sec = ss /\ c = sq
       /\ b.hour = th /\ b.min = tm /\ b.sec = ts /\ d = tq
  BY <1>1, <1>6, <1>8, <1>9 DEF ClockParts
<1>11. /\ s = 86400 * sq + 3600 * sh + 60 * sm + ss
       /\ t = 86400 * tq + 3600 * th + 60 * tm + ts
       /\ sq \in Int /\ sh \in Int /\ sm \in Int /\ ss \in Int
       /\ tq \in Int /\ th \in Int /\ tm \in Int /\ ts \in Int
  <2>1. AddsUp(s, sq, sh, sm, ss) /\ AddsUp(t, tq, th, tm, ts)
    BY <1>8, <1>9 DEF ClockParts
  <2> QED
    BY <2>1 DEF AddsUp
<1>12. TmDiff(a, b) = s - t
  BY <1>7, <1>10, <1>11 DEF TmDiff
<1> QED
  BY <1>5, <1>12

----------------------------------------------------------------------------
(* str_to_tm.                                                              *)

\* Days of a year before a month.
MonthDay(y, m) == DaysBefore[m + 1] + (IF m > 1 /\ IsLeap(y) THEN 1 ELSE 0)

\* A date is a day of its month, and that one of its year.
LEMMA DateParts ==
    ASSUME NEW y \in Int, NEW m \in 0..11, NEW md \in Int
    PROVE  /\ NewYearDay(y) \in Int /\ MonthDay(y, m) \in 0..335
           /\ DayOf(y, m, md) = NewYearDay(y) + MonthDay(y, m) + md - 1
           /\ DayOf(y, m, md) \in Int
<1>1. DaysBefore[m + 1] \in 0..334 /\ DaysBefore[1] = 0
  BY MonthsType
<1>2. LeapsBefore(y) \in Int /\ LeapsBefore(BaseYear) \in Int /\ BaseYear \in Int
  BY CalendarAssumption DEF LeapsBefore
<1>3. PICK k \in {0, 1} : k = IF m > 1 /\ IsLeap(y) THEN 1 ELSE 0
  OBVIOUS
<1>4. MonthDay(y, m) = DaysBefore[m + 1] + k
  BY <1>3 DEF MonthDay
<1>5. NewYearDay(y) = 365 * (y - BaseYear) + LeapsBefore(y) - LeapsBefore(BaseYear)
  BY <1>1, <1>2 DEF NewYearDay, DayOf
<1>6. DayOf(y, m, md) = 365 * (y - BaseYear) + LeapsBefore(y) - LeapsBefore(BaseYear)
                        + DaysBefore[m + 1] + k + md - 1
  BY <1>3 DEF DayOf
<1> QED
  BY <1>1, <1>2, <1>4, <1>5, <1>6

\* A leap day moves the months of a year by at most one day.
LEMMA MonthDays ==
    ASSUME NEW y \in Int, NEW z \in Int, NEW m \in 0..11
    PROVE  /\ MonthDay(y, m) \in 0..335 /\ MonthDay(z, m) \in 0..335
           /\ MonthDay(y, m) <= MonthDay(z, m) + 1
           /\ IsLeap(z) => MonthDay(y, m) <= MonthDay(z, m)
           /\ \A n \in 0..11 : m < n => MonthDay(y, m) < MonthDay(y, n)
<1>1. PICK d \in 0..334 : d = DaysBefore[m + 1]
  BY MonthsType
<1>2. PICK j \in {0, 1}, k \in {0, 1} :
         /\ j = (IF m > 1 /\ IsLeap(y) THEN 1 ELSE 0)
         /\ k = (IF m > 1 /\ IsLeap(z) THEN 1 ELSE 0)
  OBVIOUS
<1>3. MonthDay(y, m) = d + j /\ MonthDay(z, m) = d + k
  BY <1>1, <1>2 DEF MonthDay
<1>4. IsLeap(z) => j <= k
  BY <1>2
<1>5. ASSUME NEW n \in 0..11, m < n
      PROVE  MonthDay(y, m) < MonthDay(y, n)
  <2>1. PICK e \in 0..334 : e = DaysBefore[n + 1]
    BY MonthsType
  <2>2. d + 28 <= e
    BY <1>1, <1>5, <2>1, MonthsType
  <2>3. PICK l \in {0, 1} : l = (IF n > 1 /\ IsLeap(y) THEN 1 ELSE 0)
    OBVIOUS
  <2>4. MonthDay(y, n) = e + l
    BY <2>1, <2>3 DEF MonthDay
  <2> QED
    BY <1>3, <2>2, <2>4
<1> QED
  BY <1>3, <1>4, <1>5

\* The first day of a month.
LEMMA MonthStart ==
    ASSUME NEW y \in Int, NEW m \in 0..11
    PROVE  DayOf(y, m, 1) = NewYearDay(y) + MonthDay(y, m) /\ DayOf(y, m, 1) \in Int
<1>1. PICK md \in Int : md = 1
  OBVIOUS
<1>2. /\ NewYearDay(y) \in Int /\ MonthDay(y, m) \in 0..335
      /\ DayOf(y, m, md) = NewYearDay(y) + MonthDay(y, m) + md - 1
  BY DateParts
<1> QED
  BY <1>1, <1>2

\* Months follow each other.
LEMMA MonthsOrdered ==
    ASSUME NEW y \in Int, NEW m \in 0..11, NEW n \in 0..11, m < n
    PROVE  DayOf(y, m, 1) < DayOf(y, n, 1)
<1>1. /\ MonthDay(y, m) \in 0..335 /\ MonthDay(y, n) \in 0..335
      /\ \A l \in 0..11 : m < l => MonthDay(y, m) < MonthDay(y, l)
  BY MonthDays
<1>2. NewYearDay(y) \in Int
  BY YearStep
<1>3. DayOf(y, m, 1) = NewYearDay(y) + MonthDay(y, m)
  BY MonthStart
<1>4. DayOf(y, n, 1) = NewYearDay(y) + MonthDay(y, n)
  BY MonthStart
<1>5. MonthDay(y, m) < MonthDay(y, n)
  BY <1>1, m < n
<1>6. MonthDay(y, m) \in 0..335 /\ MonthDay(y, n) \in 0..335
  BY <1>1
<1>7. PICK p, a, b : p = NewYearDay(y) /\ a = MonthDay(y, m) /\ b = MonthDay(y, n)
  OBVIOUS
<1>8. p \in Int /\ a \in Int /\ b \in Int /\ a < b
  BY <1>2, <1>5, <1>6, <1>7
<1>9. DayOf(y, m, 1) = p + a /\ DayOf(y, n, 1) = p + b
  BY <1>3, <1>4, <1>7
<1> QED
  BY <1>8, <1>9

\* So do the same months of two years, less than 367 days apart.
LEMMA YearsOrdered ==
    ASSUME NEW y \in Int, NEW m \in 0..11
    PROVE  /\ DayOf(y, 0, 1) <= DayOf(y, m, 1)
           /\ DayOf(y, m, 1) <= DayOf(y + 1, 0, 1)
           /\ DayOf(y + 1, m, 1) <= DayOf(y, m, 1) + 366
<1>1. y + 1 \in Int
  OBVIOUS
<1>2. PICK p, q, a, b :
         p = NewYearDay(y) /\ q = NewYearDay(y + 1) /\ a = MonthDay(y, m) /\ b = MonthDay(y + 1, m)
  OBVIOUS
<1>3. p \in Int /\ q = p + (IF IsLeap(y) THEN 366 ELSE 365)
  BY <1>2, YearStep
<1>4. a \in 0..335 /\ b \in 0..335 /\ b <= a + 1 /\ (IsLeap(y) => b <= a)
  BY <1>1, <1>2, MonthDays
<1>5. DayOf(y, m, 1) = p + a /\ DayOf(y + 1, m, 1) = q + b
  BY <1>1, <1>2, MonthStart
<1>6. DayOf(y, 0, 1) = p /\ DayOf(y + 1, 0, 1) = q
  BY <1>2 DEF NewYearDay
<1> QED
  BY <1>3, <1>4, <1>5, <1>6

\* What is filled so far; a day may be outside its month.
Filled ==
    [year: Int \cup {Unset}, mon: 0..11 \cup {Unset}, mday: Int \cup {Unset},
     hour: 0..23 \cup {Unset}, min: 0..59 \cup {Unset}, sec: 0..59 \cup {Unset},
     wday: 0..6 \cup {Unset}]

SameClock(a, b) == a.hour = b.hour /\ a.min = b.min /\ a.sec = b.sec

SameDate(a, b) == a.year = b.year /\ a.mon = b.mon /\ a.mday = b.mday /\ a.wday = b.wday

\* The fields of the current time.
LEMMA NowFields ==
    ASSUME IsTime(now)
    PROVE  /\ now.year \in Int /\ now.mon \in 0..11 /\ now.mday \in 1..31
           /\ now.hour \in 0..23 /\ now.min \in 0..59 /\ now.sec \in 0..59
           /\ now.wday \in 0..6
  BY DEF IsTime

\* What FillWday sets: year, month and day, if only a weekday is given.
LEMMA FillWdayFields ==
    ASSUME IsTime(now), NEW tm \in Filled
    PROVE  /\ FillWday(tm) \in Filled /\ SameClock(FillWday(tm), tm)
           /\ ~OnlyWday(tm) => SameDate(FillWday(tm), tm)
           /\ OnlyWday(tm) =>
                 /\ FillWday(tm).year = now.year /\ FillWday(tm).mon = now.mon
                 /\ FillWday(tm).mday = now.mday - ((now.wday - tm.wday + 7) % 7)
                 /\ (now.wday - tm.wday + 7) % 7 \in 0..6
<1>1. CASE OnlyWday(tm)
  <2>1. PICK k : k = (now.wday - tm.wday + 7) % 7
    OBVIOUS
  <2>2. tm.wday \in 0..6
    BY <1>1 DEF OnlyWday, Filled
  <2>3. k \in 0..6
    BY <2>1, <2>2, NowFields
  <2>4. FillWday(tm) = [tm EXCEPT !.year = now.year, !.mon = now.mon, !.mday = now.mday - k]
    BY <1>1, <2>1 DEF FillWday
  <2>5. /\ FillWday(tm).year = now.year /\ FillWday(tm).mon = now.mon
        /\ FillWday(tm).mday = now.mday - k /\ SameClock(FillWday(tm), tm)
    BY <2>4 DEF Filled, SameClock
  <2>6. now.year \in Int /\ now.mon \in 0..11 /\ now.mday - k \in Int
    BY <2>3, NowFields
  <2>7. FillWday(tm) \in Filled
    BY <2>4, <2>6 DEF Filled
  <2> QED
    BY <1>1, <2>1, <2>3, <2>5, <2>7
<1>2. CASE ~OnlyWday(tm)
  BY <1>2 DEF FillWday, SameClock, SameDate
<1> QED
  BY <1>1, <1>2

\* What FillMon sets: day and year, if a month without a day is given.
LEMMA FillMonFields ==
    ASSUME IsTime(now), NEW tm \in Filled
    PROVE  /\ FillMon(tm) \in Filled /\ SameClock(FillMon(tm), tm)
           /\ FillMon(tm).mon = tm.mon /\ FillMon(tm).wday = tm.wday
           /\ ~(tm.mon # Unset /\ tm.mday = Unset) => SameDate(FillMon(tm), tm)
           /\ tm.mon # Unset /\ tm.mday = Unset =>
                 /\ FillMon(tm).mday = 1
                 /\ tm.year = Unset =>
                       FillMon(tm).year = IF tm.mon > now.mon THEN now.year - 1 ELSE now.year
<1>1. CASE tm.mon # Unset /\ tm.mday = Unset
  <2>1. PICK y \in Int \cup {Unset} :
           y = IF tm.year # Unset THEN tm.year
               ELSE IF tm.mon > now.mon THEN now.year - 1 ELSE now.year
    BY NowFields DEF Filled
  <2>2. FillMon(tm) = [tm EXCEPT !.mday = 1, !.year = y]
    BY <1>1, <2>1 DEF FillMon, Filled
  <2>3. /\ FillMon(tm).year = y /\ FillMon(tm).mday = 1 /\ FillMon(tm).mon = tm.mon
        /\ FillMon(tm).wday = tm.wday /\ SameClock(FillMon(tm), tm)
    BY <2>2 DEF Filled, SameClock
  <2>4. FillMon(tm) \in Filled
    <3>1. tm \in Filled /\ y \in Int \cup {Unset} /\ 1 \in Int
      OBVIOUS
    <3>2. [tm EXCEPT !.mday = 1, !.year = y] \in Filled
      BY <3>1 DEF Filled
    <3> QED
      BY <2>2, <3>2
  <2>5. tm.year = Unset => y = IF tm.mon > now.mon THEN now.year - 1 ELSE now.year
    BY <2>1
  <2>6. tm.year = Unset =>
           FillMon(tm).year = IF tm.mon > now.mon THEN now.year - 1 ELSE now.year
    BY <2>3, <2>5, Zenon
  <2> QED
    BY <1>1, <2>3, <2>4, <2>6, Zenon
<1>2. CASE ~(tm.mon # Unset /\ tm.mday = Unset)
  BY <1>2 DEF FillMon, SameClock, SameDate
<1> QED
  BY <1>1, <1>2

\* What FillTime sets: the members of the clock that are missing.
LEMMA FillTimeFields ==
    ASSUME NEW tm \in Filled
    PROVE  /\ FillTime(tm) \in Filled /\ SameDate(FillTime(tm), tm)
           /\ FillTime(tm).hour \in 0..23 /\ FillTime(tm).min \in 0..59
           /\ FillTime(tm).sec \in 0..59
<1>1. PICK h \in 0..23, m \in 0..59, s \in 0..59 :
         /\ h = (IF tm.hour = Unset THEN 0 ELSE tm.hour)
         /\ m = (IF tm.min = Unset THEN 0 ELSE tm.min)
         /\ s = (IF tm.sec = Unset THEN 0 ELSE tm.sec)
  <2>1. tm.hour \in 0..23 \cup {Unset} /\ tm.min \in 0..59 \cup {Unset}
        /\ tm.sec \in 0..59 \cup {Unset}
    BY DEF Filled
  <2>2. (IF tm.hour = Unset THEN 0 ELSE tm.hour) \in 0..23
    BY <2>1
  <2>3. (IF tm.min = Unset THEN 0 ELSE tm.min) \in 0..59
    BY <2>1
  <2>4. (IF tm.sec = Unset THEN 0 ELSE tm.sec) \in 0..59
    BY <2>1
  <2> QED
    BY <2>2, <2>3, <2>4, Zenon
<1>2. FillTime(tm) = [tm EXCEPT !.hour = h, !.min = m, !.sec = s]
  BY <1>1 DEF FillTime, Filled
<1> QED
  BY <1>1, <1>2 DEF Filled, SameDate

\* What FillDate sets: month and day, if no date is given.
LEMMA FillDateFields ==
    ASSUME IsTime(now), NEW tm \in Filled
    PROVE  /\ FillDate(tm) \in Filled /\ SameClock(FillDate(tm), tm)
           /\ FillDate(tm).year = tm.year
           /\ ~(tm.mon = Unset /\ tm.mday = Unset /\ tm.wday = Unset) => SameDate(FillDate(tm), tm)
           /\ tm.mon = Unset /\ tm.mday = Unset /\ tm.wday = Unset =>
                 /\ FillDate(tm).mon = now.mon
                 /\ FillDate(tm).mday = IF tm.hour > now.hour THEN now.mday - 1 ELSE now.mday
<1>1. CASE tm.mon = Unset /\ tm.mday = Unset /\ tm.wday = Unset
  <2>1. PICK d \in Int : d = IF tm.hour > now.hour THEN now.mday - 1 ELSE now.mday
    BY NowFields
  <2>2. FillDate(tm) = [tm EXCEPT !.mon = now.mon, !.mday = d]
    BY <1>1, <2>1 DEF FillDate
  <2> QED
    BY <1>1, <2>1, <2>2, NowFields DEF Filled, SameClock
<1>2. CASE ~(tm.mon = Unset /\ tm.mday = Unset /\ tm.wday = Unset)
  BY <1>2 DEF FillDate, SameClock, SameDate
<1> QED
  BY <1>1, <1>2

\* What FillGaps sets: year and month, if they are still missing.
LEMMA FillGapsFields ==
    ASSUME IsTime(now), NEW tm \in Filled
    PROVE  /\ FillGaps(tm) \in Filled /\ SameClock(FillGaps(tm), tm)
           /\ FillGaps(tm).mday = tm.mday
           /\ FillGaps(tm).year = (IF tm.year = Unset THEN now.year ELSE tm.year)
           /\ FillGaps(tm).mon = (IF tm.mon = Unset THEN now.mon ELSE tm.mon)
<1>1. PICK y \in Int, m \in 0..11 :
         /\ y = (IF tm.year = Unset THEN now.year ELSE tm.year)
         /\ m = (IF tm.mon = Unset THEN now.mon ELSE tm.mon)
  <2>1. tm.year \in Int \cup {Unset} /\ tm.mon \in 0..11 \cup {Unset}
    BY DEF Filled
  <2> QED
    BY <2>1, NowFields
<1>2. FillGaps(tm) = [tm EXCEPT !.year = y, !.mon = m]
  BY <1>1 DEF FillGaps, Filled
<1>3. /\ FillGaps(tm).year = y /\ FillGaps(tm).mon = m /\ FillGaps(tm).mday = tm.mday
      /\ SameClock(FillGaps(tm), tm)
  BY <1>2 DEF Filled, SameClock
<1>4. FillGaps(tm) \in Filled
  BY <1>2 DEF Filled
<1> QED
  BY <1>1, <1>3, <1>4

\* The broken-down time mktime gets.
Completed(spec) == FillGaps(FillDate(FillTime(FillMon(FillWday(spec)))))

\* What is filled in for each kind of specification.
LEMMA CompletedFields ==
    ASSUME IsTime(now), NEW spec, IsSpec(spec)
    PROVE  \E tm :
       /\ tm = Completed(spec)
       /\ tm.year \in Int /\ tm.mon \in 0..11 /\ tm.mday \in Int
       /\ tm.hour \in 0..23 /\ tm.min \in 0..59 /\ tm.sec \in 0..59
       /\ OnlyWday(spec) =>
             /\ tm.year = now.year /\ tm.mon = now.mon
             /\ tm.mday = now.mday - ((now.wday - spec.wday + 7) % 7)
       /\ spec.mon # Unset /\ spec.mday = Unset =>
             /\ tm.mon = spec.mon /\ tm.mday = 1
             /\ tm.year = IF spec.mon > now.mon THEN now.year - 1 ELSE now.year
       /\ spec.mon = Unset /\ spec.mday = Unset /\ spec.wday = Unset =>
             /\ tm.year = now.year /\ tm.mon = now.mon
             /\ tm.mday = IF tm.hour > now.hour THEN now.mday - 1 ELSE now.mday
<1>1. /\ spec \in Filled
      /\ spec.mday # Unset <=> spec.year # Unset
      /\ spec.mday # Unset => spec.mon # Unset
  <2>1. 1..31 \subseteq Int
    OBVIOUS
  <2> QED
    BY <2>1 DEF IsSpec, Filled
<1>2. Unset \notin Int
  BY TimeAssumption
<1>3. PICK a : a = FillWday(spec)
  OBVIOUS
<1>4. PICK b : b = FillMon(a)
  OBVIOUS
<1>5. PICK c : c = FillTime(b)
  OBVIOUS
<1>6. PICK d : d = FillDate(c)
  OBVIOUS
<1>7. PICK e : e = FillGaps(d)
  OBVIOUS
<1>8. /\ a \in Filled /\ SameClock(a, spec)
      /\ ~OnlyWday(spec) => SameDate(a, spec)
      /\ OnlyWday(spec) =>
            /\ a.year = now.year /\ a.mon = now.mon
            /\ a.mday = now.mday - ((now.wday - spec.wday + 7) % 7)
            /\ (now.wday - spec.wday + 7) % 7 \in 0..6
  BY <1>1, <1>3, FillWdayFields
<1>9. /\ b \in Filled /\ b.mon = a.mon /\ b.wday = a.wday
      /\ ~(a.mon # Unset /\ a.mday = Unset) => SameDate(b, a)
      /\ a.mon # Unset /\ a.mday = Unset =>
            /\ b.mday = 1
            /\ a.year = Unset => b.year = IF a.mon > now.mon THEN now.year - 1 ELSE now.year
  BY <1>4, <1>8, FillMonFields
<1>10. /\ c \in Filled /\ SameDate(c, b)
       /\ c.hour \in 0..23 /\ c.min \in 0..59 /\ c.sec \in 0..59
  BY <1>5, <1>9, FillTimeFields
<1>11. /\ d \in Filled /\ SameClock(d, c) /\ d.year = c.year
       /\ ~(c.mon = Unset /\ c.mday = Unset /\ c.wday = Unset) => SameDate(d, c)
       /\ c.mon = Unset /\ c.mday = Unset /\ c.wday = Unset =>
             /\ d.mon = now.mon
             /\ d.mday = IF c.hour > now.hour THEN now.mday - 1 ELSE now.mday
  BY <1>6, <1>10, FillDateFields
<1>12. /\ SameClock(e, d) /\ e.mday = d.mday
       /\ e.year = (IF d.year = Unset THEN now.year ELSE d.year)
       /\ e.mon = (IF d.mon = Unset THEN now.mon ELSE d.mon)
       /\ e \in Filled
  BY <1>7, <1>11, FillGapsFields
<1>13. e = Completed(spec)
  BY <1>3, <1>4, <1>5, <1>6, <1>7 DEF Completed
<1>14. e.hour = c.hour /\ e.hour \in 0..23 /\ e.min \in 0..59 /\ e.sec \in 0..59
  BY <1>10, <1>11, <1>12 DEF SameClock
<1>15. now.year \in Int /\ now.mon \in 0..11 /\ now.mday \in 1..31 /\ now.wday \in 0..6
  BY NowFields
<1>16. now.year # Unset /\ now.mon # Unset
  BY <1>2, <1>15
<1>17. e.year \in Int /\ e.mon \in 0..11
  <2>1. d.year \in Int \cup {Unset} /\ d.mon \in 0..11 \cup {Unset}
    BY <1>11 DEF Filled
  <2> QED
    BY <1>12, <1>15, <2>1
<1>18. ASSUME OnlyWday(spec)
       PROVE  /\ e.year = now.year /\ e.mon = now.mon
              /\ e.mday = now.mday - ((now.wday - spec.wday + 7) % 7)
              /\ e.mday # Unset
  <2>1. PICK k : k = (now.wday - spec.wday + 7) % 7
    OBVIOUS
  <2>2. a.year = now.year /\ a.mon = now.mon /\ a.mday = now.mday - k /\ k \in 0..6
    BY <1>8, <1>18, <2>1
  <2>3. now.mday - k # Unset
    BY <1>2, <1>15, <2>2
  <2>4. SameDate(b, a)
    BY <1>9, <2>2, <2>3
  <2>5. c.year = now.year /\ c.mon = now.mon /\ c.mday = now.mday - k
    BY <1>10, <2>2, <2>4 DEF SameDate
  <2>6. SameDate(d, c)
    BY <1>11, <1>16, <2>5
  <2> QED
    BY <1>12, <1>16, <2>1, <2>3, <2>5, <2>6 DEF SameDate
<1>19. ASSUME spec.mon # Unset, spec.mday = Unset
       PROVE  /\ e.mon = spec.mon /\ e.mday = 1
              /\ e.year = IF spec.mon > now.mon THEN now.year - 1 ELSE now.year
  <2>1. ~OnlyWday(spec)
    BY <1>19 DEF OnlyWday
  <2>2. spec.year = Unset
    BY <1>1, <1>19
  <2>3. a.mon = spec.mon /\ a.mday = Unset /\ a.year = Unset
    BY <1>8, <1>19, <2>1, <2>2 DEF SameDate
  <2>4. PICK y : y = IF spec.mon > now.mon THEN now.year - 1 ELSE now.year
    OBVIOUS
  <2>5. b.mon = spec.mon /\ b.mday = 1 /\ b.year = y
    BY <1>9, <1>19, <2>3, <2>4, Zenon
  <2>6. c.mon = spec.mon /\ c.mday = 1 /\ c.year = y
    BY <1>10, <2>5 DEF SameDate
  <2>7. d.mon = spec.mon /\ d.mday = 1 /\ d.year = y
    BY <1>11, <1>19, <2>6 DEF SameDate
  <2>8. y \in Int
    BY <1>15, <2>4
  <2>9. y # Unset
    BY <1>2, <2>8
  <2> QED
    BY <1>12, <1>19, <2>4, <2>7, <2>9
<1>20. ASSUME spec.mon = Unset, spec.mday = Unset, spec.wday = Unset
       PROVE  /\ e.year = now.year /\ e.mon = now.mon
              /\ e.mday = IF e.hour > now.hour THEN now.mday - 1 ELSE now.mday
  <2>1. ~OnlyWday(spec)
    BY <1>20 DEF OnlyWday
  <2>2. spec.year = Unset
    BY <1>1, <1>20
  <2>3. a.mon = Unset /\ a.mday = Unset /\ a.wday = Unset /\ a.year = Unset
    BY <1>8, <1>20, <2>1, <2>2 DEF SameDate
  <2>4. b.mon = Unset /\ b.mday = Unset /\ b.wday = Unset /\ b.year = Unset
    BY <1>9, <2>3 DEF SameDate
  <2>5. c.mon = Unset /\ c.mday = Unset /\ c.wday = Unset /\ c.year = Unset
    BY <1>10, <2>4 DEF SameDate
  <2>6. /\ d.mon = now.mon /\ d.year = Unset
        /\ d.mday = IF c.hour > now.hour THEN now.mday - 1 ELSE now.mday
    BY <1>11, <2>5
  <2> QED
    BY <1>12, <1>14, <1>16, <2>6
<1>21. e.mday \in Int
  <2>1. e.mday \in Int \cup {Unset}
    BY <1>12 DEF Filled
  <2>2. CASE spec.mday # Unset
    <3>1. ~OnlyWday(spec) /\ spec.mon # Unset
      BY <1>1, <2>2 DEF OnlyWday
    <3>2. SameDate(a, spec)
      BY <1>8, <3>1
    <3>3. SameDate(b, a)
      BY <1>9, <2>2, <3>2 DEF SameDate
    <3>4. SameDate(d, c)
      BY <1>10, <1>11, <2>2, <3>2, <3>3 DEF SameDate
    <3>5. e.mday = spec.mday
      BY <1>10, <1>12, <3>2, <3>3, <3>4 DEF SameDate
    <3> QED
      BY <2>1, <2>2, <3>5
  <2>3. CASE OnlyWday(spec)
    BY <1>18, <2>1, <2>3
  <2>4. CASE spec.mon # Unset /\ spec.mday = Unset
    BY <1>19, <2>4
  <2>5. CASE spec.mon = Unset /\ spec.mday = Unset /\ spec.wday = Unset
    BY <1>15, <1>20, <2>5
  <2>6. CASE spec.mon = Unset /\ spec.mday = Unset /\ spec.wday # Unset
    <3>1. OnlyWday(spec)
      BY <1>1, <2>6 DEF OnlyWday
    <3> QED
      BY <2>3, <3>1
  <2> QED
    BY <2>2, <2>3, <2>4, <2>5, <2>6
<1> QED
  BY <1>13, <1>14, <1>17, <1>18, <1>19, <1>20, <1>21

\* A time of day does not lead into the next day.
Joined(d, h, m, s) == d * Day + (h * 60 + m) * 60 + s

\* A day and a clock make a time that has them as its parts.
LEMMA ClockJoin ==
    ASSUME NEW d \in Int, NEW h \in 0..23, NEW m \in 0..59, NEW s \in 0..59
    PROVE  /\ AddsUp(Joined(d, h, m, s), d, h, m, s)
           /\ Joined(d, h, m, s) \in Int
           /\ Joined(d, h, m, s) \div Day = d
<1>1. PICK u \in Int : u = 3600 * h + 60 * m + s
  OBVIOUS
<1>2. 0 <= u /\ u < 86400
  BY <1>1
<1>3. PICK t \in Int : t = 86400 * d + u
  OBVIOUS
<1>4. t \div 86400 = d
  BY <1>2, <1>3
<1>5. t = 86400 * d + 3600 * h + 60 * m + s
  BY <1>1, <1>3
<1>6. Day = 86400
  BY DEF Day
<1>7. Joined(d, h, m, s) = t
  BY <1>1, <1>3, <1>6 DEF Joined
<1>8. AddsUp(t, d, h, m, s)
  BY <1>5 DEF AddsUp
<1> QED
  BY <1>3, <1>4, <1>6, <1>7, <1>8

\* The calendar time of a date and a time of day.
LEMMA MktimeParts ==
    ASSUME NEW tm, tm.year \in Int, tm.mon \in 0..11, tm.mday \in Int,
           tm.hour \in 0..23, tm.min \in 0..59, tm.sec \in 0..59
    PROVE  \E d \in Int : /\ d = DayOf(tm.year, tm.mon, tm.mday)
                          /\ AddsUp(Mktime(tm), d, tm.hour, tm.min, tm.sec)
                          /\ Mktime(tm) \in Int
                          /\ Mktime(tm) \div Day = d
<1>1. PICK d \in Int : d = DayOf(tm.year, tm.mon, tm.mday)
  BY DateParts
<1>2. PICK t : t = Mktime(tm)
  OBVIOUS
<1>3. PICK h \in 0..23, m \in 0..59, s \in 0..59 : h = tm.hour /\ m = tm.min /\ s = tm.sec
  OBVIOUS
<1>4. t = Joined(d, h, m, s)
  BY <1>1, <1>2, <1>3 DEF Mktime, Joined
<1>5. AddsUp(t, d, h, m, s) /\ t \in Int /\ t \div Day = d
  BY <1>1, <1>3, <1>4, ClockJoin
<1> QED
  BY <1>1, <1>2, <1>3, <1>5

\* Today lies between the first of its month and the end of its year.
LEMMA TodayBounds ==
    ASSUME IsTime(now)
    PROVE  /\ Today \in Int /\ now.wday = WdayOf(Today)
           /\ DayOf(now.year, now.mon, 1) <= Today
           /\ Today < DayOf(now.year + 1, 0, 1)
           /\ now.mon < 11 => Today < DayOf(now.year, now.mon + 1, 1)
<1>1. PICK y \in Int, m \in 0..11, md \in 1..31 : y = now.year /\ m = now.mon /\ md = now.mday
  BY NowFields
<1>2. md \in Int
  BY <1>1
<1>3. PICK p \in Int, a \in 0..335 :
         /\ p = NewYearDay(y) /\ a = MonthDay(y, m)
         /\ DayOf(y, m, md) = p + a + md - 1 /\ DayOf(y, m, md) \in Int
  BY <1>2, DateParts
<1>4. DayOf(y, m, 1) = p + a
  BY <1>3, MonthStart
<1>5. Today = DayOf(y, m, md)
  BY <1>1 DEF Today
<1>6. /\ DayOf(y, m, md) < IF m = 11 THEN DayOf(y + 1, 0, 1) ELSE DayOf(y, m + 1, 1)
      /\ now.wday = WdayOf(Today)
  BY <1>1, <1>5 DEF IsTime
<1>7. DayOf(y, m, 1) <= DayOf(y, m, md)
  BY <1>3, <1>4
<1>8. PICK z \in Int : z = y + 1
  OBVIOUS
<1>9. DayOf(z, 0, 1) \in Int
  BY MonthStart
<1>10. ASSUME m < 11
       PROVE  DayOf(y, m, md) < DayOf(y, m + 1, 1) /\ DayOf(y, m, md) < DayOf(z, 0, 1)
  <2>1. PICK n \in 0..11 : n = m + 1
    BY <1>10
  <2>2. DayOf(y, m, md) < DayOf(y, m + 1, 1)
    BY <1>6, <1>10
  <2>3. DayOf(y, m, md) < DayOf(y, n, 1)
    BY <2>1, <2>2
  <2>4. DayOf(y, n, 1) <= DayOf(y + 1, 0, 1)
    BY YearsOrdered
  <2>5. DayOf(y, n, 1) \in Int
    BY MonthStart
  <2>6. DayOf(y, n, 1) <= DayOf(z, 0, 1)
    BY <1>8, <2>4
  <2>7. DayOf(y, m, md) < DayOf(z, 0, 1)
    BY <1>3, <1>9, <2>3, <2>5, <2>6
  <2> QED
    BY <2>2, <2>7
<1>11. DayOf(y, m, md) < DayOf(y + 1, 0, 1)
  <2>1. CASE m = 11
    BY <1>6, <2>1
  <2>2. CASE m < 11
    BY <1>8, <1>10, <2>2
  <2> QED
    BY <2>1, <2>2
<1> QED
  BY <1>1, <1>3, <1>5, <1>6, <1>7, <1>10, <1>11

\* The last day that is a given weekday.
LEMMA WeekdayBack ==
    ASSUME NEW d \in Int, NEW w \in 0..6
    PROVE  WdayOf(d - ((WdayOf(d) - w + 7) % 7)) = w
<1>1. PICK c \in Int : c = 365 * (2000 - BaseYear) + LeapsBefore(2000) - LeapsBefore(BaseYear)
  <2>1. \A y \in Int : LeapsBefore(y) \in Int
    BY DEF LeapsBefore
  <2>2. PICK p \in Int, q \in Int : p = LeapsBefore(2000) /\ q = LeapsBefore(BaseYear)
    BY <2>1, CalendarAssumption
  <2> QED
    BY <2>2, CalendarAssumption
<1>2. \A e : WdayOf(e) = (6 + e - c) % 7
  BY <1>1 DEF WdayOf
<1>3. PICK v \in 0..6 : v = (6 + d - c) % 7
  OBVIOUS
<1>4. PICK k \in 0..6 : k = (v - w + 7) % 7
  OBVIOUS
<1>5. (6 + (d - k) - c) % 7 = w
  <2>1. k = v - w \/ k = v - w + 7
    BY <1>4
  <2>2. PICK q \in Int : 6 + d - c = 7 * q + v
    BY <1>3
  <2>3. 6 + (d - k) - c = 7 * q + w \/ 6 + (d - k) - c = 7 * (q - 1) + w
    BY <2>1, <2>2
  <2> QED
    BY <2>3
<1> QED
  BY <1>2, <1>3, <1>4, <1>5

\* Specifications become calendar times.
LEMMA StrToTmType ==
    ASSUME IsTime(now), NEW spec, IsSpec(spec)
    PROVE  StrToTm(spec) \in Int
<1>1. PICK tm : /\ tm = Completed(spec)
                /\ tm.year \in Int /\ tm.mon \in 0..11 /\ tm.mday \in Int
                /\ tm.hour \in 0..23 /\ tm.min \in 0..59 /\ tm.sec \in 0..59
  BY CompletedFields
<1>2. Mktime(tm) \in Int
  BY <1>1, MktimeParts
<1> QED
  BY <1>1, <1>2 DEF StrToTm, Completed

\* The current time is a calendar time.
LEMMA NowType == ASSUME IsTime(now) PROVE Mktime(now) \in Int
<1>1. /\ now.year \in Int /\ now.mon \in 0..11 /\ now.mday \in Int
      /\ now.hour \in 0..23 /\ now.min \in 0..59 /\ now.sec \in 0..59
  BY NowFields
<1> QED
  BY <1>1, MktimeParts

\* Time s is less than an hour after t and less than a day before it.
LatestBefore(s, t) == s < t + 3600 /\ t - s < Day

\* The same or an earlier clock today, or a later one yesterday, is less than a day ago.
LEMMA DaysApart ==
    ASSUME NEW s, NEW t, NEW c \in Int, NEW d \in Int,
           NEW h \in 0..23, NEW k \in 0..23, NEW m, NEW n, NEW u, NEW v,
           AddsUp(s, c, h, m, u), AddsUp(t, d, k, n, v)
    PROVE  /\ c = d /\ h <= k => LatestBefore(s, t)
           /\ c = d - 1 /\ h > k => LatestBefore(s, t)
<1>1. /\ s = 86400 * c + 3600 * h + 60 * m + u
      /\ m \in 0..59 /\ u \in 0..59
  BY DEF AddsUp
<1>2. /\ t = 86400 * d + 3600 * k + 60 * n + v
      /\ n \in 0..59 /\ v \in 0..59
  BY DEF AddsUp
<1>3. Day = 86400
  BY DEF Day
<1> QED
  BY <1>1, <1>2, <1>3 DEF LatestBefore

\* An incomplete specification means the latest such time.
LEMMA LatestOfSpec ==
    ASSUME IsTime(now), IsSpec(point), begin_spec + ZoneOffset = StrToTm(point)
    PROVE  LatestMeant
<1>1. PICK tm :
       /\ tm = Completed(point)
       /\ tm.year \in Int /\ tm.mon \in 0..11 /\ tm.mday \in Int
       /\ tm.hour \in 0..23 /\ tm.min \in 0..59 /\ tm.sec \in 0..59
       /\ OnlyWday(point) =>
             /\ tm.year = now.year /\ tm.mon = now.mon
             /\ tm.mday = now.mday - ((now.wday - point.wday + 7) % 7)
       /\ point.mon # Unset /\ point.mday = Unset =>
             /\ tm.mon = point.mon /\ tm.mday = 1
             /\ tm.year = IF point.mon > now.mon THEN now.year - 1 ELSE now.year
       /\ point.mon = Unset /\ point.mday = Unset /\ point.wday = Unset =>
             /\ tm.year = now.year /\ tm.mon = now.mon
             /\ tm.mday = IF tm.hour > now.hour THEN now.mday - 1 ELSE now.mday
  BY CompletedFields
<1>2. PICK t : t = begin_spec + ZoneOffset
  OBVIOUS
<1>3. t = Mktime(tm)
  BY <1>1, <1>2 DEF StrToTm, Completed
<1>4. PICK d \in Int : /\ d = DayOf(tm.year, tm.mon, tm.mday)
                       /\ AddsUp(t, d, tm.hour, tm.min, tm.sec)
                       /\ t \in Int /\ t \div Day = d
  BY <1>1, <1>3, MktimeParts
<1>5. PICK y \in Int, m \in 0..11, md \in Int, w \in 0..6 :
         /\ y = now.year /\ m = now.mon /\ md = now.mday /\ w = now.wday
         /\ now.hour \in 0..23 /\ now.min \in 0..59 /\ now.sec \in 0..59
  <2>1. /\ now.year \in Int /\ now.mon \in 0..11 /\ now.mday \in Int /\ now.wday \in 0..6
        /\ now.hour \in 0..23 /\ now.min \in 0..59 /\ now.sec \in 0..59
    BY NowFields
  <2> QED
    BY <2>1, Zenon
<1>6. /\ Today \in Int /\ w = WdayOf(Today)
      /\ DayOf(y, m, 1) <= Today
      /\ Today < DayOf(y + 1, 0, 1)
      /\ m < 11 => Today < DayOf(y, m + 1, 1)
  BY <1>5, TodayBounds
<1>7. PICK p \in Int, a \in 0..335 :
         /\ p = NewYearDay(y) /\ a = MonthDay(y, m)
         /\ \A x \in Int : DayOf(y, m, x) = p + a + x - 1
  <2>1. NewYearDay(y) \in Int /\ MonthDay(y, m) \in 0..335
    BY <1>5, YearStep, MonthDays
  <2>2. \A x \in Int : DayOf(y, m, x) = NewYearDay(y) + MonthDay(y, m) + x - 1
    BY <1>5, DateParts
  <2> QED
    BY <2>1, <2>2
<1>8. Today = p + a + md - 1
  BY <1>5, <1>7 DEF Today
<1>9. ASSUME OnlyWday(point)
      PROVE  d \in (Today - 6)..Today /\ WdayOf(d) = point.wday
  <2>1. PICK v \in 0..6 : v = point.wday
    BY <1>9 DEF OnlyWday, IsSpec
  <2>2. PICK k \in 0..6 : k = (w - v + 7) % 7
    BY <1>5
  <2>3. tm.year = y /\ tm.mon = m /\ tm.mday = md - k /\ md - k \in Int
    BY <1>1, <1>5, <1>9, <2>1, <2>2
  <2>4. d = p + a + (md - k) - 1
    BY <1>4, <1>7, <2>3
  <2>5. d = Today - k
    BY <1>5, <1>7, <1>8, <2>2, <2>4
  <2>6. WdayOf(Today - ((WdayOf(Today) - v + 7) % 7)) = v
    BY <1>6, <2>1, WeekdayBack
  <2>7. WdayOf(Today - k) = v
    BY <1>6, <2>2, <2>6
  <2>8. d \in (Today - 6)..Today
    <3>1. PICK td \in Int : td = Today
      BY <1>6
    <3>2. td - k \in (td - 6)..td
      BY <2>2, <3>1
    <3> QED
      BY <2>5, <3>1, <3>2
  <2>9. WdayOf(d) = v
    BY <2>5, <2>7
  <2> QED
    BY <2>1, <2>8, <2>9
<1>10. ASSUME point.mon # Unset, point.mday = Unset
       PROVE  /\ d <= Today /\ Today < DayOf(now.year + 1, point.mon, 1)
              /\ \E x \in {now.year - 1, now.year} : d = DayOf(x, point.mon, 1)
              /\ Today - d < 366
  <2>1. PICK n \in 0..11 : n = point.mon
    BY <1>10 DEF IsSpec
  <2>2. tm.mon = n /\ tm.mday = 1 /\ tm.year = IF n > m THEN y - 1 ELSE y
    BY <1>1, <1>5, <1>10, <2>1
  <2>3. PICK b \in Int, z \in Int : b = y - 1 /\ z = y + 1
    BY <1>5
  <2>a. /\ DayOf(b, n, 1) \in Int /\ DayOf(y, n, 1) \in Int /\ DayOf(z, n, 1) \in Int
        /\ DayOf(y, 0, 1) \in Int /\ DayOf(z, 0, 1) \in Int
    <3>1. \A x \in Int, l \in 0..11 : DayOf(x, l, 1) \in Int
      BY MonthStart
    <3>2. b \in Int /\ y \in Int /\ z \in Int /\ n \in 0..11 /\ 0 \in 0..11
      BY <1>5, <2>1, <2>3
    <3> QED
      BY <3>1, <3>2
  <2>b. PICK f, g, e, q, r :
           /\ f = DayOf(b, n, 1) /\ g = DayOf(y, n, 1) /\ e = DayOf(z, n, 1)
           /\ q = DayOf(y, 0, 1) /\ r = DayOf(z, 0, 1)
    OBVIOUS
  <2>4. /\ f = DayOf(b, n, 1) /\ g = DayOf(y, n, 1) /\ e = DayOf(z, n, 1)
        /\ q = DayOf(y, 0, 1) /\ r = DayOf(z, 0, 1)
        /\ f \in Int /\ g \in Int /\ e \in Int /\ q \in Int /\ r \in Int
    <3>1. f \in Int /\ g \in Int /\ e \in Int
      BY <2>a, <2>b, Zenon
    <3>2. q \in Int /\ r \in Int
      BY <2>a, <2>b, Zenon
    <3> QED
      BY <2>b, <3>1, <3>2, Zenon
  <2>5. f <= q /\ g <= f + 366
    <3>1. b + 1 = y
      BY <1>5, <2>3
    <3>2. DayOf(b, n, 1) <= DayOf(b + 1, 0, 1) /\ DayOf(b + 1, n, 1) <= DayOf(b, n, 1) + 366
      BY <2>1, <2>3, YearsOrdered
    <3> QED
      BY <2>4, <3>1, <3>2
  <2>6. q <= g /\ g <= r /\ r <= e
    <3>1. DayOf(y, 0, 1) <= DayOf(y, n, 1) /\ DayOf(y, n, 1) <= DayOf(y + 1, 0, 1)
      BY <1>5, <2>1, YearsOrdered
    <3>2. DayOf(z, 0, 1) <= DayOf(z, n, 1)
      BY <2>1, <2>3, YearsOrdered
    <3> QED
      BY <2>3, <2>4, <3>1, <3>2
  <2>7. r <= q + 366
    <3>1. NewYearDay(y + 1) = NewYearDay(y) + (IF IsLeap(y) THEN 366 ELSE 365)
      BY <1>5, YearStep
    <3>2. r = q + (IF IsLeap(y) THEN 366 ELSE 365)
      BY <2>3, <2>4, <3>1 DEF NewYearDay
    <3> QED
      BY <2>4, <3>2
  <2>8. Today < r
    BY <1>6, <2>3, <2>4
  <2>9. q <= DayOf(y, m, 1) /\ DayOf(y, m, 1) \in Int
    BY <1>5, <2>4, YearsOrdered, MonthStart
  <2>10. q <= Today
    BY <1>6, <2>4, <2>9
  <2>11. CASE n > m
    <3>1. d = f
      BY <1>4, <2>2, <2>3, <2>4, <2>11
    <3>2. Today < g
      <4>1. PICK l \in 0..11 : l = m + 1
        BY <1>5, <2>1, <2>11
      <4>2. Today < DayOf(y, l, 1)
        BY <1>5, <1>6, <2>1, <2>11, <4>1
      <4>3. CASE l = n
        BY <2>4, <4>2, <4>3
      <4>4. CASE l < n
        <5>1. DayOf(y, l, 1) < DayOf(y, n, 1) /\ DayOf(y, l, 1) \in Int
          BY <1>5, <2>1, <4>1, <4>4, MonthsOrdered, MonthStart
        <5> QED
          BY <1>6, <2>4, <4>2, <5>1
      <4> QED
        BY <1>5, <2>1, <2>11, <4>1, <4>3, <4>4
    <3>3. f <= Today /\ Today < e /\ Today - f < 366
      BY <1>6, <2>4, <2>5, <2>6, <2>10, <3>2
    <3> QED
      BY <1>5, <2>1, <2>3, <2>4, <3>1, <3>3
  <2>12. CASE ~(n > m)
    <3>1. d = g
      BY <1>4, <2>2, <2>4, <2>12
    <3>2. g <= Today
      <4>1. CASE n = m
        BY <1>6, <2>4, <4>1
      <4>2. CASE n < m
        <5>1. DayOf(y, n, 1) < DayOf(y, m, 1)
          BY <1>5, <2>1, <4>2, MonthsOrdered
        <5> QED
          BY <1>6, <2>4, <2>9, <5>1
      <4> QED
        BY <1>5, <2>1, <2>12, <4>1, <4>2
    <3>3. Today < e /\ Today - g < 366
      BY <1>6, <2>4, <2>6, <2>7, <2>8
    <3> QED
      BY <1>5, <2>1, <2>3, <2>4, <3>1, <3>2, <3>3
  <2> QED
    BY <2>11, <2>12
<1>11. ASSUME point.mon = Unset, point.mday = Unset, point.wday = Unset
       PROVE  /\ d \in {Today - 1, Today}
              /\ LatestBefore(t, Mktime(now))
  <2>1. PICK h \in 0..23, k \in 0..23 : h = tm.hour /\ k = now.hour
    BY <1>1, <1>5
  <2>2. tm.year = y /\ tm.mon = m /\ tm.mday = IF h > k THEN md - 1 ELSE md
    BY <1>1, <1>5, <1>11, <2>1
  <2>3. AddsUp(Mktime(now), Today, k, now.min, now.sec)
    <3>1. now.year \in Int /\ now.mon \in 0..11 /\ now.mday \in Int
      BY <1>5
    <3> QED
      BY <1>5, <2>1, <3>1, MktimeParts DEF Today
  <2>4. CASE h > k
    <3>1. md - 1 \in Int /\ tm.mday = md - 1
      BY <1>5, <2>2, <2>4
    <3>2. d = p + a + (md - 1) - 1
      BY <1>4, <1>7, <2>2, <3>1
    <3>3. d = Today - 1
      BY <1>5, <1>7, <1>8, <3>2
    <3>4. LatestBefore(t, Mktime(now))
      BY <1>4, <1>6, <2>1, <2>3, <2>4, <3>3, DaysApart
    <3> QED
      BY <3>3, <3>4
  <2>5. CASE h <= k
    <3>1. tm.mday = md
      BY <2>1, <2>2, <2>5
    <3>2. d = Today
      BY <1>4, <1>5, <1>7, <1>8, <2>2, <3>1
    <3>3. LatestBefore(t, Mktime(now))
      BY <1>4, <1>6, <2>1, <2>3, <2>5, <3>2, DaysApart
    <3> QED
      BY <3>2, <3>3
  <2> QED
    BY <2>1, <2>4, <2>5
<1> QED
  BY <1>2, <1>4, <1>9, <1>10, <1>11 DEF LatestMeant, LatestBefore

----------------------------------------------------------------------------
(* Alignment of begin and end.                                             *)

\* The rotation interval a time is in begins at Down, the next one from it at Up.
Down(t) == t - (t % FLOW_FILE_ROTATION_INTERVAL)
Up(t) == t + ((-t) % FLOW_FILE_ROTATION_INTERVAL)

\* Beginnings of intervals are an interval apart.
LEMMA AlignedApart ==
    ASSUME NEW s \in Int, NEW t \in Int, Aligned(s)
    PROVE  /\ Aligned(s + FLOW_FILE_ROTATION_INTERVAL)
           /\ Aligned(t) /\ s < t => s + FLOW_FILE_ROTATION_INTERVAL <= t
<1>1. PICK r \in Int : r = FLOW_FILE_ROTATION_INTERVAL /\ r > 0
  BY CalendarAssumption
<1>2. s % r = 0
  BY <1>1 DEF Aligned
<1>3. PICK p \in Int : s = r * p
  <2>1. \E p, a \in Int : a = s % r /\ s = r * p + a
    BY <1>1
  <2>2. PICK p, a \in Int : a = s % r /\ s = r * p + a
    BY <2>1
  <2>3. r * p \in Int
    BY <1>1, <2>2
  <2>4. s = r * p
    BY <1>2, <2>2, <2>3
  <2> QED
    BY <2>2, <2>4
<1>4. (s + r) % r = 0
  <2>1. s + r = r * (p + 1) /\ p + 1 \in Int
    BY <1>1, <1>3
  <2>2. \A q \in Int : (r * q) % r = 0
    BY <1>1
  <2> QED
    BY <2>1, <2>2
<1>5. ASSUME t % r = 0, s < t
      PROVE  s + r <= t
  <2>1. PICK q \in Int : t = r * q
    <3>1. \E q, a \in Int : a = t % r /\ t = r * q + a
      BY <1>1
    <3>2. PICK q, a \in Int : a = t % r /\ t = r * q + a
      BY <3>1
    <3>3. r * q \in Int
      BY <1>1, <3>2
    <3>4. t = r * q
      BY <1>5, <3>2, <3>3
    <3> QED
      BY <3>2, <3>4
  <2>2. r * p < r * q
    BY <1>3, <1>5, <2>1
  <2>3. p < q
    BY <1>1, <2>2
  <2>4. p + 1 <= q
    BY <2>3
  <2>5. r * (p + 1) <= r * q
    BY <1>1, <2>4
  <2> QED
    BY <1>1, <1>3, <2>1, <2>5
<1> QED
  BY <1>1, <1>4, <1>5 DEF Aligned

\* Down and Up are the beginnings of intervals next to a time.
LEMMA DownAndUp ==
    ASSUME NEW t \in Int
    PROVE  /\ Down(t) \in Int /\ Aligned(Down(t))
           /\ Down(t) <= t /\ t < Down(t) + FLOW_FILE_ROTATION_INTERVAL
           /\ Up(t) \in Int /\ Aligned(Up(t))
           /\ t <= Up(t) /\ Up(t) < t + FLOW_FILE_ROTATION_INTERVAL
<1>1. PICK r \in Int : r = FLOW_FILE_ROTATION_INTERVAL /\ r > 0
  BY CalendarAssumption
<1>2. \A x \in Int : /\ x % r \in Int /\ 0 <= x % r /\ x % r < r
                     /\ x \div r \in Int /\ x = r * (x \div r) + (x % r)
  BY <1>1
<1>3. \A q \in Int : (r * q) % r = 0
  BY <1>1
<1>4. PICK a, b, c, d \in Int : /\ a = t % r /\ b = t \div r /\ t = r * b + a /\ 0 <= a /\ a < r
                                /\ c = (-t) % r /\ d = (-t) \div r /\ -t = r * d + c
                                /\ 0 <= c /\ c < r
  <2>1. -t \in Int
    OBVIOUS
  <2> QED
    BY <1>2, <2>1
<1>5. t - a = r * b /\ t + c = r * (-d) /\ -d \in Int
  BY <1>1, <1>4
<1>6. (t - a) % r = 0 /\ (t + c) % r = 0
  BY <1>3, <1>4, <1>5
<1>7. Down(t) = t - a /\ Up(t) = t + c
  BY <1>1, <1>4 DEF Down, Up
<1> QED
  BY <1>1, <1>4, <1>6, <1>7 DEF Aligned

\* A beginning of an interval at most one interval away is Down or Up.
LEMMA DownUnique ==
    ASSUME NEW s \in Int, NEW t \in Int, Aligned(t), Down(s) <= t, t <= s
    PROVE  t = Down(s)
<1>1. PICK r \in Int : r = FLOW_FILE_ROTATION_INTERVAL
  BY CalendarAssumption
<1>2. Down(s) \in Int /\ Aligned(Down(s)) /\ s < Down(s) + r
  BY <1>1, DownAndUp
<1>3. Down(s) < t => Down(s) + r <= t
  BY <1>1, <1>2, AlignedApart
<1> QED
  BY <1>1, <1>2, <1>3

\* A beginning of an interval between a time and its Up is Up.
LEMMA UpUnique ==
    ASSUME NEW s \in Int, NEW t \in Int, Aligned(t), s <= t, t <= Up(s)
    PROVE  t = Up(s)
<1>1. PICK r \in Int : r = FLOW_FILE_ROTATION_INTERVAL
  BY CalendarAssumption
<1>2. Up(s) \in Int /\ Aligned(Up(s)) /\ Up(s) < s + r
  BY <1>1, DownAndUp
<1>3. t < Up(s) => t + r <= Up(s)
  BY <1>1, <1>2, AlignedApart
<1> QED
  BY <1>1, <1>2, <1>3

----------------------------------------------------------------------------
(* The times: an inductive invariant.                                      *)

\* What was chosen is a time and options of the program.
ChoiceInv ==
    /\ IsTime(now)
    /\ point \in {None, BadSpec} \/ IsSpec(point)
    /\ range # None =>
          /\ range[1] = BadSpec \/ IsSpec(range[1])
          /\ range[2] \in {None, BadSpec} \/ IsSpec(range[2])

\* Where the course of the options has got to.
CourseInv ==
    /\ tpc \in {"parse", "point", "range", "alignPoint", "alignBegin", "alignEnd",
                "accepted", "rejected"}
    /\ tpc \in {"point", "alignPoint"} => point # None /\ range = None
    /\ tpc \in {"range", "alignBegin"} => point = None /\ range # None
    /\ tpc = "alignEnd" => (point = None <=> range # None)
    /\ tpc = "accepted" => point = None \/ range = None
    /\ tpc = "alignPoint" => IsSpec(point) /\ begin_spec + ZoneOffset = StrToTm(point)

\* The beginning is never beyond the interval asked for, nor is the end.
AlignInv ==
    /\ time_begin \in Int /\ time_end \in Int /\ begin_spec \in Int /\ end_spec \in Int
    /\ tpc \in {"alignPoint", "alignBegin"} => Down(begin_spec) <= time_begin
                                               /\ time_begin <= begin_spec
    /\ tpc = "alignBegin" => time_end = end_spec
    /\ tpc = "alignEnd" => time_begin = Down(begin_spec)
    /\ tpc = "accepted" /\ (point # None \/ range # None) => time_begin = Down(begin_spec)
    /\ tpc = "alignEnd" /\ point # None =>
          time_begin < time_end /\ time_end <= time_begin + FLOW_FILE_ROTATION_INTERVAL
    /\ tpc = "accepted" /\ point # None => time_end = time_begin + FLOW_FILE_ROTATION_INTERVAL
    /\ tpc = "alignEnd" /\ range # None => end_spec <= time_end /\ time_end <= Up(end_spec)
    /\ tpc = "accepted" /\ range # None => time_end = Up(end_spec) /\ time_begin < time_end
    /\ tpc = "rejected" /\ point = None /\ range # None /\ BadSpec \notin {range[1], range[2]} =>
          end_spec <= begin_spec

TimeInv == ChoiceInv /\ CourseInv /\ AlignInv

\* Every choice is one of the program.
LEMMA TimeInvInit == ASSUME TimeInit PROVE TimeInv
<1>1. IsTime(now)
  BY TimeAssumption DEF TimeInit
<1>2. PICK o \in Options : point = o[1] /\ range = o[2]
  BY DEF TimeInit
<1>3. ChoiceInv
  <2>1. o[1] \in {None, BadSpec} \/ IsSpec(o[1])
    BY TimeAssumption
  <2>2. o[2] # None =>
          /\ o[2][1] = BadSpec \/ IsSpec(o[2][1])
          /\ o[2][2] \in {None, BadSpec} \/ IsSpec(o[2][2])
    BY TimeAssumption
  <2> QED
    BY <1>1, <1>2, <2>1, <2>2 DEF ChoiceInv
<1>4. CourseInv /\ AlignInv
  BY DEF TimeInit, CourseInv, AlignInv
<1> QED
  BY <1>3, <1>4 DEF TimeInv

\* str_to_tm depends on the current time and its argument only.
LEMMA StrToTmSame ==
    ASSUME now' = now, point' = point
    PROVE  StrToTm(point)' = StrToTm(point)
<1>1. PICK n : n = now /\ n = now'
  OBVIOUS
<1>2. PICK p : p = point /\ p = point'
  OBVIOUS
<1>3. PICK a : a = FillWday(p)
  OBVIOUS
<1>4. PICK b : b = FillMon(a)
  OBVIOUS
<1>5. PICK c : c = FillTime(b)
  OBVIOUS
<1>6. PICK d : d = FillDate(c)
  OBVIOUS
<1>7. PICK e : e = FillGaps(d)
  OBVIOUS
<1>8. a = FillWday(p)'
  BY <1>1, <1>3 DEF FillWday
<1>9. b = FillMon(a)'
  BY <1>1, <1>4 DEF FillMon
<1>10. d = FillDate(c)'
  BY <1>1, <1>6 DEF FillDate
<1>11. e = FillGaps(d)'
  BY <1>1, <1>7 DEF FillGaps
<1>12. StrToTm(point) = Mktime(e)
  BY <1>2, <1>3, <1>4, <1>5, <1>6, <1>7 DEF StrToTm
<1>13. StrToTm(point)' = Mktime(e)
  BY <1>2, <1>5, <1>8, <1>9, <1>10, <1>11 DEF StrToTm
<1> QED
  BY <1>12, <1>13

\* The choice stays one of the program.
LEMMA ChoiceSame ==
    ASSUME ChoiceInv, UNCHANGED <<now, point, range>>
    PROVE  ChoiceInv'
  BY DEF ChoiceInv

\* The options are taken apart: nothing is set yet.
LEMMA ParseOptionsInv == ASSUME TimeInv, ParseOptions PROVE TimeInv'
<1>1. UNCHANGED <<now, point, range, time_begin, time_end, begin_spec, end_spec>> /\ tpc = "parse"
  BY DEF ParseOptions, Reject
<1>2. ChoiceInv'
  BY <1>1, ChoiceSame DEF TimeInv
<1>3. \/ tpc' = "rejected" /\ point # None
      \/ tpc' = "point" /\ point # None /\ range = None
      \/ tpc' = "range" /\ point = None /\ range # None
      \/ tpc' = "accepted" /\ point = None /\ range = None
  BY DEF ParseOptions, Reject
<1>4. CourseInv'
  BY <1>1, <1>3 DEF CourseInv, TimeInv
<1>5. AlignInv'
  BY <1>1, <1>3 DEF AlignInv, TimeInv
<1> QED
  BY <1>2, <1>4, <1>5 DEF TimeInv

\* A time point begins at its specification.
LEMMA SetTimePointInv == ASSUME TimeInv, SetTimePoint PROVE TimeInv'
<1>1. ChoiceInv'
  BY ChoiceSame DEF SetTimePoint, Reject, TimeInv
<1>2. tpc = "point" /\ point # None /\ range = None /\ point' = point /\ range' = range
      /\ now' = now
  BY DEF SetTimePoint, Reject, TimeInv, CourseInv
<1>3. CASE point = BadSpec /\ Reject
  <2>1. CourseInv'
    BY <1>2, <1>3 DEF Reject, CourseInv
  <2>2. AlignInv'
    BY <1>2, <1>3 DEF Reject, AlignInv, TimeInv
  <2> QED
    BY <1>1, <2>1, <2>2 DEF TimeInv
<1>4. CASE point # BadSpec /\ tpc' = "alignPoint"
  <2>1. IsTime(now) /\ IsSpec(point)
    BY <1>2, <1>4 DEF TimeInv, ChoiceInv
  <2>2. PICK t \in Int : t = StrToTm(point)
    BY <2>1, StrToTmType
  <2>3. /\ time_begin' = t - ZoneOffset /\ begin_spec' = t - ZoneOffset
        /\ time_end' = time_end /\ end_spec' = end_spec
    BY <1>4, <2>2 DEF SetTimePoint, Reject, LocalToUtc
  <2>4. PICK u \in Int : u = t - ZoneOffset /\ u + ZoneOffset = t
    BY <2>2, TimeAssumption
  <2>5. time_begin' = u /\ begin_spec' = u
    BY <2>3, <2>4
  <2>6. begin_spec' + ZoneOffset = StrToTm(point)'
    BY <1>2, <2>2, <2>4, <2>5, StrToTmSame
  <2>7. CourseInv'
    BY <1>2, <1>4, <2>1, <2>6 DEF CourseInv
  <2>8. Down(u) <= u /\ u <= u
    BY <2>4, DownAndUp
  <2>9. AlignInv'
    BY <1>2, <1>4, <2>3, <2>4, <2>5, <2>8 DEF AlignInv, TimeInv
  <2> QED
    BY <1>1, <2>7, <2>9 DEF TimeInv
<1> QED
  BY <1>3, <1>4 DEF SetTimePoint

\* A range begins and ends at its specifications.
LEMMA SetTimeRangeInv == ASSUME TimeInv, SetTimeRange PROVE TimeInv'
<1>1. ChoiceInv'
  BY ChoiceSame DEF SetTimeRange, Reject, TimeInv
<1>2. tpc = "range" /\ point = None /\ range # None /\ point' = point /\ range' = range
      /\ now' = now
  BY DEF SetTimeRange, Reject, TimeInv, CourseInv
<1>3. CASE BadSpec \in {range[1], range[2]} /\ Reject
  <2>1. CourseInv'
    BY <1>2, <1>3 DEF Reject, CourseInv
  <2>2. AlignInv'
    BY <1>2, <1>3 DEF Reject, AlignInv, TimeInv
  <2> QED
    BY <1>1, <2>1, <2>2 DEF TimeInv
<1>4. CASE BadSpec \notin {range[1], range[2]} /\ tpc' = "alignBegin"
  <2>1. IsTime(now) /\ IsSpec(range[1]) /\ (range[2] = None \/ IsSpec(range[2]))
    BY <1>2, <1>4 DEF TimeInv, ChoiceInv
  <2>2. PICK b \in Int, e \in Int :
           /\ b = StrToTm(range[1])
           /\ e = IF range[2] = None THEN Mktime(now) ELSE StrToTm(range[2])
    <3>1. StrToTm(range[1]) \in Int
      BY <2>1, StrToTmType
    <3>2. (IF range[2] = None THEN Mktime(now) ELSE StrToTm(range[2])) \in Int
      BY <2>1, StrToTmType, NowType
    <3> QED
      BY <3>1, <3>2
  <2>3. /\ time_begin' = LocalToUtc(b) /\ begin_spec' = time_begin'
        /\ time_end' = LocalToUtc(e) /\ end_spec' = time_end'
    BY <1>4, <2>2 DEF SetTimeRange, Reject
  <2>4. PICK u \in Int, v \in Int : u = LocalToUtc(b) /\ v = LocalToUtc(e)
    BY <2>2, TimeAssumption DEF LocalToUtc
  <2>5. time_begin' = u /\ begin_spec' = u /\ time_end' = v /\ end_spec' = v
    BY <2>3, <2>4
  <2>6. CourseInv'
    BY <1>2, <1>4 DEF CourseInv
  <2>7. Down(u) <= u /\ u <= u
    BY <2>4, DownAndUp
  <2>8. AlignInv'
    BY <1>2, <1>4, <2>4, <2>5, <2>7 DEF AlignInv
  <2> QED
    BY <1>1, <2>6, <2>8 DEF TimeInv
<1> QED
  BY <1>3, <1>4 DEF SetTimeRange

\* The beginning goes back, but not beyond its interval.
LEMMA AlignBeginInv == ASSUME TimeInv, AlignBegin PROVE TimeInv'
<1>1. /\ tpc \in {"alignPoint", "alignBegin"} /\ ~Aligned(time_begin)
      /\ time_begin' = time_begin - 1
      /\ UNCHANGED <<now, point, range, tpc, time_end, begin_spec, end_spec>>
  BY DEF AlignBegin
<1>2. ChoiceInv'
  BY <1>1, ChoiceSame DEF TimeInv
<1>3. CourseInv'
  <2>1. tpc = "alignPoint" => IsSpec(point)' /\ begin_spec' + ZoneOffset = StrToTm(point)'
    BY <1>1, StrToTmSame DEF TimeInv, CourseInv
  <2> QED
    BY <1>1, <2>1 DEF TimeInv, CourseInv
<1>4. /\ time_begin \in Int /\ begin_spec \in Int
      /\ Down(begin_spec) <= time_begin /\ time_begin <= begin_spec
  BY <1>1 DEF TimeInv, AlignInv
<1>5. Down(begin_spec) \in Int /\ Aligned(Down(begin_spec))
  BY <1>4, DownAndUp
<1>6. Down(begin_spec) # time_begin
  BY <1>1, <1>5
<1>7. Down(begin_spec) <= time_begin - 1 /\ time_begin - 1 <= begin_spec /\ time_begin - 1 \in Int
  BY <1>4, <1>5, <1>6
<1>8. AlignInv'
  BY <1>1, <1>7 DEF TimeInv, AlignInv
<1> QED
  BY <1>2, <1>3, <1>8 DEF TimeInv

\* The end of a time point starts out behind its aligned beginning.
LEMMA PointEndInv == ASSUME TimeInv, PointEnd PROVE TimeInv'
<1>1. /\ tpc = "alignPoint" /\ Aligned(time_begin) /\ time_end' = time_begin + 1
      /\ tpc' = "alignEnd"
      /\ UNCHANGED <<now, point, range, time_begin, begin_spec, end_spec>>
  BY DEF PointEnd
<1>2. ChoiceInv'
  BY <1>1, ChoiceSame DEF TimeInv
<1>3. point # None /\ range = None
  BY <1>1 DEF TimeInv, CourseInv
<1>4. CourseInv'
  BY <1>1, <1>3 DEF CourseInv
<1>5. /\ time_begin \in Int /\ begin_spec \in Int /\ end_spec \in Int
      /\ Down(begin_spec) <= time_begin /\ time_begin <= begin_spec
  BY <1>1 DEF TimeInv, AlignInv
<1>6. time_begin = Down(begin_spec)
  BY <1>1, <1>5, DownUnique
<1>7. PICK r \in Int : r = FLOW_FILE_ROTATION_INTERVAL /\ r > 0
  BY CalendarAssumption
<1>8. /\ time_begin + 1 \in Int /\ time_begin < time_begin + 1
      /\ time_begin + 1 <= time_begin + FLOW_FILE_ROTATION_INTERVAL
  BY <1>5, <1>7
<1>9. AlignInv'
  BY <1>1, <1>3, <1>5, <1>6, <1>8 DEF AlignInv
<1> QED
  BY <1>2, <1>4, <1>9 DEF TimeInv

\* The beginning of a range is aligned.
LEMMA RangeEndInv == ASSUME TimeInv, RangeEnd PROVE TimeInv'
<1>1. /\ tpc = "alignBegin" /\ Aligned(time_begin) /\ tpc' = "alignEnd"
      /\ UNCHANGED <<now, point, range, time_begin, time_end, begin_spec, end_spec>>
  BY DEF RangeEnd
<1>2. ChoiceInv'
  BY <1>1, ChoiceSame DEF TimeInv
<1>3. point = None /\ range # None
  BY <1>1 DEF TimeInv, CourseInv
<1>4. CourseInv'
  BY <1>1, <1>3 DEF CourseInv
<1>5. /\ time_begin \in Int /\ time_end \in Int /\ begin_spec \in Int /\ end_spec \in Int
      /\ Down(begin_spec) <= time_begin /\ time_begin <= begin_spec /\ time_end = end_spec
  BY <1>1 DEF TimeInv, AlignInv
<1>6. time_begin = Down(begin_spec)
  BY <1>1, <1>5, DownUnique
<1>7. end_spec <= time_end /\ time_end <= Up(end_spec)
  BY <1>5, DownAndUp
<1>8. AlignInv'
  BY <1>1, <1>3, <1>5, <1>6, <1>7 DEF AlignInv
<1> QED
  BY <1>2, <1>4, <1>8 DEF TimeInv

\* The end goes forward, but not beyond the next interval.
LEMMA AlignEndInv == ASSUME TimeInv, AlignEnd PROVE TimeInv'
<1>1. /\ tpc = "alignEnd" /\ ~Aligned(time_end) /\ time_end' = time_end + 1
      /\ UNCHANGED <<now, point, range, tpc, time_begin, begin_spec, end_spec>>
  BY DEF AlignEnd
<1>2. ChoiceInv'
  BY <1>1, ChoiceSame DEF TimeInv
<1>3. CourseInv'
  BY <1>1 DEF TimeInv, CourseInv
<1>4. /\ time_begin \in Int /\ time_end \in Int /\ begin_spec \in Int /\ end_spec \in Int
      /\ time_begin = Down(begin_spec)
  BY <1>1 DEF TimeInv, AlignInv
<1>5. PICK r \in Int : r = FLOW_FILE_ROTATION_INTERVAL
  BY CalendarAssumption
<1>6. ASSUME point # None
      PROVE  time_begin < time_end + 1 /\ time_end + 1 <= time_begin + r
  <2>1. time_begin < time_end /\ time_end <= time_begin + r
    BY <1>1, <1>5, <1>6 DEF TimeInv, AlignInv
  <2>2. Aligned(time_begin)
    BY <1>4, DownAndUp
  <2>3. Aligned(time_begin + r)
    BY <1>4, <1>5, <2>2, AlignedApart
  <2>4. time_end # time_begin + r
    BY <1>1, <2>3
  <2> QED
    BY <1>4, <1>5, <2>1, <2>4
<1>7. ASSUME range # None
      PROVE  end_spec <= time_end + 1 /\ time_end + 1 <= Up(end_spec)
  <2>1. end_spec <= time_end /\ time_end <= Up(end_spec)
    BY <1>1, <1>7 DEF TimeInv, AlignInv
  <2>2. Aligned(Up(end_spec)) /\ Up(end_spec) \in Int
    BY <1>4, DownAndUp
  <2>3. time_end # Up(end_spec)
    BY <1>1, <2>2
  <2> QED
    BY <1>4, <2>1, <2>2, <2>3
<1>8. time_end + 1 \in Int
  BY <1>4
<1>9. AlignInv'
  BY <1>1, <1>4, <1>5, <1>6, <1>7, <1>8 DEF AlignInv
<1> QED
  BY <1>2, <1>3, <1>9 DEF TimeInv

\* The range is refused when its times are the other way round.
LEMMA CheckRangeInv == ASSUME TimeInv, CheckRange PROVE TimeInv'
<1>1. /\ tpc = "alignEnd" /\ Aligned(time_end)
      /\ UNCHANGED <<now, point, range, time_begin, time_end, begin_spec, end_spec>>
      /\ \/ range # None /\ EmptyRange /\ tpc' = "rejected"
         \/ (range # None => ~EmptyRange) /\ tpc' = "accepted"
  BY DEF CheckRange, Reject
<1>2. ChoiceInv'
  BY <1>1, ChoiceSame DEF TimeInv
<1>3. point = None <=> range # None
  BY <1>1 DEF TimeInv, CourseInv
<1>4. CourseInv'
  BY <1>1, <1>3 DEF CourseInv
<1>5. /\ time_begin \in Int /\ time_end \in Int /\ begin_spec \in Int /\ end_spec \in Int
      /\ time_begin = Down(begin_spec)
  BY <1>1 DEF TimeInv, AlignInv
<1>6. PICK r \in Int : r = FLOW_FILE_ROTATION_INTERVAL
  BY CalendarAssumption
<1>7. ASSUME point # None
      PROVE  time_end = time_begin + r
  <2>1. time_begin < time_end /\ time_end <= time_begin + r
    BY <1>1, <1>6, <1>7 DEF TimeInv, AlignInv
  <2>2. Aligned(time_begin)
    BY <1>5, DownAndUp
  <2>3. time_begin + r <= time_end
    BY <1>1, <1>5, <1>6, <2>1, <2>2, AlignedApart
  <2> QED
    BY <1>5, <1>6, <2>1, <2>3
<1>8. ASSUME range # None
      PROVE  /\ time_end = Up(end_spec)
             /\ EmptyRange => end_spec <= begin_spec
             /\ ~EmptyRange => time_begin < time_end
  <2>1. end_spec <= time_end /\ time_end <= Up(end_spec)
    BY <1>1, <1>8 DEF TimeInv, AlignInv
  <2>2. time_end = Up(end_spec)
    BY <1>1, <1>5, <2>1, UpUnique
  <2>3. EmptyRange <=> time_end <= time_begin
    <3>1. TmDiff(Gmtime(time_end), Gmtime(time_begin)) = time_end - time_begin
      BY <1>5, DiffExact
    <3> QED
      BY <1>5, <3>1 DEF EmptyRange
  <2>4. EmptyRange => end_spec <= begin_spec
    <3>1. Down(begin_spec) <= begin_spec
      BY <1>5, DownAndUp
    <3> QED
      BY <1>5, <2>1, <2>3, <3>1
  <2> QED
    BY <1>5, <2>2, <2>3, <2>4
<1>9. AlignInv'
  <2>1. CASE range # None /\ EmptyRange /\ tpc' = "rejected"
    BY <1>1, <1>3, <1>5, <1>8, <2>1 DEF AlignInv
  <2>2. CASE (range # None => ~EmptyRange) /\ tpc' = "accepted"
    BY <1>1, <1>5, <1>6, <1>7, <1>8, <2>2 DEF AlignInv
  <2> QED
    BY <1>1, <2>1, <2>2
<1> QED
  BY <1>2, <1>4, <1>9 DEF TimeInv

\* Every step of the time options keeps the invariant.
LEMMA TimeInvStep == ASSUME TimeInv, TimeStep PROVE TimeInv'
<1>1. CASE ParseOptions
  BY <1>1, ParseOptionsInv
<1>2. CASE SetTimePoint
  BY <1>2, SetTimePointInv
<1>3. CASE SetTimeRange
  BY <1>3, SetTimeRangeInv
<1>4. CASE AlignBegin
  BY <1>4, AlignBeginInv
<1>5. CASE PointEnd
  BY <1>5, PointEndInv
<1>6. CASE RangeEnd
  BY <1>6, RangeEndInv
<1>7. CASE AlignEnd
  BY <1>7, AlignEndInv
<1>8. CASE CheckRange
  BY <1>8, CheckRangeInv
<1> QED
  BY <1>1, <1>2, <1>3, <1>4, <1>5, <1>6, <1>7, <1>8 DEF TimeStep

\* A state in which the times do not change.
LEMMA TimeInvSame == ASSUME TimeInv, UNCHANGED timeVars PROVE TimeInv'
<1>1. ChoiceInv'
  BY ChoiceSame DEF TimeInv, timeVars
<1>2. tpc = "alignPoint" => IsSpec(point)' /\ begin_spec' + ZoneOffset = StrToTm(point)'
  BY StrToTmSame DEF timeVars, TimeInv, CourseInv
<1>3. CourseInv'
  BY <1>2 DEF timeVars, TimeInv, CourseInv
<1>4. AlignInv'
  BY DEF timeVars, TimeInv, AlignInv
<1> QED
  BY <1>1, <1>3, <1>4 DEF TimeInv

\* The times of arg_parse, whatever the slave does with them.
THEOREM TimesInvariant == SelectionSpec => []TimeInv
<1>1. SelectionInit => TimeInv
  BY TimeInvInit DEF SelectionInit
<1>2. TimeInv /\ [SelectionNext]_selectionVars => TimeInv'
  <2> SUFFICES ASSUME TimeInv, [SelectionNext]_selectionVars
               PROVE  TimeInv'
    OBVIOUS
  <2>1. TimeStep \/ UNCHANGED timeVars
    BY DEF SelectionNext, SelectionStep, Arguments, PathArrayGen, Search, AtEnd, selectionVars
  <2> QED
    BY <2>1, TimeInvStep, TimeInvSame
<1> QED
  BY <1>1, <1>2, PTL DEF SelectionSpec

\* tm_diff counts the seconds between the end and the beginning, also across leap
\* years, in the check for an empty range and for every reader of the range.
THEOREM SelectionDurationExact == SelectionSpec => []DurationExact
<1>1. TimeInv => DurationExact
  <2> SUFFICES ASSUME TimeInv PROVE DurationExact
    OBVIOUS
  <2>1. time_begin \in Int /\ time_end \in Int
    BY DEF TimeInv, AlignInv
  <2>2. TmDiff(Gmtime(time_end), Gmtime(time_begin)) = time_end - time_begin
    BY <2>1, DiffExact
  <2> QED
    BY <2>2 DEF DurationExact
<1> QED
  BY <1>1, TimesInvariant, PTL

\* What the time options mean is what begin and end are set to, for every current
\* time, time zone, option and rotation interval that divides a day.
THEOREM SelectionTimesMeant == SelectionSpec => []TimeOptionsMeant
<1>1. TimeInv => TimeOptionsMeant
  <2> SUFFICES ASSUME TimeInv PROVE TimeOptionsMeant
    OBVIOUS
  <2>1. LatestMeant
    <3>1. CASE tpc = "alignPoint"
      <4>1. IsTime(now) /\ IsSpec(point) /\ begin_spec + ZoneOffset = StrToTm(point)
        BY <3>1 DEF TimeInv, ChoiceInv, CourseInv
      <4> QED
        BY <4>1, LatestOfSpec
    <3>2. CASE tpc # "alignPoint"
      BY <3>2 DEF LatestMeant
    <3> QED
      BY <3>1, <3>2
  <2>2. time_begin \in Int /\ time_end \in Int /\ begin_spec \in Int /\ end_spec \in Int
    BY DEF TimeInv, AlignInv
  <2>3. PICK r \in Int : r = FLOW_FILE_ROTATION_INTERVAL
    BY CalendarAssumption
  <2>4. PICK d, u : d = Down(begin_spec) /\ u = Up(end_spec)
    OBVIOUS
  <2>5. /\ d \in Int /\ Aligned(d) /\ d <= begin_spec /\ begin_spec < d + r
        /\ u \in Int /\ Aligned(u) /\ end_spec <= u /\ u < end_spec + r
    BY <2>2, <2>3, <2>4, DownAndUp
  <2>6. PointSelectsItsFile
    <3>1. ASSUME tpc = "accepted", point # None
          PROVE  time_begin = d /\ time_end = d + r
      BY <2>3, <2>4, <3>1 DEF TimeInv, AlignInv
    <3> QED
      BY <2>2, <2>3, <2>5, <3>1 DEF PointSelectsItsFile
  <2>7. RangeCovered
    <3>1. ASSUME tpc = "accepted", range # None
          PROVE  time_begin = d /\ time_end = u
      BY <2>4, <3>1 DEF TimeInv, AlignInv
    <3>2. tpc = "rejected" /\ point = None /\ range # None /\ BadSpec \notin {range[1], range[2]} =>
             end_spec <= begin_spec
      BY DEF TimeInv, AlignInv
    <3> QED
      BY <2>2, <2>3, <2>5, <3>1, <3>2 DEF RangeCovered
  <2> QED
    BY <2>1, <2>6, <2>7 DEF TimeOptionsMeant
<1> QED
  BY <1>1, TimesInvariant, PTL

----------------------------------------------------------------------------
(* The list of files: an inductive invariant.                              *)

\* Every variable holds a value of its type; the array has room for the list,
\* which holds existing names only.
ListTypes ==
    /\ rank \in Ranks
    /\ cmd \in [paths: Seq(Path), begin: Int, end: Int]
    /\ pc \in {"path", "time", "walk"}
    /\ i \in 1..(Len(cmd.paths) + 1)
    /\ pc # "path" => i <= Len(cmd.paths)
    /\ new_path \in Seq(STRING)
    /\ ctx \in Int
    /\ todo \in Seq(Seq(STRING))
    /\ names \in Seq(DOMAIN Fs[rank])
    /\ names_size \in Nat \ {0}
    /\ Len(names) <= names_size

\* The path in work is an accepted one, searched by time or walked.
PathInWork ==
    pc # "path" =>
        /\ Accepted(cmd.paths[i]) /\ Exists(new_path)
        /\ new_path = Preprocessed(cmd.paths[i])
        /\ pc = "time" <=> HasRange /\ IsDir(new_path)
        /\ pc = "time" => cmd.begin <= ctx /\ (ctx - cmd.begin) % FLOW_FILE_ROTATION_INTERVAL = 0

\* The walk will come from name n to file f.
Pending(n, f) == ~PassedOver(n) /\ Below(n, f)

\* What the walk has still to look at lies below the path, and no file is below
\* two of these names.
WalkInv ==
    pc = "walk" =>
        /\ \A k \in DOMAIN todo : IsPrefixName(new_path, todo[k])
        /\ \A k \in DOMAIN todo : \A f \in DOMAIN Fs[rank] :
              Pending(todo[k], f) => Below(new_path, f)
        /\ \A j, k \in DOMAIN todo : \A f \in DOMAIN Fs[rank] :
              Pending(todo[j], f) /\ Pending(todo[k], f) => j = k

Listed(f) == Cardinality({k \in 1..Len(names) : names[k] = f})

AskedUpTo(j, f) == Cardinality({k \in 1..j : AsksFor(k, f)})

\* The path in work has already led to file f.
Reached(f) ==
    \/ pc = "time" /\ \E t \in Intervals : t < ctx /\ f = FileOf(t)
    \/ pc = "walk" /\ Below(new_path, f) /\ ~\E k \in DOMAIN todo : Pending(todo[k], f)

\* Every file is listed once for each path before that asks for it, and once more
\* if the path in work has led to it.
CountInv ==
    \A f \in DOMAIN Fs[rank] :
        Listed(f) = AskedUpTo(i - 1, f) + (IF Reached(f) THEN 1 ELSE 0)

ListInv == ListTypes /\ PathInWork /\ WalkInv /\ CountInv

\* The search begins with the times of the options.
StartInv ==
    /\ ~started => pc = "path" /\ i = 1 /\ names = <<>>
    /\ started => /\ tpc = "accepted" /\ cmd.begin = time_begin /\ cmd.end = time_end
                  /\ time_end - time_begin <= MaxIntervals * FLOW_FILE_ROTATION_INTERVAL

----------------------------------------------------------------------------
(* Names and the files below them.                                         *)

\* Names of the file system are sequences of components that fit.
LEMMA NamesExist ==
    ASSUME rank \in Ranks, NEW n \in DOMAIN Fs[rank]
    PROVE  n \in Seq(STRING) /\ n # <<>> /\ n \notin LongNames
  BY PathAssumption DEF IsTree

\* A prefix agrees with the name in every component it has.
LEMMA PrefixPointwise ==
    ASSUME NEW p \in Seq(STRING), NEW n \in Seq(STRING)
    PROVE  IsPrefixName(p, n) <=> Len(p) <= Len(n) /\ \A j \in 1..Len(p) : n[j] = p[j]
<1>1. CASE ~(Len(p) <= Len(n))
  BY <1>1 DEF IsPrefixName
<1>2. CASE Len(p) <= Len(n)
  <2>1. Len(p) \in Nat /\ Len(n) \in Nat
    BY LenProperties
  <2>2. \A j \in 1..Len(p) : n[j] \in STRING
    BY <1>2, <2>1, ElementOfSeq
  <2>3. PICK s : s = SubSeq(n, 1, Len(p))
    OBVIOUS
  <2>4. /\ s \in Seq(STRING)
        /\ Len(s) = IF 1 <= Len(p) THEN Len(p) - 1 + 1 ELSE 0
        /\ \A j \in 1..(Len(p) - 1 + 1) : s[j] = n[1 + j - 1]
    BY <2>1, <2>2, <2>3, SubSeqProperties
  <2>5. Len(s) = Len(p) /\ \A j \in 1..Len(p) : s[j] = n[j]
    BY <2>1, <2>4
  <2>6. ASSUME \A j \in 1..Len(p) : n[j] = p[j]
        PROVE  s = p
    BY <2>4, <2>5, <2>6, SeqEqual
  <2>7. ASSUME s = p
        PROVE  \A j \in 1..Len(p) : n[j] = p[j]
    BY <2>5, <2>7
  <2> QED
    BY <1>2, <2>3, <2>6, <2>7 DEF IsPrefixName
<1> QED
  BY <1>1, <1>2

\* A name with one more component is a prefix of the names that go on with it.
LEMMA PrefixAppend ==
    ASSUME NEW h \in Seq(STRING), NEW n \in Seq(STRING), NEW e \in STRING
    PROVE  IsPrefixName(Append(h, e), n)
           <=> IsPrefixName(h, n) /\ Len(h) < Len(n) /\ n[Len(h) + 1] = e
<1>1. PICK c : c = Append(h, e)
  OBVIOUS
<1>2. /\ c \in Seq(STRING) /\ Len(c) = Len(h) + 1
      /\ \A j \in 1..Len(h) : c[j] = h[j]
      /\ c[Len(h) + 1] = e
  BY <1>1, AppendProperties
<1>3. Len(h) \in Nat /\ Len(n) \in Nat
  BY LenProperties
<1>4. IsPrefixName(c, n) <=> Len(c) <= Len(n) /\ \A j \in 1..Len(c) : n[j] = c[j]
  BY <1>2, PrefixPointwise
<1>5. IsPrefixName(h, n) <=> Len(h) <= Len(n) /\ \A j \in 1..Len(h) : n[j] = h[j]
  BY PrefixPointwise
<1>6. PICK l \in Nat : l = Len(h) /\ Len(c) = l + 1
  BY <1>2, <1>3
<1>7. /\ \A j \in 1..l : c[j] = h[j]
      /\ c[l + 1] = e
  BY <1>2, <1>6
<1>8. (\A j \in 1..(l + 1) : n[j] = c[j]) <=> (\A j \in 1..l : n[j] = h[j]) /\ n[l + 1] = e
  <2>1. \A j \in 1..(l + 1) : j \in 1..l \/ j = l + 1
    BY <1>6
  <2>2. l + 1 \in 1..(l + 1) /\ \A j \in 1..l : j \in 1..(l + 1)
    BY <1>6
  <2> QED
    BY <1>7, <2>1, <2>2
<1>9. l + 1 <= Len(n) <=> l < Len(n)
  BY <1>3, <1>6
<1>10. l < Len(n) => l <= Len(n)
  BY <1>3, <1>6
<1> QED
  BY <1>1, <1>4, <1>5, <1>6, <1>8, <1>9, <1>10

\* Nothing keeps the walk from going on from the first k components of a file.
Passable(f, k) ==
    /\ Exists(SubSeq(f, 1, k)) /\ IsDir(SubSeq(f, 1, k))
    /\ Fs[rank][SubSeq(f, 1, k)].readable
    /\ f[k + 1] \notin Ignored

\* Below in terms of Passable.
LEMMA BelowMeans ==
    ASSUME NEW p, NEW f
    PROVE  Below(p, f) <=> /\ IsPrefixName(p, f) /\ ~IsDir(f)
                           /\ \A k \in Len(p)..(Len(f) - 1) : Passable(f, k)
  BY DEF Below, Passable

\* Below a file there is but that file.
LEMMA BelowFile ==
    ASSUME rank \in Ranks, NEW h \in Seq(STRING), NEW f \in DOMAIN Fs[rank],
           ~(Exists(h) /\ IsDir(h) /\ Fs[rank][h].readable)
    PROVE  Below(h, f) <=> f = h /\ ~IsDir(f)
<1>1. f \in Seq(STRING) /\ Len(f) \in Nat /\ Len(h) \in Nat
  BY NamesExist, LenProperties
<1>2. ASSUME Below(h, f)
      PROVE  f = h /\ ~IsDir(f)
  <2>1. /\ Len(h) <= Len(f) /\ SubSeq(f, 1, Len(h)) = h /\ ~IsDir(f)
        /\ \A k \in Len(h)..(Len(f) - 1) : Passable(f, k)
    BY <1>2, BelowMeans DEF IsPrefixName
  <2>2. ~Passable(f, Len(h))
    BY <2>1 DEF Passable
  <2>3. ~(Len(h) \in Len(h)..(Len(f) - 1))
    BY <2>1, <2>2
  <2>4. Len(h) = Len(f)
    BY <1>1, <2>1, <2>3
  <2>5. SubSeq(f, 1, Len(f)) = f
    BY <1>1, SubSeqFull
  <2> QED
    BY <2>1, <2>4, <2>5
<1>3. ASSUME f = h, ~IsDir(f)
      PROVE  Below(h, f)
  <2>1. SubSeq(f, 1, Len(f)) = f
    BY <1>1, SubSeqFull
  <2>2. IsPrefixName(h, f)
    BY <1>1, <1>3, <2>1 DEF IsPrefixName
  <2>3. \A k \in Len(h)..(Len(f) - 1) : FALSE
    BY <1>1, <1>3
  <2> QED
    BY <1>3, <2>2, <2>3, BelowMeans
<1> QED
  BY <1>2, <1>3

\* A file is below h when it is below one of these entries of h.
BelowEntries(h, f, entries) ==
    /\ Below(h, f) <=>
          \E k \in DOMAIN entries : Below(Append(h, entries[k]), f) /\ entries[k] \notin Ignored
    /\ \A k \in DOMAIN entries : Below(Append(h, entries[k]), f) =>
          Exists(Append(h, entries[k])) /\ f[Len(h) + 1] = entries[k]

AllDifferent(entries) == \A j, k \in DOMAIN entries : entries[j] = entries[k] => j = k

\* What is below a directory that can be read is below one of its entries.
LEMMA BelowDir ==
    ASSUME rank \in Ranks, NEW h \in DOMAIN Fs[rank], IsDir(h), Fs[rank][h].readable,
           NEW f \in DOMAIN Fs[rank]
    PROVE  Fs[rank][h].entries \in Seq(STRING) /\ AllDifferent(Fs[rank][h].entries)
           /\ BelowEntries(h, f, Fs[rank][h].entries)
<1> PICK entries : entries = Fs[rank][h].entries
  OBVIOUS
<1>1. /\ f \in Seq(STRING) /\ Len(f) \in Nat
      /\ h \in Seq(STRING) /\ Len(h) \in Nat
  BY NamesExist, LenProperties
<1>2. IsTree(Fs[rank])
  BY PathAssumption
<1>3. /\ entries \in Seq(STRING)
      /\ \A j, k \in DOMAIN entries : entries[j] = entries[k] => j = k
      /\ Len(h) < Len(f) /\ SubSeq(f, 1, Len(h)) = h =>
            \E k \in DOMAIN entries : entries[k] = f[Len(h) + 1]
  <2>1. IsEntry(Fs[rank][h])
    BY <1>2 DEF IsTree
  <2>2. Fs[rank][h].type = "dir"
    BY DEF IsDir
  <2>3. entries \in Seq(STRING)
    BY <2>1, <2>2 DEF IsEntry
  <2> QED
    BY <1>2, <2>2, <2>3 DEF IsTree
<1>4. SubSeq(f, 1, Len(f)) = f
  BY <1>1, SubSeqFull
<1>5. Below(h, f) <=> /\ Len(h) < Len(f) /\ IsPrefixName(h, f) /\ ~IsDir(f)
                      /\ f[Len(h) + 1] \notin Ignored
                      /\ \A k \in (Len(h) + 1)..(Len(f) - 1) : Passable(f, k)
  <2>1. ASSUME Below(h, f)
        PROVE  /\ Len(h) < Len(f) /\ IsPrefixName(h, f) /\ ~IsDir(f)
               /\ f[Len(h) + 1] \notin Ignored
               /\ \A k \in (Len(h) + 1)..(Len(f) - 1) : Passable(f, k)
    <3>1. /\ IsPrefixName(h, f) /\ ~IsDir(f)
          /\ \A k \in Len(h)..(Len(f) - 1) : Passable(f, k)
      BY <2>1, BelowMeans
    <3>2. Len(h) <= Len(f) /\ SubSeq(f, 1, Len(h)) = h
      BY <3>1 DEF IsPrefixName
    <3>3. Len(h) # Len(f)
      BY <1>4, <3>1, <3>2
    <3>4. Len(h) \in Len(h)..(Len(f) - 1)
      BY <1>1, <3>2, <3>3
    <3>5. f[Len(h) + 1] \notin Ignored
      BY <3>1, <3>4 DEF Passable
    <3>6. \A k \in (Len(h) + 1)..(Len(f) - 1) : k \in Len(h)..(Len(f) - 1)
      BY <1>1
    <3> QED
      BY <1>1, <3>1, <3>2, <3>3, <3>5, <3>6
  <2>2. ASSUME /\ Len(h) < Len(f) /\ IsPrefixName(h, f) /\ ~IsDir(f)
               /\ f[Len(h) + 1] \notin Ignored
               /\ \A k \in (Len(h) + 1)..(Len(f) - 1) : Passable(f, k)
        PROVE  Below(h, f)
    <3>1. SubSeq(f, 1, Len(h)) = h
      BY <2>2 DEF IsPrefixName
    <3>2. Passable(f, Len(h))
      BY <2>2, <3>1 DEF Passable, Exists
    <3>3. \A k \in Len(h)..(Len(f) - 1) : k = Len(h) \/ k \in (Len(h) + 1)..(Len(f) - 1)
      BY <1>1
    <3> QED
      BY <2>2, <3>2, <3>3, BelowMeans
  <2> QED
    BY <2>1, <2>2
<1>6. ASSUME NEW k \in DOMAIN entries
      PROVE  /\ Below(Append(h, entries[k]), f) <=>
                   /\ Len(h) < Len(f) /\ IsPrefixName(h, f) /\ ~IsDir(f)
                   /\ f[Len(h) + 1] = entries[k]
                   /\ \A l \in (Len(h) + 1)..(Len(f) - 1) : Passable(f, l)
             /\ Below(Append(h, entries[k]), f) => Exists(Append(h, entries[k]))
  <2>1. entries[k] \in STRING
    BY <1>3, LenProperties, ElementOfSeq
  <2>2. PICK c : c = Append(h, entries[k])
    OBVIOUS
  <2>3. c \in Seq(STRING) /\ Len(c) = Len(h) + 1
    BY <1>1, <2>1, <2>2, AppendProperties
  <2>4. IsPrefixName(c, f) <=> IsPrefixName(h, f) /\ Len(h) < Len(f) /\ f[Len(h) + 1] = entries[k]
    BY <1>1, <2>1, <2>2, PrefixAppend
  <2>5. Below(c, f) <=> /\ IsPrefixName(c, f) /\ ~IsDir(f)
                        /\ \A l \in (Len(h) + 1)..(Len(f) - 1) : Passable(f, l)
    BY <2>3, BelowMeans
  <2>6. ASSUME Below(c, f)
        PROVE  Exists(c)
    <3>1. Len(c) <= Len(f) /\ SubSeq(f, 1, Len(c)) = c
      BY <2>5, <2>6 DEF IsPrefixName
    <3>2. CASE Len(c) = Len(f)
      BY <1>4, <3>1, <3>2 DEF Exists
    <3>3. CASE Len(c) < Len(f)
      <4>1. Len(c) \in (Len(h) + 1)..(Len(f) - 1)
        BY <1>1, <2>3, <3>3
      <4>2. Passable(f, Len(c))
        BY <2>5, <2>6, <4>1
      <4> QED
        BY <3>1, <4>2 DEF Passable
    <3> QED
      BY <1>1, <2>3, <3>1, <3>2, <3>3
  <2> QED
    BY <2>2, <2>4, <2>5, <2>6
<1>7. Below(h, f) <=> \E k \in DOMAIN entries : Below(Append(h, entries[k]), f)
                                                /\ entries[k] \notin Ignored
  <2>1. ASSUME Below(h, f)
        PROVE  \E k \in DOMAIN entries : Below(Append(h, entries[k]), f)
                                         /\ entries[k] \notin Ignored
    <3>1. PICK k \in DOMAIN entries : entries[k] = f[Len(h) + 1]
      BY <1>3, <1>5, <2>1 DEF IsPrefixName
    <3>2. Below(Append(h, entries[k]), f)
      BY <1>5, <1>6, <2>1, <3>1
    <3> QED
      BY <1>5, <2>1, <3>1, <3>2
  <2>2. ASSUME NEW k \in DOMAIN entries, Below(Append(h, entries[k]), f), entries[k] \notin Ignored
        PROVE  Below(h, f)
    BY <1>5, <1>6, <2>2
  <2> QED
    BY <2>1, <2>2
<1>8. AllDifferent(entries) /\ BelowEntries(h, f, entries)
  BY <1>3, <1>6, <1>7 DEF BelowEntries, AllDifferent
<1> QED
  BY <1>3, <1>8

----------------------------------------------------------------------------
(* Counting.                                                               *)

\* One more number may be counted once more.
LEMMA CountNext ==
    ASSUME NEW n \in Nat, NEW S \in SUBSET (1..n), NEW T \in SUBSET (1..(n + 1)),
           \A k \in 1..n : k \in T <=> k \in S
    PROVE  /\ Cardinality(S) \in Nat
           /\ Cardinality(T) = Cardinality(S) + (IF n + 1 \in T THEN 1 ELSE 0)
<1>1. IsFiniteSet(1..n)
  BY FS_Interval
<1>2. IsFiniteSet(S) /\ Cardinality(S) \in Nat
  BY <1>1, FS_Subset, FS_CardinalityType
<1>3. n + 1 \notin S
  OBVIOUS
<1>4. \A k \in 1..(n + 1) : k \in 1..n \/ k = n + 1
  OBVIOUS
<1>5. CASE n + 1 \in T
  <2>1. T = S \cup {n + 1}
    BY <1>4, <1>5
  <2>2. Cardinality(S \cup {n + 1}) = Cardinality(S) + 1
    BY <1>2, <1>3, FS_AddElement
  <2> QED
    BY <1>2, <1>5, <2>1, <2>2
<1>6. CASE n + 1 \notin T
  <2>1. T = S
    BY <1>4, <1>6
  <2> QED
    BY <1>2, <1>6, <2>1
<1> QED
  BY <1>5, <1>6

\* add_path lists a file once more.
LEMMA ListedAppend ==
    ASSUME NEW D, names \in Seq(D), NEW x \in D, names' = Append(names, x), NEW f
    PROVE  /\ Listed(f) \in Nat
           /\ Listed(f)' = Listed(f) + (IF f = x THEN 1 ELSE 0)
<1>1. PICK n \in Nat : n = Len(names)
  BY LenProperties
<1>2. PICK w : w = names'
  OBVIOUS
<1>3. /\ Len(w) = n + 1
      /\ \A k \in 1..n : w[k] = names[k]
      /\ w[n + 1] = x
  BY <1>1, <1>2, AppendProperties
<1>4. PICK S, T : S = {k \in 1..n : names[k] = f} /\ T = {k \in 1..(n + 1) : w[k] = f}
  OBVIOUS
<1>5. /\ S \in SUBSET (1..n) /\ T \in SUBSET (1..(n + 1))
      /\ \A k \in 1..n : k \in T <=> k \in S
  BY <1>1, <1>3, <1>4
<1>6. n + 1 \in T <=> f = x
  BY <1>1, <1>3, <1>4
<1>7. Cardinality(S) \in Nat /\ Cardinality(T) = Cardinality(S) + (IF n + 1 \in T THEN 1 ELSE 0)
  BY <1>1, <1>5, CountNext
<1>8. Listed(f) = Cardinality(S)
  BY <1>1, <1>4 DEF Listed
<1>9. Listed(f)' = Cardinality(T)
  BY <1>2, <1>3, <1>4 DEF Listed
<1> QED
  BY <1>6, <1>7, <1>8, <1>9

\* A list holds a file a number of times.
LEMMA ListedType ==
    ASSUME NEW D, names \in Seq(D), NEW f
    PROVE  Listed(f) \in Nat
<1>1. PICK n \in Nat : n = Len(names)
  BY LenProperties
<1>2. PICK S : S = {k \in 1..n : names[k] = f}
  OBVIOUS
<1>3. IsFiniteSet(1..n) /\ S \subseteq 1..n
  BY <1>2, FS_Interval
<1>4. Cardinality(S) \in Nat
  BY <1>3, FS_Subset, FS_CardinalityType
<1> QED
  BY <1>1, <1>2, <1>4 DEF Listed

\* One more path may ask for a file.
LEMMA AskedNext ==
    ASSUME NEW j \in Nat, NEW f
    PROVE  /\ AskedUpTo(j, f) \in Nat
           /\ AskedUpTo(j + 1, f) = AskedUpTo(j, f) + (IF AsksFor(j + 1, f) THEN 1 ELSE 0)
<1>1. PICK S, T : S = {k \in 1..j : AsksFor(k, f)} /\ T = {k \in 1..(j + 1) : AsksFor(k, f)}
  OBVIOUS
<1>2. /\ S \in SUBSET (1..j) /\ T \in SUBSET (1..(j + 1))
      /\ \A k \in 1..j : k \in T <=> k \in S
  BY <1>1
<1>3. j + 1 \in T <=> AsksFor(j + 1, f)
  BY <1>1
<1>4. Cardinality(S) \in Nat /\ Cardinality(T) = Cardinality(S) + (IF j + 1 \in T THEN 1 ELSE 0)
  BY <1>2, CountNext
<1> QED
  BY <1>1, <1>3, <1>4 DEF AskedUpTo

----------------------------------------------------------------------------
(* What the slave and the command line determine.                          *)

\* What the rank of the slave determines.
LEMMA SameSlave ==
    ASSUME rank' = rank
    PROVE  /\ \A n : (Exists(n)' <=> Exists(n)) /\ (IsDir(n)' <=> IsDir(n))
           /\ \A p, f : Below(p, f)' <=> Below(p, f)
           /\ \A p : (Accepted(p)' <=> Accepted(p)) /\ Preprocessed(p)' = Preprocessed(p)
<1>1. PICK r : r = rank /\ r = rank'
  OBVIOUS
<1>2. ASSUME NEW n
      PROVE  (Exists(n)' <=> Exists(n)) /\ (IsDir(n)' <=> IsDir(n))
  BY <1>1 DEF Exists, IsDir
<1>3. ASSUME NEW p, NEW f
      PROVE  Below(p, f)' <=> Below(p, f)
  BY <1>1 DEF Below, Exists, IsDir, IsPrefixName
<1>4. ASSUME NEW p
      PROVE  (Accepted(p)' <=> Accepted(p)) /\ Preprocessed(p)' = Preprocessed(p)
  BY <1>1 DEF Accepted, Preprocessed
<1> QED
  BY <1>2, <1>3, <1>4

\* What rank and command line determine.
LEMMA SameCommand ==
    ASSUME rank' = rank, cmd' = cmd
    PROVE  /\ HasRange' <=> HasRange
           /\ Intervals' = Intervals
           /\ \A k, f : AsksFor(k, f)' <=> AsksFor(k, f)
           /\ \A j, f : AskedUpTo(j, f)' = AskedUpTo(j, f)
<1>1. PICK c : c = cmd /\ c = cmd'
  OBVIOUS
<1>2. HasRange' <=> HasRange
  BY DEF HasRange
<1>3. Intervals' = Intervals
  BY DEF Intervals
<1>4. ASSUME NEW p, NEW f
      PROVE  InRange(p, f)' <=> InRange(p, f)
  BY <1>3 DEF InRange
<1>5. ASSUME NEW k, NEW f
      PROVE  AsksFor(k, f)' <=> AsksFor(k, f)
  <2>1. PICK q : q = c.paths[k]
    OBVIOUS
  <2>2. PICK p : p = Preprocessed(q) /\ p = Preprocessed(q)'
    BY SameSlave
  <2>3. AsksFor(k, f) <=> /\ Accepted(q) /\ Exists(p)
                          /\ IF HasRange /\ IsDir(p) THEN InRange(p, f) ELSE Below(p, f)
    BY <1>1, <2>1, <2>2 DEF AsksFor
  <2>4. AsksFor(k, f)' <=> /\ Accepted(q)' /\ Exists(p)'
                           /\ IF HasRange' /\ IsDir(p)' THEN InRange(p, f)' ELSE Below(p, f)'
    BY <1>1, <2>1, <2>2 DEF AsksFor
  <2>5. /\ Accepted(q)' <=> Accepted(q)
        /\ Exists(p)' <=> Exists(p)
        /\ IsDir(p)' <=> IsDir(p)
        /\ Below(p, f)' <=> Below(p, f)
        /\ InRange(p, f)' <=> InRange(p, f)
    BY <1>4, SameSlave
  <2> QED
    BY <1>2, <2>3, <2>4, <2>5
<1>6. ASSUME NEW j, NEW f
      PROVE  AskedUpTo(j, f)' = AskedUpTo(j, f)
  <2>1. {k \in 1..j : AsksFor(k, f)'} = {k \in 1..j : AsksFor(k, f)}
    BY <1>5
  <2> QED
    BY <2>1 DEF AskedUpTo
<1> QED
  BY <1>2, <1>3, <1>5, <1>6

\* What rank and the path in work determine.
LEMMA SamePending ==
    ASSUME rank' = rank, new_path' = new_path
    PROVE  \A n, f : Pending(n, f)' <=> Pending(n, f)
<1> TAKE n, f
<1>1. PassedOver(n)' <=> PassedOver(n)
  BY DEF PassedOver
<1> QED
  BY <1>1, SameSlave DEF Pending

----------------------------------------------------------------------------
(* The steps of path_array_gen.                                            *)

\* The types of the command line, in parts.
LEMMA CommandTypes ==
    ASSUME ListTypes
    PROVE  /\ cmd.paths \in Seq(Path) /\ Len(cmd.paths) \in Nat
           /\ cmd.begin \in Int /\ cmd.end \in Int
           /\ i \in Nat \ {0} /\ i - 1 \in Nat
<1>1. cmd \in [paths: Seq(Path), begin: Int, end: Int]
  BY DEF ListTypes
<1>2. cmd.paths \in Seq(Path) /\ cmd.begin \in Int /\ cmd.end \in Int
  BY <1>1
<1>3. Len(cmd.paths) \in Nat
  BY <1>2, LenProperties
<1>4. i \in 1..(Len(cmd.paths) + 1)
  BY DEF ListTypes
<1> QED
  BY <1>2, <1>3, <1>4

\* The names behind the entries of a directory.
LEMMA ChildNames ==
    ASSUME rank \in Ranks, NEW n \in DOMAIN Fs[rank], IsDir(n), Fs[rank][n].readable,
           NEW entries, entries = Fs[rank][n].entries
    PROVE  /\ entries \in Seq(STRING)
           /\ Children(n) \in Seq(Seq(STRING)) /\ Len(Children(n)) = Len(entries)
           /\ DOMAIN entries = 1..Len(entries)
           /\ \A k \in DOMAIN entries : Children(n)[k] = Append(n, entries[k])
<1>1. entries \in Seq(STRING)
  BY BelowDir
<1>2. PICK m \in Nat : m = Len(entries)
  BY <1>1, LenProperties
<1>3. DOMAIN entries = 1..m
  BY <1>1, <1>2, LenProperties
<1>4. n \in Seq(STRING)
  BY NamesExist
<1>5. \A k \in 1..m : Append(n, entries[k]) \in Seq(STRING)
  <2> TAKE k \in 1..m
  <2>1. entries[k] \in STRING
    BY <1>1, <1>2, ElementOfSeq
  <2> QED
    BY <1>4, <2>1, AppendProperties
<1>6. Children(n) = [k \in 1..m |-> Append(n, entries[k])]
  BY <1>3 DEF Children
<1>7. Children(n) \in Seq(Seq(STRING)) /\ Len(Children(n)) = m
  BY <1>5, <1>6
<1> QED
  BY <1>1, <1>2, <1>3, <1>6, <1>7

\* add_path enlarges the array in time.
LEMMA AddPathTypes ==
    ASSUME ListTypes, NEW n, Exists(n), AddPath(n)
    PROVE  /\ names' \in Seq(DOMAIN Fs[rank])
           /\ names_size' \in Nat \ {0} /\ Len(names') <= names_size'
<1>1. names \in Seq(DOMAIN Fs[rank]) /\ n \in DOMAIN Fs[rank]
  BY DEF ListTypes, Exists
<1>2. PICK a \in Nat : a = Len(names)
  BY <1>1, LenProperties
<1>3. names' \in Seq(DOMAIN Fs[rank]) /\ Len(names') = a + 1
  BY <1>1, <1>2, AppendProperties DEF AddPath
<1>4. PICK s \in Nat : s = names_size /\ s > 0 /\ a <= s
  BY <1>2 DEF ListTypes
<1>5. PICK g \in Nat : g = PATH_ARRAY_GROWTH_FACTOR /\ g > 1
  BY PathAssumption
<1>6. s * g \in Nat /\ s * g >= s + 1
  BY <1>4, <1>5
<1>7. names_size' = IF a = s THEN s * g ELSE s
  BY <1>2, <1>4, <1>5 DEF AddPath
<1> QED
  BY <1>2, <1>3, <1>4, <1>6, <1>7

\* The steps keep the types.
LEMMA TypesStep == ASSUME ListTypes, Step PROVE ListTypes'
<1>1. /\ Len(cmd.paths) \in Nat /\ i \in Nat \ {0}
      /\ cmd.begin \in Int /\ cmd.end \in Int
  BY CommandTypes
<1>2. rank \in Ranks /\ FLOW_FILE_ROTATION_INTERVAL \in Int
  BY CalendarAssumption DEF ListTypes
<1>3. CASE SkipPath
  <2>1. i + 1 \in 1..(Len(cmd.paths) + 1)
    BY <1>1, <1>3 DEF SkipPath
  <2> QED
    BY <1>3, <2>1 DEF ListTypes, SkipPath, arrayVars
<1>4. CASE StartPath
  <2>1. PICK p : p = Preprocessed(cmd.paths[i])
    OBVIOUS
  <2>2. p \in DOMAIN Fs[rank] /\ p \in Seq(STRING)
    BY <1>2, <1>4, <2>1, NamesExist DEF StartPath, Exists
  <2>3. <<p>> \in Seq(Seq(STRING))
    BY <2>2
  <2>4. /\ todo' \in Seq(Seq(STRING)) /\ ctx' \in Int /\ pc' \in {"path", "time", "walk"}
        /\ new_path' = p /\ i <= Len(cmd.paths)
        /\ UNCHANGED <<rank, cmd, i, names, names_size>>
    BY <1>1, <1>4, <2>1, <2>3 DEF ListTypes, StartPath, arrayVars
  <2> QED
    BY <2>2, <2>4 DEF ListTypes
<1>5. CASE TimeTooLong
  BY <1>5 DEF ListTypes, TimeTooLong, vars, arrayVars
<1>6. CASE TimeFile
  <2>1. ctx' \in Int
    BY <1>2, <1>6 DEF ListTypes, TimeFile
  <2>2. /\ names' \in Seq(DOMAIN Fs[rank])
        /\ names_size' \in Nat \ {0} /\ Len(names') <= names_size'
    <3>1. CASE Exists(FileOf(ctx))
      BY <1>6, <3>1, AddPathTypes DEF TimeFile
    <3>2. CASE ~Exists(FileOf(ctx))
      BY <1>6, <3>2 DEF TimeFile, ListTypes, arrayVars
    <3> QED
      BY <3>1, <3>2
  <2> QED
    BY <1>6, <2>1, <2>2 DEF ListTypes, TimeFile
<1>7. ASSUME EndPath, pc # "path"
      PROVE  ListTypes'
  <2>1. i + 1 \in 1..(Len(cmd.paths) + 1)
    BY <1>1, <1>7 DEF ListTypes
  <2> QED
    BY <1>7, <2>1 DEF ListTypes, EndPath, arrayVars
<1>8. CASE TimeEnd
  BY <1>7, <1>8 DEF TimeEnd
<1>9. CASE Visit
  <2>1. PICK n : n = Head(todo)
    OBVIOUS
  <2>2. n \in Seq(STRING) /\ Tail(todo) \in Seq(Seq(STRING))
    BY <1>9, <2>1, HeadTailProperties DEF ListTypes, Visit
  <2>3. CASE Exists(n) /\ AddPath(n) /\ todo' = Tail(todo)
    <3>1. /\ names' \in Seq(DOMAIN Fs[rank])
          /\ names_size' \in Nat \ {0} /\ Len(names') <= names_size'
      BY <2>3, AddPathTypes
    <3> QED
      BY <1>9, <2>2, <2>3, <3>1 DEF ListTypes, Visit
  <2>4. CASE /\ Exists(n) /\ IsDir(n) /\ Fs[rank][n].readable
             /\ todo' = Children(n) \o Tail(todo) /\ UNCHANGED arrayVars
    <3>1. Children(n) \in Seq(Seq(STRING))
      BY <1>2, <2>2, <2>4, ChildNames DEF Exists
    <3>2. todo' \in Seq(Seq(STRING))
      BY <2>2, <2>4, <3>1, ConcatProperties
    <3> QED
      BY <1>9, <2>4, <3>2 DEF ListTypes, Visit, arrayVars
  <2>5. CASE todo' = Tail(todo) /\ UNCHANGED arrayVars
    BY <1>9, <2>2, <2>5 DEF ListTypes, Visit, arrayVars
  <2> QED
    BY <1>9, <2>1, <2>3, <2>4, <2>5 DEF Visit
<1>10. CASE WalkEnd
  BY <1>7, <1>10 DEF WalkEnd
<1> QED
  BY <1>3, <1>4, <1>5, <1>6, <1>8, <1>9, <1>10 DEF Step

\* A path that is passed over asks for nothing.
LEMMA SkipPathInv == ASSUME ListInv, SkipPath PROVE ListInv'
<1>1. /\ pc = "path" /\ i <= Len(cmd.paths) /\ i' = i + 1
      /\ rank' = rank /\ cmd' = cmd /\ pc' = pc /\ new_path' = new_path /\ ctx' = ctx
      /\ todo' = todo /\ names' = names /\ names_size' = names_size
  BY DEF SkipPath, arrayVars
<1>2. ListTypes
  BY DEF ListInv
<1>3. /\ Len(cmd.paths) \in Nat /\ i \in Nat \ {0} /\ i - 1 \in Nat
  BY <1>2, CommandTypes
<1>4. ListTypes'
  BY <1>2, TypesStep DEF Step
<1>5. PathInWork' /\ WalkInv'
  BY <1>1 DEF PathInWork, WalkInv
<1>6. ASSUME NEW f \in DOMAIN Fs[rank]
      PROVE  Listed(f)' = AskedUpTo(i - 1, f)' + (IF Reached(f)' THEN 1 ELSE 0)
  <2>1. Listed(f)' = Listed(f)
    BY <1>1 DEF Listed
  <2>2. ~Reached(f) /\ ~Reached(f)'
    BY <1>1 DEF Reached
  <2>3. Listed(f) = AskedUpTo(i - 1, f)
    <3>1. AskedUpTo(i - 1, f) \in Nat
      BY <1>3, AskedNext
    <3> QED
      BY <2>2, <3>1 DEF ListInv, CountInv
  <2>4. ~AsksFor(i, f)
    BY DEF SkipPath, AsksFor
  <2>5. PICK j \in Nat : j = i - 1 /\ j + 1 = i /\ i' - 1 = j + 1
    BY <1>1, <1>3
  <2>6. AskedUpTo(j, f) \in Nat /\ AskedUpTo(j + 1, f) = AskedUpTo(j, f)
    BY <2>4, <2>5, AskedNext
  <2>7. AskedUpTo(j + 1, f)' = AskedUpTo(j + 1, f)
    BY <1>1, SameCommand
  <2>8. AskedUpTo(i - 1, f)' = AskedUpTo(j + 1, f)'
    BY <2>5
  <2> QED
    BY <2>1, <2>2, <2>3, <2>5, <2>6, <2>7, <2>8
<1>7. CountInv'
  BY <1>1, <1>6 DEF CountInv
<1> QED
  BY <1>4, <1>5, <1>7 DEF ListInv

\* An accepted path is put in work; nothing of it is reached yet.
LEMMA StartPathInv == ASSUME ListInv, StartPath PROVE ListInv'
<1>1. PICK p : p = Preprocessed(cmd.paths[i])
  OBVIOUS
<1>2. /\ pc = "path" /\ i <= Len(cmd.paths) /\ Accepted(cmd.paths[i]) /\ Exists(p)
      /\ new_path' = p
      /\ \/ HasRange /\ IsDir(p) /\ pc' = "time" /\ ctx' = cmd.begin /\ todo' = todo
         \/ ~(HasRange /\ IsDir(p)) /\ pc' = "walk" /\ todo' = <<p>> /\ ctx' = ctx
      /\ rank' = rank /\ cmd' = cmd /\ i' = i /\ names' = names /\ names_size' = names_size
  BY <1>1 DEF StartPath, arrayVars
<1>3. ListTypes /\ rank \in Ranks
  BY DEF ListInv, ListTypes
<1>4. cmd.begin \in Int /\ cmd.end \in Int
  BY <1>3, CommandTypes
<1>5. p \in DOMAIN Fs[rank] /\ p \in Seq(STRING)
  BY <1>2, <1>3, NamesExist DEF Exists
<1>6. ListTypes'
  BY <1>3, TypesStep DEF Step
<1>7. PathInWork'
  <2>1. Accepted(cmd.paths[i])' /\ Exists(p)' /\ (IsDir(p)' <=> IsDir(p))
        /\ p = Preprocessed(cmd.paths[i])'
    <3>1. PICK q : q = cmd.paths[i] /\ q = cmd'.paths[i']
      BY <1>2
    <3>2. (Accepted(q)' <=> Accepted(q)) /\ Preprocessed(q)' = Preprocessed(q)
          /\ (Exists(p)' <=> Exists(p)) /\ (IsDir(p)' <=> IsDir(p))
      BY <1>2, SameSlave
    <3> QED
      BY <1>1, <1>2, <3>1, <3>2
  <2>2. HasRange' <=> HasRange
    BY <1>2, SameCommand
  <2>3. pc' = "time" => ctx' = cmd.begin
    BY <1>2
  <2>4. (cmd.begin - cmd.begin) % FLOW_FILE_ROTATION_INTERVAL = 0 /\ cmd.begin <= cmd.begin
    BY <1>4, CalendarAssumption
  <2> QED
    BY <1>2, <2>1, <2>2, <2>3, <2>4 DEF PathInWork
<1>8. SubSeq(p, 1, Len(p)) = p /\ Len(p) \in Nat
  BY <1>5, SubSeqFull, LenProperties
<1>9. \A f : Pending(p, f)' <=> Below(p, f)'
  BY <1>2 DEF Pending, PassedOver
<1>10. WalkInv'
  <2>1. CASE pc' = "walk"
    <3>1. todo' = <<p>> /\ DOMAIN todo' = {1} /\ todo'[1] = p
      BY <1>2, <2>1
    <3>2. IsPrefixName(p, p)
      BY <1>8 DEF IsPrefixName
    <3> QED
      BY <1>2, <1>9, <3>1, <3>2 DEF WalkInv
  <2>2. CASE pc' # "walk"
    BY <2>2 DEF WalkInv
  <2> QED
    BY <2>1, <2>2
<1>11. ASSUME NEW f \in DOMAIN Fs[rank]
       PROVE  Listed(f)' = AskedUpTo(i - 1, f)' + (IF Reached(f)' THEN 1 ELSE 0)
  <2>1. Listed(f)' = Listed(f)
    BY <1>2 DEF Listed
  <2>2. ~Reached(f)
    BY <1>2 DEF Reached
  <2>3. ~Reached(f)'
    <3>1. CASE pc' = "time"
      <4>1. ctx' = cmd.begin
        BY <1>2, <3>1
      <4>2. \A t \in Intervals' : ~(t < ctx')
        BY <1>2, <1>4, <4>1 DEF Intervals
      <4> QED
        BY <3>1, <4>2 DEF Reached
    <3>2. CASE pc' = "walk"
      <4>1. todo' = <<p>> /\ 1 \in DOMAIN todo' /\ todo'[1] = p
        BY <1>2, <3>2
      <4> QED
        BY <1>2, <1>9, <3>2, <4>1 DEF Reached
    <3> QED
      BY <1>2, <3>1, <3>2
  <2>4. PICK j : j = i - 1 /\ j = i' - 1
    BY <1>2
  <2>5. AskedUpTo(j, f)' = AskedUpTo(j, f)
    BY <1>2, SameCommand
  <2>6. Listed(f) = AskedUpTo(j, f) + 0
    BY <2>2, <2>4 DEF ListInv, CountInv
  <2> QED
    BY <2>1, <2>3, <2>4, <2>5, <2>6
<1>12. CountInv'
  BY <1>2, <1>11 DEF CountInv
<1> QED
  BY <1>6, <1>7, <1>10, <1>12 DEF ListInv

\* A path that is through has led to exactly the files it asks for.
LEMMA EndPathInv ==
    ASSUME ListInv, pc # "path", EndPath,
           \A f \in DOMAIN Fs[rank] : Reached(f) <=> AsksFor(i, f)
    PROVE  ListInv'
<1>1. /\ i' = i + 1 /\ pc' = "path"
      /\ rank' = rank /\ cmd' = cmd /\ new_path' = new_path /\ ctx' = ctx
      /\ todo' = todo /\ names' = names /\ names_size' = names_size
  BY DEF EndPath, arrayVars
<1>2. ListTypes
  BY DEF ListInv
<1>3. /\ Len(cmd.paths) \in Nat /\ i \in Nat \ {0} /\ i - 1 \in Nat
  BY <1>2, CommandTypes
<1>4. ListTypes'
  <2>1. i <= Len(cmd.paths)
    BY <1>2 DEF ListTypes
  <2>2. i + 1 \in 1..(Len(cmd.paths) + 1)
    BY <1>3, <2>1
  <2> QED
    BY <1>1, <1>2, <2>2 DEF ListTypes
<1>5. PathInWork' /\ WalkInv'
  BY <1>1 DEF PathInWork, WalkInv
<1>6. ASSUME NEW f \in DOMAIN Fs[rank]
      PROVE  Listed(f)' = AskedUpTo(i - 1, f)' + (IF Reached(f)' THEN 1 ELSE 0)
  <2>1. Listed(f)' = Listed(f)
    BY <1>1 DEF Listed
  <2>2. ~Reached(f)'
    BY <1>1 DEF Reached
  <2>3. PICK j \in Nat : j = i - 1 /\ j + 1 = i /\ i' - 1 = j + 1
    BY <1>1, <1>3
  <2>4. Listed(f) = AskedUpTo(j, f) + (IF Reached(f) THEN 1 ELSE 0)
    BY <2>3 DEF ListInv, CountInv
  <2>5. /\ AskedUpTo(j, f) \in Nat
        /\ AskedUpTo(j + 1, f) = AskedUpTo(j, f) + (IF AsksFor(j + 1, f) THEN 1 ELSE 0)
    BY <2>3, AskedNext
  <2>6. Reached(f) <=> AsksFor(j + 1, f)
    BY <2>3
  <2>7. AskedUpTo(j + 1, f)' = AskedUpTo(j + 1, f)
    BY <1>1, SameCommand
  <2>8. AskedUpTo(i - 1, f)' = AskedUpTo(j + 1, f)'
    BY <2>3
  <2>9. AskedUpTo(j + 1, f) \in Nat /\ Listed(f) = AskedUpTo(j + 1, f)
    BY <2>4, <2>5, <2>6
  <2> QED
    BY <2>1, <2>2, <2>7, <2>8, <2>9
<1>7. CountInv'
  BY <1>1, <1>6 DEF CountInv
<1> QED
  BY <1>4, <1>5, <1>7 DEF ListInv

\* FLOW_FILE_FORMAT holds a time from its year to its second: different times
\* have different names.
TimesNamed ==
    /\ \A t \in Int : FlowFileFormat(t) \in Seq(STRING)
    /\ \A s, t \in Int : FlowFileFormat(s) = FlowFileFormat(t) => s = t

\* The search by time goes on as long as the range does.
LEMMA MoreTimeMeans ==
    ASSUME ListTypes
    PROVE  MoreTime <=> ctx < cmd.end
<1>1. PICK c, e : c = ctx /\ e = cmd.end
  OBVIOUS
<1>2. c \in Int /\ e \in Int
  BY <1>1, CommandTypes DEF ListTypes
<1>3. TmDiff(Gmtime(e), Gmtime(c)) = e - c
  BY <1>2, DiffExact
<1> QED
  BY <1>1, <1>2, <1>3 DEF MoreTime

\* An interval before the next one is the present one or comes before it.
LEMMA NextInterval ==
    ASSUME ListTypes, PathInWork, pc = "time", MoreTime
    PROVE  /\ ctx \in Intervals
           /\ \A t \in Intervals : t < ctx + FLOW_FILE_ROTATION_INTERVAL <=> t < ctx \/ t = ctx
           /\ cmd.begin <= ctx + FLOW_FILE_ROTATION_INTERVAL
           /\ Aligned(ctx + FLOW_FILE_ROTATION_INTERVAL - cmd.begin)
<1>1. PICK c, b, e, r : c = ctx /\ b = cmd.begin /\ e = cmd.end /\ r = FLOW_FILE_ROTATION_INTERVAL
  OBVIOUS
<1>2. c \in Int /\ b \in Int /\ e \in Int /\ r \in Int /\ r > 0 /\ c < e
  BY <1>1, CommandTypes, MoreTimeMeans, CalendarAssumption DEF ListTypes
<1>3. b <= c /\ Aligned(c - b)
  BY <1>1 DEF PathInWork, Aligned
<1>4. Aligned(c - b + r)
  <2>1. PICK x \in Int : x = c - b
    BY <1>2
  <2>2. Aligned(x + r)
    BY <1>1, <1>3, <2>1, AlignedApart
  <2> QED
    BY <2>1, <2>2
<1>5. c - b + r = c + r - b
  BY <1>2
<1>6. \A t : t \in Intervals <=> t \in Int /\ b <= t /\ t < e /\ Aligned(t - b)
  BY <1>1, <1>2 DEF Intervals, Aligned
<1>7. ASSUME NEW t \in Intervals
      PROVE  t < c + r <=> t < c \/ t = c
  <2>1. t \in Int /\ Aligned(t - b)
    BY <1>6, <1>7
  <2>2. PICK x, y : x = c - b /\ y = t - b
    OBVIOUS
  <2>3. x \in Int /\ y \in Int /\ Aligned(x) /\ Aligned(y)
    BY <1>2, <1>3, <2>1, <2>2
  <2>4. x < y => x + r <= y
    BY <1>1, <2>3, AlignedApart
  <2> QED
    BY <1>2, <2>1, <2>2, <2>4
<1> QED
  BY <1>1, <1>2, <1>3, <1>4, <1>5, <1>6, <1>7

\* The file of an interval is listed if it exists, once.
LEMMA TimeFileInv == ASSUME TimesNamed, ListInv, TimeFile PROVE ListInv'
<1>1. PICK c, n, r : c = ctx /\ n = FileOf(ctx) /\ r = FLOW_FILE_ROTATION_INTERVAL
  OBVIOUS
<1>2. /\ pc = "time" /\ MoreTime /\ ctx' = c + r
      /\ Exists(n) => AddPath(n)
      /\ ~Exists(n) => names' = names
      /\ rank' = rank /\ cmd' = cmd /\ pc' = pc /\ i' = i /\ new_path' = new_path
      /\ todo' = todo
  BY <1>1 DEF TimeFile, arrayVars
<1>3. ListTypes /\ PathInWork
  BY DEF ListInv
<1>4. /\ c \in Intervals
      /\ \A t \in Intervals : t < c + r <=> t < c \/ t = c
      /\ cmd.begin <= c + r /\ Aligned(c + r - cmd.begin)
  BY <1>1, <1>2, <1>3, NextInterval
<1>5. ListTypes'
  BY <1>3, TypesStep DEF Step
<1>6. PathInWork'
  <2>1. /\ Accepted(cmd.paths[i]) /\ Exists(new_path)
        /\ new_path = Preprocessed(cmd.paths[i]) /\ HasRange /\ IsDir(new_path)
    BY <1>2, <1>3 DEF PathInWork
  <2>2. PICK q, p : q = cmd.paths[i] /\ p = new_path
    OBVIOUS
  <2>3. /\ Accepted(q)' /\ Exists(p)' /\ IsDir(p)' /\ p = Preprocessed(q)' /\ HasRange'
    BY <1>2, <2>1, <2>2, SameSlave, SameCommand
  <2>4. /\ Accepted(cmd.paths[i])' /\ Exists(new_path)' /\ IsDir(new_path)'
        /\ new_path' = Preprocessed(cmd.paths[i])'
    BY <1>2, <2>2, <2>3
  <2>5. cmd'.begin <= ctx' /\ (ctx' - cmd'.begin) % FLOW_FILE_ROTATION_INTERVAL = 0
    <3>1. PICK x : x = c + r
      OBVIOUS
    <3>2. PICK b : b = cmd.begin
      OBVIOUS
    <3>3. b <= x /\ (x - b) % r = 0
      <4>0. c \in Int /\ r \in Int /\ b \in Int
        BY <1>1, <1>3, <3>2, CommandTypes, CalendarAssumption DEF ListTypes
      <4>1. b <= c + r /\ Aligned(c + r - b)
        BY <1>4, <3>2
      <4>2. b <= x /\ Aligned(x - b)
        BY <3>1, <4>0, <4>1
      <4> QED
        BY <1>1, <4>2 DEF Aligned
    <3>4. ctx' = x /\ cmd'.begin = b
      BY <1>2, <3>1, <3>2
    <3> QED
      BY <1>1, <3>3, <3>4
  <2> QED
    BY <1>2, <2>3, <2>4, <2>5 DEF PathInWork
<1>7. WalkInv'
  BY <1>2 DEF WalkInv
<1>8. ASSUME NEW f \in DOMAIN Fs[rank]
      PROVE  Listed(f)' = AskedUpTo(i - 1, f)' + (IF Reached(f)' THEN 1 ELSE 0)
  <2>1. PICK p : p = new_path
    OBVIOUS
  <2>2. Reached(f) <=> \E t \in Intervals : t < c /\ f = p \o FlowFileFormat(t)
    BY <1>1, <1>2, <2>1 DEF Reached, FileOf
  <2>3. Reached(f)' <=> \E t \in Intervals : t < c + r /\ f = p \o FlowFileFormat(t)
    <3>1. Intervals' = Intervals
      BY <1>2, SameCommand
    <3> QED
      BY <1>2, <2>1, <3>1 DEF Reached, FileOf
  <2>4. n = p \o FlowFileFormat(c)
    BY <1>1, <2>1 DEF FileOf
  <2>5. Reached(f)' <=> Reached(f) \/ f = n
    BY <1>4, <2>2, <2>3, <2>4
  <2>6. ~(Reached(f) /\ f = n)
    <3> SUFFICES ASSUME NEW t \in Intervals, t < c, f = p \o FlowFileFormat(t), f = n PROVE FALSE
      BY <2>2
    <3>1. t \in Int /\ c \in Int
      BY <1>3, <1>4, CommandTypes DEF Intervals
    <3>2. PICK a, b : a = FlowFileFormat(t) /\ b = FlowFileFormat(c)
      OBVIOUS
    <3>3. a \in Seq(STRING) /\ b \in Seq(STRING) /\ p \in Seq(STRING)
      BY <1>3, <2>1, <3>1, <3>2 DEF TimesNamed, ListTypes
    <3>4. p \o a = p \o b
      BY <2>4, <3>2
    <3>5. a = b
      BY <3>3, <3>4, ConcatSimplifications
    <3>6. t = c
      BY <3>1, <3>2, <3>5 DEF TimesNamed
    <3> QED
      BY <3>1, <3>6
  <2>7. Listed(f) \in Nat /\ Listed(f)' = Listed(f) + (IF f = n THEN 1 ELSE 0)
    <3>0. names \in Seq(DOMAIN Fs[rank])
      BY <1>3 DEF ListTypes
    <3>1. CASE Exists(n)
      <4>1. names' = Append(names, n) /\ n \in DOMAIN Fs[rank]
        BY <1>2, <3>1 DEF AddPath, Exists
      <4> QED
        BY <3>0, <4>1, ListedAppend
    <3>2. CASE ~Exists(n)
      <4>1. Listed(f)' = Listed(f) /\ f # n
        BY <1>2, <3>2 DEF Listed, Exists
      <4>2. Listed(f) \in Nat
        BY <3>0, ListedType
      <4> QED
        BY <4>1, <4>2
    <3> QED
      BY <3>1, <3>2
  <2>8. PICK j : j = i - 1 /\ j = i' - 1
    BY <1>2
  <2>9. AskedUpTo(j, f)' = AskedUpTo(j, f)
    BY <1>2, SameCommand
  <2>10. AskedUpTo(j, f) \in Nat
    <3>1. j \in Nat
      BY <1>3, <2>8, CommandTypes
    <3> QED
      BY <3>1, AskedNext
  <2>11. Listed(f) = AskedUpTo(j, f) + (IF Reached(f) THEN 1 ELSE 0)
    BY <2>8 DEF ListInv, CountInv
  <2>12. Listed(f)' = AskedUpTo(j, f) + (IF Reached(f)' THEN 1 ELSE 0)
    BY <2>5, <2>6, <2>7, <2>10, <2>11
  <2> QED
    BY <2>8, <2>9, <2>12
<1>9. CountInv'
  BY <1>2, <1>8 DEF CountInv
<1> QED
  BY <1>5, <1>6, <1>7, <1>9 DEF ListInv

\* At the end of the range all its files are reached.
LEMMA TimeEndInv == ASSUME ListInv, TimeEnd PROVE ListInv'
<1>1. pc = "time" /\ ~MoreTime /\ EndPath /\ ListTypes /\ PathInWork
  BY DEF ListInv, TimeEnd
<1>2. PICK p : p = new_path
  OBVIOUS
<1>3. \A t \in Intervals : t < ctx
  <2>1. PICK c, b, e : c = ctx /\ b = cmd.begin /\ e = cmd.end
    OBVIOUS
  <2>2. c \in Int /\ b \in Int /\ e \in Int /\ ~(c < e)
    BY <1>1, <2>1, CommandTypes, MoreTimeMeans DEF ListTypes
  <2> QED
    BY <2>1, <2>2 DEF Intervals
<1>4. ASSUME NEW f \in DOMAIN Fs[rank]
      PROVE  Reached(f) <=> AsksFor(i, f)
  <2>1. Reached(f) <=> \E t \in Intervals : f = p \o FlowFileFormat(t)
    BY <1>1, <1>2, <1>3 DEF Reached, FileOf
  <2>2. AsksFor(i, f) <=> InRange(p, f)
    BY <1>1, <1>2 DEF AsksFor, PathInWork
  <2> QED
    BY <2>1, <2>2 DEF InRange
<1> QED
  BY <1>1, <1>4, EndPathInv

\* At the end of a walk all files below the path are reached.
LEMMA WalkEndInv == ASSUME ListInv, WalkEnd PROVE ListInv'
<1>1. pc = "walk" /\ todo = <<>> /\ EndPath /\ ListTypes /\ PathInWork
  BY DEF ListInv, WalkEnd
<1>2. PICK p : p = new_path
  OBVIOUS
<1>3. DOMAIN todo = {}
  BY <1>1
<1>4. ASSUME NEW f \in DOMAIN Fs[rank]
      PROVE  Reached(f) <=> AsksFor(i, f)
  <2>1. Reached(f) <=> Below(p, f)
    BY <1>1, <1>2, <1>3 DEF Reached
  <2>2. AsksFor(i, f) <=> Below(p, f)
    BY <1>1, <1>2 DEF AsksFor, PathInWork
  <2> QED
    BY <2>1, <2>2
<1> QED
  BY <1>1, <1>4, EndPathInv

\* The walk comes to what lies below a directory through exactly one of its entries.
LEMMA ChildrenPending ==
    ASSUME rank \in Ranks, new_path \in Seq(STRING),
           NEW n \in DOMAIN Fs[rank], IsDir(n), Fs[rank][n].readable,
           ~PassedOver(n), IsPrefixName(new_path, n)
    PROVE  /\ \A k \in DOMAIN Children(n) : IsPrefixName(new_path, Children(n)[k])
           /\ \A f \in DOMAIN Fs[rank] :
                 Pending(n, f) <=> \E k \in DOMAIN Children(n) : Pending(Children(n)[k], f)
           /\ \A f \in DOMAIN Fs[rank] : \A j, k \in DOMAIN Children(n) :
                 Pending(Children(n)[j], f) /\ Pending(Children(n)[k], f) => j = k
<1>1. PICK entries : entries = Fs[rank][n].entries
  OBVIOUS
<1>2. PICK c : c = Children(n)
  OBVIOUS
<1>3. /\ entries \in Seq(STRING) /\ c \in Seq(Seq(STRING)) /\ Len(c) = Len(entries)
      /\ DOMAIN entries = 1..Len(entries)
      /\ \A k \in DOMAIN entries : c[k] = Append(n, entries[k])
  BY <1>1, <1>2, ChildNames
<1>4. DOMAIN c = DOMAIN entries
  BY <1>3, LenProperties
<1>5. n \in Seq(STRING) /\ Len(n) \in Nat /\ Len(new_path) \in Nat
  BY NamesExist, LenProperties
<1>6. ASSUME NEW k \in DOMAIN c
      PROVE  /\ c[k] = Append(n, entries[k]) /\ c[k] \in Seq(STRING) /\ Len(c[k]) = Len(n) + 1
             /\ c[k][Len(c[k])] = entries[k]
             /\ IsPrefixName(new_path, c[k]) /\ c[k] # new_path
  <2>1. c[k] = Append(n, entries[k]) /\ entries[k] \in STRING
    BY <1>3, <1>4, ElementOfSeq
  <2>2. PICK m : m = c[k]
    OBVIOUS
  <2>3. /\ m \in Seq(STRING) /\ Len(m) = Len(n) + 1 /\ m[Len(n) + 1] = entries[k]
        /\ \A j \in 1..Len(n) : m[j] = n[j]
    BY <1>5, <2>1, <2>2, AppendProperties
  <2>4. Len(new_path) <= Len(n) /\ \A j \in 1..Len(new_path) : n[j] = new_path[j]
    BY <1>5, PrefixPointwise
  <2>5. Len(new_path) <= Len(m) /\ \A j \in 1..Len(new_path) : m[j] = new_path[j]
    BY <1>5, <2>3, <2>4
  <2>6. IsPrefixName(new_path, m)
    BY <2>3, <2>5, PrefixPointwise
  <2>7. m # new_path
    BY <1>5, <2>3, <2>4
  <2> QED
    BY <2>1, <2>2, <2>3, <2>6, <2>7
<1>7. ASSUME NEW f \in DOMAIN Fs[rank]
      PROVE  /\ Below(n, f) <=> \E k \in DOMAIN c : Below(c[k], f) /\ entries[k] \notin Ignored
             /\ \A k \in DOMAIN c : Below(c[k], f) => Exists(c[k]) /\ f[Len(n) + 1] = entries[k]
             /\ \A j, k \in DOMAIN c : entries[j] = entries[k] => j = k
  <2>1. BelowEntries(n, f, entries) /\ AllDifferent(entries)
    BY <1>1, BelowDir
  <2>2. \A k \in DOMAIN c : k \in DOMAIN entries /\ Append(n, entries[k]) = c[k]
    BY <1>3, <1>4
  <2>3. PICK y : y = f[Len(n) + 1]
    OBVIOUS
  <2>4. \A k \in DOMAIN c : Below(c[k], f) => Exists(c[k]) /\ y = entries[k]
    BY <2>1, <2>2, <2>3 DEF BelowEntries
  <2>5. Below(n, f) <=> \E k \in DOMAIN c : Below(c[k], f) /\ entries[k] \notin Ignored
    BY <1>4, <2>1, <2>2 DEF BelowEntries
  <2> QED
    BY <1>4, <2>1, <2>3, <2>4, <2>5 DEF AllDifferent
<1>8. ASSUME NEW f \in DOMAIN Fs[rank], NEW k \in DOMAIN c
      PROVE  Pending(c[k], f) <=> Below(c[k], f) /\ entries[k] \notin Ignored
  <2>1. PICK m : m = c[k]
    OBVIOUS
  <2>2. PassedOver(m) <=> entries[k] \in Ignored \/ m \in LongNames
    BY <1>6, <2>1 DEF PassedOver
  <2>3. Below(m, f) => m \notin LongNames
    <3>1. Below(m, f) => m \in DOMAIN Fs[rank]
      BY <1>7, <2>1 DEF Exists
    <3> QED
      BY <3>1, NamesExist
  <2> QED
    BY <2>1, <2>2, <2>3 DEF Pending
<1>9. ASSUME NEW f \in DOMAIN Fs[rank]
      PROVE  /\ Pending(n, f) <=> \E k \in DOMAIN c : Pending(c[k], f)
             /\ \A j, k \in DOMAIN c : Pending(c[j], f) /\ Pending(c[k], f) => j = k
  <2>1. Pending(n, f) <=> Below(n, f)
    BY DEF Pending
  <2> QED
    BY <1>7, <1>8, <2>1
<1> QED
  BY <1>2, <1>6, <1>9

\* What is passed over, cannot be examined or is unreadable leads to nothing.
LEMMA NothingPending ==
    ASSUME ListTypes, NEW n \in Seq(STRING),
           PassedOver(n) \/ (Exists(n) => IsDir(n) /\ ~Fs[rank][n].readable)
    PROVE  \A f \in DOMAIN Fs[rank] : ~Pending(n, f)
<1> SUFFICES ASSUME NEW f \in DOMAIN Fs[rank], Pending(n, f) PROVE FALSE
  OBVIOUS
<1>1. ~PassedOver(n) /\ Below(n, f)
  BY DEF Pending
<1>2. ~(Exists(n) /\ IsDir(n) /\ Fs[rank][n].readable)
  BY <1>1
<1>3. f = n /\ ~IsDir(f)
  BY <1>1, <1>2, BelowFile DEF ListTypes
<1> QED
  BY <1>1, <1>3 DEF Exists

\* The path in work stays in work.
LEMMA PathInWorkSame ==
    ASSUME PathInWork, UNCHANGED <<rank, cmd, pc, i, new_path, ctx>>
    PROVE  PathInWork'
<1>1. PICK q, p : q = cmd.paths[i] /\ p = new_path
  OBVIOUS
<1>2. /\ Accepted(q)' <=> Accepted(q)
      /\ Exists(p)' <=> Exists(p)
      /\ IsDir(p)' <=> IsDir(p)
      /\ Preprocessed(q)' = Preprocessed(q)
      /\ HasRange' <=> HasRange
  BY SameSlave, SameCommand
<1>3. /\ Accepted(cmd.paths[i])' <=> Accepted(cmd.paths[i])
      /\ Exists(new_path)' <=> Exists(new_path)
      /\ IsDir(new_path)' <=> IsDir(new_path)
      /\ Preprocessed(cmd.paths[i])' = Preprocessed(cmd.paths[i])
  BY <1>1, <1>2
<1> QED
  BY <1>2, <1>3 DEF PathInWork

\* One name of the walk is replaced by what it leads to: a file is listed, a
\* directory is replaced by its entries, anything else leads to nothing.
LEMMA VisitInv == ASSUME ListInv, Visit PROVE ListInv'
<1>1. PICK n, rest, p : n = Head(todo) /\ rest = Tail(todo) /\ p = new_path
  OBVIOUS
<1>2. /\ pc = "walk" /\ todo # <<>>
      /\ UNCHANGED <<rank, cmd, pc, i, new_path, ctx>>
  BY DEF Visit
<1>3. \/ /\ ~PassedOver(n) /\ Exists(n) /\ ~IsDir(n)
         /\ names' = Append(names, n) /\ todo' = rest
      \/ /\ ~PassedOver(n) /\ Exists(n) /\ IsDir(n) /\ Fs[rank][n].readable
         /\ todo' = Children(n) \o rest /\ names' = names
      \/ /\ PassedOver(n) \/ (Exists(n) => IsDir(n) /\ ~Fs[rank][n].readable)
         /\ todo' = rest /\ names' = names
  BY <1>1 DEF Visit, AddPath, arrayVars
<1>4. ListTypes /\ PathInWork /\ WalkInv
  BY DEF ListInv
<1>5. /\ rank \in Ranks /\ p \in Seq(STRING) /\ n \in Seq(STRING)
      /\ rest \in Seq(Seq(STRING)) /\ names \in Seq(DOMAIN Fs[rank])
  BY <1>1, <1>2, <1>4, HeadTailProperties DEF ListTypes
<1>6. PICK a \in Nat : a = Len(rest)
  BY <1>5, LenProperties
<1>7. /\ DOMAIN rest = 1..a /\ DOMAIN todo = 1..(a + 1)
      /\ todo[1] = n /\ \A k \in 1..a : rest[k] = todo[k + 1]
  <2>1. todo \in Seq(Seq(STRING))
    BY <1>4 DEF ListTypes
  <2>2. Len(rest) = Len(todo) - 1 /\ \A k \in 1..Len(rest) : rest[k] = todo[k + 1]
    BY <1>1, <1>2, <2>1, HeadTailProperties
  <2>3. Len(todo) \in Nat /\ DOMAIN todo = 1..Len(todo) /\ DOMAIN rest = 1..Len(rest)
    BY <1>5, <2>1, LenProperties
  <2> QED
    BY <1>1, <1>2, <1>6, <2>2, <2>3
<1>8. /\ IsPrefixName(p, n)
      /\ \A k \in 1..a : IsPrefixName(p, rest[k])
  BY <1>1, <1>2, <1>4, <1>7 DEF WalkInv
<1>9. ASSUME NEW f \in DOMAIN Fs[rank]
      PROVE  /\ Pending(n, f) => Below(p, f)
             /\ \A k \in 1..a : Pending(rest[k], f) => Below(p, f)
             /\ \A k \in 1..a : ~(Pending(rest[k], f) /\ Pending(n, f))
             /\ \A j, k \in 1..a : Pending(rest[j], f) /\ Pending(rest[k], f) => j = k
             /\ Reached(f) <=> Below(p, f) /\ ~Pending(n, f) /\ ~\E k \in 1..a : Pending(rest[k], f)
  <2>1. /\ \A k \in 1..(a + 1) : Pending(todo[k], f) => Below(p, f)
        /\ \A j, k \in 1..(a + 1) : Pending(todo[j], f) /\ Pending(todo[k], f) => j = k
    BY <1>1, <1>2, <1>4, <1>7 DEF WalkInv
  <2>2. /\ 1 \in 1..(a + 1)
        /\ \A k \in 1..a : k + 1 \in 1..(a + 1) /\ k + 1 # 1
        /\ \A k \in 1..(a + 1) : k = 1 \/ \E j \in 1..a : k = j + 1
    <3>1. ASSUME NEW k \in 1..(a + 1), k # 1
          PROVE  \E j \in 1..a : k = j + 1
      <4>1. k - 1 \in 1..a /\ k = (k - 1) + 1
        BY <3>1
      <4> QED
        BY <4>1
    <3> QED
      BY <3>1
  <2>3. (\E k \in 1..(a + 1) : Pending(todo[k], f))
        <=> Pending(n, f) \/ \E k \in 1..a : Pending(rest[k], f)
    BY <1>7, <2>2
  <2>4. Reached(f) <=> Below(p, f) /\ ~\E k \in 1..(a + 1) : Pending(todo[k], f)
    BY <1>1, <1>2, <1>7 DEF Reached
  <2>5. /\ Pending(n, f) => Below(p, f)
        /\ \A k \in 1..a : Pending(rest[k], f) => Below(p, f)
    BY <1>7, <2>1, <2>2
  <2>6. \A k \in 1..a : ~(Pending(rest[k], f) /\ Pending(n, f))
    BY <1>7, <2>1, <2>2
  <2>7. ASSUME NEW j \in 1..a, NEW k \in 1..a, Pending(rest[j], f), Pending(rest[k], f)
        PROVE  j = k
    <3>1. j + 1 = k + 1
      BY <1>7, <2>1, <2>2, <2>7
    <3> QED
      BY <3>1
  <2> QED
    BY <2>3, <2>4, <2>5, <2>6, <2>7
<1>10. ListTypes' /\ PathInWork'
  BY <1>2, <1>4, TypesStep, PathInWorkSame DEF Step
<1>11. /\ \A f : Below(p, f)' <=> Below(p, f)
       /\ \A m, f : Pending(m, f)' <=> Pending(m, f)
  BY <1>2, SameSlave, SamePending
<1>12. ASSUME \A k \in DOMAIN todo' : IsPrefixName(p, todo'[k]),
              \A f \in DOMAIN Fs[rank] : \A k \in DOMAIN todo' : Pending(todo'[k], f) => Below(p, f),
              \A f \in DOMAIN Fs[rank] : \A j, k \in DOMAIN todo' :
                 Pending(todo'[j], f) /\ Pending(todo'[k], f) => j = k
       PROVE  WalkInv'
  <2>1. \A k \in DOMAIN todo' : IsPrefixName(new_path', todo'[k])
    BY <1>1, <1>2, <1>12
  <2>2. \A k \in DOMAIN todo' : \A f \in DOMAIN Fs[rank]' :
           Pending(todo[k], f)' => Below(new_path, f)'
    BY <1>1, <1>2, <1>11, <1>12
  <2>3. \A j, k \in DOMAIN todo' : \A f \in DOMAIN Fs[rank]' :
           Pending(todo[j], f)' /\ Pending(todo[k], f)' => j = k
    BY <1>2, <1>11, <1>12
  <2> QED
    BY <2>1, <2>2, <2>3 DEF WalkInv
<1>13. ASSUME NEW f \in DOMAIN Fs[rank]
       PROVE  Reached(f)' <=> Below(p, f) /\ ~\E k \in DOMAIN todo' : Pending(todo'[k], f)
  <2>1. Reached(f)' <=> Below(p, f)' /\ ~\E k \in DOMAIN todo' : Pending(todo[k], f)'
    BY <1>1, <1>2 DEF Reached
  <2> QED
    BY <1>11, <2>1
<1>14. ASSUME \A f \in DOMAIN Fs[rank] :
                 Listed(f)' = Listed(f) + (IF ~Reached(f) /\ Reached(f)' THEN 1 ELSE 0),
              \A f \in DOMAIN Fs[rank] : Reached(f) => Reached(f)'
       PROVE  CountInv'
  <2>1. ASSUME NEW f \in DOMAIN Fs[rank]
        PROVE  Listed(f)' = AskedUpTo(i - 1, f)' + (IF Reached(f)' THEN 1 ELSE 0)
    <3>1. PICK j : j = i - 1 /\ j = i' - 1
      BY <1>2
    <3>2. AskedUpTo(j, f)' = AskedUpTo(j, f)
      BY <1>2, SameCommand
    <3>3. AskedUpTo(j, f) \in Nat
      <4>1. j \in Nat
        BY <1>4, <3>1, CommandTypes
      <4> QED
        BY <4>1, AskedNext
    <3>4. Listed(f) = AskedUpTo(j, f) + (IF Reached(f) THEN 1 ELSE 0)
      BY <3>1 DEF ListInv, CountInv
    <3>5. Listed(f)' = AskedUpTo(j, f) + (IF Reached(f)' THEN 1 ELSE 0)
      BY <1>14, <3>3, <3>4
    <3> QED
      BY <3>1, <3>2, <3>5
  <2> QED
    BY <1>2, <2>1 DEF CountInv
<1>15. \A f : Listed(f) \in Nat
  BY <1>5, ListedType
<1>16. CASE /\ ~PassedOver(n) /\ Exists(n) /\ ~IsDir(n)
            /\ names' = Append(names, n) /\ todo' = rest
  <2>1. \A f \in DOMAIN Fs[rank] : Pending(n, f) <=> f = n
    <3>1. \A f \in DOMAIN Fs[rank] : Below(n, f) <=> f = n /\ ~IsDir(f)
      BY <1>5, <1>16, BelowFile
    <3> QED
      BY <1>16, <3>1 DEF Pending
  <2>2. WalkInv'
    BY <1>7, <1>8, <1>9, <1>12, <1>16
  <2>3. ASSUME NEW f \in DOMAIN Fs[rank]
        PROVE  /\ Listed(f)' = Listed(f) + (IF ~Reached(f) /\ Reached(f)' THEN 1 ELSE 0)
               /\ Reached(f) => Reached(f)'
    <3>1. Reached(f)' <=> Below(p, f) /\ ~\E k \in 1..a : Pending(rest[k], f)
      BY <1>7, <1>13, <1>16
    <3>2. /\ f = n => ~Reached(f) /\ Reached(f)'
          /\ f # n => (Reached(f)' <=> Reached(f))
      BY <1>9, <2>1, <3>1
    <3>3. n \in DOMAIN Fs[rank]
      BY <1>16 DEF Exists
    <3>4. Listed(f)' = Listed(f) + (IF f = n THEN 1 ELSE 0)
      BY <1>5, <1>16, <3>3, ListedAppend
    <3> QED
      BY <3>2, <3>4
  <2> QED
    BY <1>10, <1>14, <2>2, <2>3 DEF ListInv
<1>17. ASSUME names' = names,
              \A f \in DOMAIN Fs[rank] : Reached(f)' <=> Reached(f)
       PROVE  CountInv'
  <2>1. \A f : Listed(f)' = Listed(f)
    BY <1>17 DEF Listed
  <2>2. \A f : Listed(f) + 0 = Listed(f)
    BY <1>15
  <2> QED
    BY <1>14, <1>17, <2>1, <2>2
<1>18. CASE /\ ~PassedOver(n) /\ Exists(n) /\ IsDir(n) /\ Fs[rank][n].readable
            /\ todo' = Children(n) \o rest /\ names' = names
  <2>1. PICK c : c = Children(n)
    OBVIOUS
  <2>2. n \in DOMAIN Fs[rank]
    BY <1>18 DEF Exists
  <2>3. c \in Seq(Seq(STRING))
    BY <1>5, <1>18, <2>1, <2>2, ChildNames
  <2>4. PICK m \in Nat : m = Len(c)
    BY <2>3, LenProperties
  <2>5. DOMAIN c = 1..m
    BY <2>3, <2>4, LenProperties
  <2>6. /\ \A k \in 1..m : IsPrefixName(p, c[k])
        /\ \A f \in DOMAIN Fs[rank] : Pending(n, f) <=> \E k \in 1..m : Pending(c[k], f)
        /\ \A f \in DOMAIN Fs[rank] : \A j, k \in 1..m :
              Pending(c[j], f) /\ Pending(c[k], f) => j = k
    BY <1>1, <1>5, <1>8, <1>18, <2>1, <2>2, <2>5, ChildrenPending
  <2>7. PICK w : w = todo'
    OBVIOUS
  <2>8. /\ DOMAIN w = 1..(m + a)
        /\ \A k \in 1..m : k \in 1..(m + a) /\ w[k] = c[k]
        /\ \A k \in 1..a : m + k \in 1..(m + a) /\ w[m + k] = rest[k]
    <3>1. /\ c \o rest \in Seq(Seq(STRING)) /\ Len(c \o rest) = m + a
          /\ \A k \in 1..(m + a) : (c \o rest)[k] = IF k <= m THEN c[k] ELSE rest[k - m]
      BY <1>5, <1>6, <2>3, <2>4, ConcatProperties
    <3>2. DOMAIN w = 1..(m + a)
      BY <1>18, <2>1, <2>7, <3>1, LenProperties
    <3>3. \A k \in 1..m : k \in 1..(m + a) /\ w[k] = c[k]
      BY <1>18, <2>1, <2>7, <3>1
    <3>4. ASSUME NEW k \in 1..a
          PROVE  m + k \in 1..(m + a) /\ w[m + k] = rest[k]
      <4>1. m + k \in 1..(m + a) /\ ~(m + k <= m) /\ (m + k) - m = k
        OBVIOUS
      <4> QED
        BY <1>18, <2>1, <2>7, <3>1, <4>1
    <3> QED
      BY <3>2, <3>3, <3>4
  <2>9. \A k \in 1..(m + a) : k \in 1..m \/ \E j \in 1..a : k = m + j
    <3>1. ASSUME NEW k \in 1..(m + a), k \notin 1..m
          PROVE  \E j \in 1..a : k = m + j
      <4>1. k - m \in 1..a /\ k = m + (k - m)
        BY <3>1
      <4> QED
        BY <4>1
    <3> QED
      BY <3>1
  <2>10. \A k \in DOMAIN w : IsPrefixName(p, w[k])
    BY <1>8, <2>6, <2>8, <2>9
  <2>11. ASSUME NEW f \in DOMAIN Fs[rank]
         PROVE  (\E k \in DOMAIN w : Pending(w[k], f))
                <=> Pending(n, f) \/ \E k \in 1..a : Pending(rest[k], f)
    BY <2>6, <2>8, <2>9
  <2>12. \A f \in DOMAIN Fs[rank] : \A k \in DOMAIN w : Pending(w[k], f) => Below(p, f)
    BY <1>9, <2>11
  <2>13. ASSUME NEW f \in DOMAIN Fs[rank], NEW j \in DOMAIN w, NEW k \in DOMAIN w,
                Pending(w[j], f), Pending(w[k], f)
         PROVE  j = k
    <3>1. CASE j \in 1..m /\ k \in 1..m
      BY <2>6, <2>8, <2>13, <3>1
    <3>2. ASSUME NEW x \in 1..m, NEW y \in 1..a, Pending(w[x], f), Pending(w[m + y], f)
          PROVE  FALSE
      <4>1. Pending(n, f)
        BY <2>6, <2>8, <3>2
      <4>2. Pending(rest[y], f)
        BY <2>8, <3>2
      <4> QED
        BY <1>9, <4>1, <4>2
    <3>3. ASSUME NEW x \in 1..a, NEW y \in 1..a, Pending(w[m + x], f), Pending(w[m + y], f)
          PROVE  x = y
      BY <1>9, <2>8, <3>3
    <3>4. j \in 1..(m + a) /\ k \in 1..(m + a)
      BY <2>8
    <3>5. CASE j \in 1..m /\ k \notin 1..m
      <4>1. PICK y \in 1..a : k = m + y
        BY <2>9, <3>4, <3>5
      <4> QED
        BY <2>13, <3>2, <3>5, <4>1
    <3>6. CASE j \notin 1..m /\ k \in 1..m
      <4>1. PICK y \in 1..a : j = m + y
        BY <2>9, <3>4, <3>6
      <4> QED
        BY <2>13, <3>2, <3>6, <4>1
    <3>7. CASE j \notin 1..m /\ k \notin 1..m
      <4>1. PICK x \in 1..a : j = m + x
        BY <2>9, <3>4, <3>7
      <4>2. PICK y \in 1..a : k = m + y
        BY <2>9, <3>4, <3>7
      <4> QED
        BY <2>13, <3>3, <4>1, <4>2
    <3> QED
      BY <3>1, <3>5, <3>6, <3>7
  <2>14. WalkInv'
    BY <1>12, <2>7, <2>10, <2>12, <2>13
  <2>15. \A f \in DOMAIN Fs[rank] : Reached(f)' <=> Reached(f)
    BY <1>9, <1>13, <2>7, <2>11
  <2>16. CountInv'
    BY <1>17, <1>18, <2>15
  <2> QED
    BY <1>10, <2>14, <2>16 DEF ListInv
<1>19. CASE /\ PassedOver(n) \/ (Exists(n) => IsDir(n) /\ ~Fs[rank][n].readable)
            /\ todo' = rest /\ names' = names
  <2>1. \A f \in DOMAIN Fs[rank] : ~Pending(n, f)
    BY <1>4, <1>5, <1>19, NothingPending
  <2>2. WalkInv'
    BY <1>7, <1>8, <1>9, <1>12, <1>19
  <2>3. \A f \in DOMAIN Fs[rank] : Reached(f)' <=> Reached(f)
    BY <1>7, <1>9, <1>13, <1>19, <2>1
  <2>4. CountInv'
    BY <1>17, <1>19, <2>3
  <2> QED
    BY <1>10, <2>2, <2>4 DEF ListInv
<1> QED
  BY <1>3, <1>16, <1>18, <1>19

\* Nothing is listed at the start, and no path asks for anything yet.
LEMMA NothingListed ==
    ASSUME names = <<>>, NEW f
    PROVE  Listed(f) = 0 /\ AskedUpTo(0, f) = 0
<1>1. 1..Len(names) = {} /\ 1..0 = {}
  OBVIOUS
<1>2. {k \in 1..Len(names) : names[k] = f} = {} /\ {k \in 1..0 : AsksFor(k, f)} = {}
  BY <1>1
<1>3. Cardinality({}) = 0
  BY FS_EmptySet
<1> QED
  BY <1>2, <1>3 DEF Listed, AskedUpTo

\* path_array_gen starts out with an empty list.
LEMMA ListInvInit == ASSUME Init PROVE ListInv
<1>1. /\ rank \in Ranks /\ cmd \in Commands /\ pc = "path" /\ i = 1 /\ new_path = <<>>
      /\ ctx = 0 /\ todo = <<>> /\ names = <<>> /\ names_size = PATH_ARRAY_INIT_SIZE
  BY DEF Init
<1>2. cmd \in [paths: Seq(Path), begin: Int, end: Int]
  BY <1>1, PathAssumption
<1>3. cmd.paths \in Seq(Path)
  BY <1>2
<1>4. Len(cmd.paths) \in Nat
  BY <1>3, LenProperties
<1>5. i \in 1..(Len(cmd.paths) + 1)
  BY <1>1, <1>4
<1>6. names_size \in Nat \ {0} /\ Len(names) <= names_size
  BY <1>1, PathAssumption
<1>7. /\ new_path \in Seq(STRING) /\ todo \in Seq(Seq(STRING))
      /\ names \in Seq(DOMAIN Fs[rank])
  BY <1>1, EmptySeq
<1>8. ListTypes
  BY <1>1, <1>2, <1>5, <1>6, <1>7 DEF ListTypes
<1>9. ASSUME NEW f
      PROVE  Listed(f) = AskedUpTo(i - 1, f) + (IF Reached(f) THEN 1 ELSE 0)
  <2>1. ~Reached(f)
    BY <1>1 DEF Reached
  <2>2. i - 1 = 0
    BY <1>1
  <2>3. Listed(f) = 0 /\ AskedUpTo(0, f) = 0
    BY <1>1, NothingListed
  <2> QED
    BY <2>1, <2>2, <2>3
<1> QED
  BY <1>1, <1>8, <1>9 DEF ListInv, PathInWork, WalkInv, CountInv

\* A state in which nothing changes.
LEMMA ListInvSame == ASSUME ListInv, UNCHANGED vars PROVE ListInv'
<1>1. /\ rank' = rank /\ cmd' = cmd /\ pc' = pc /\ i' = i /\ new_path' = new_path
      /\ ctx' = ctx /\ todo' = todo /\ names' = names /\ names_size' = names_size
  BY DEF vars, arrayVars
<1>2. ListTypes' /\ PathInWork'
  BY <1>1, PathInWorkSame DEF ListInv, ListTypes
<1>3. WalkInv'
  <2>1. PICK p, t : p = new_path /\ t = todo
    OBVIOUS
  <2>2. /\ \A n, f : Pending(n, f)' <=> Pending(n, f)
        /\ \A f : Below(p, f)' <=> Below(p, f)
    BY <1>1, SamePending, SameSlave
  <2>3. pc = "walk" =>
          /\ \A k \in DOMAIN t : IsPrefixName(p, t[k])
          /\ \A k \in DOMAIN t : \A f \in DOMAIN Fs[rank] : Pending(t[k], f) => Below(p, f)
          /\ \A j, k \in DOMAIN t : \A f \in DOMAIN Fs[rank] :
                Pending(t[j], f) /\ Pending(t[k], f) => j = k
    BY <2>1 DEF ListInv, WalkInv
  <2>4. pc' = "walk" =>
          /\ \A k \in DOMAIN t : IsPrefixName(p, t[k])'
          /\ \A k \in DOMAIN t : \A f \in DOMAIN Fs[rank] : Pending(t[k], f)' => Below(p, f)'
          /\ \A j, k \in DOMAIN t : \A f \in DOMAIN Fs[rank] :
                Pending(t[j], f)' /\ Pending(t[k], f)' => j = k
    BY <1>1, <2>2, <2>3
  <2> QED
    BY <1>1, <2>1, <2>4 DEF WalkInv
<1>4. ASSUME NEW f \in DOMAIN Fs[rank]
      PROVE  Listed(f)' = AskedUpTo(i - 1, f)' + (IF Reached(f)' THEN 1 ELSE 0)
  <2>1. PICK j, p, c, t : j = i - 1 /\ p = new_path /\ c = ctx /\ t = todo
    OBVIOUS
  <2>2. Reached(f)' <=> Reached(f)
    <3>1. Intervals' = Intervals
      BY <1>1, SameCommand
    <3>2. (\E x \in Intervals' : x < c /\ f = FileOf(x)') <=> (\E x \in Intervals : x < c /\ f = FileOf(x))
      BY <1>1, <3>1 DEF FileOf
    <3>3. /\ Below(p, f)' <=> Below(p, f)
          /\ (\E k \in DOMAIN t : Pending(t[k], f)') <=> (\E k \in DOMAIN t : Pending(t[k], f))
      BY <1>1, SamePending, SameSlave
    <3> QED
      BY <1>1, <2>1, <3>2, <3>3 DEF Reached
  <2>3. AskedUpTo(j, f)' = AskedUpTo(j, f)
    BY <1>1, SameCommand
  <2>4. Listed(f)' = Listed(f)
    BY <1>1 DEF Listed
  <2>5. Listed(f) = AskedUpTo(j, f) + (IF Reached(f) THEN 1 ELSE 0)
    BY <2>1 DEF ListInv, CountInv
  <2>6. j = i' - 1
    BY <1>1, <2>1
  <2> QED
    BY <2>2, <2>3, <2>4, <2>5, <2>6
<1>5. CountInv'
  BY <1>1, <1>4 DEF CountInv
<1> QED
  BY <1>2, <1>3, <1>5 DEF ListInv

\* Every step of path_array_gen keeps the invariant.
LEMMA ListInvStep == ASSUME TimesNamed, ListInv, [Next]_vars PROVE ListInv'
<1>1. CASE TimeTooLong
  BY <1>1, ListInvSame DEF TimeTooLong
<1>2. CASE Finished
  BY <1>2, ListInvSame DEF Finished
<1>3. CASE UNCHANGED vars
  BY <1>3, ListInvSame
<1>4. CASE SkipPath
  BY <1>4, SkipPathInv
<1>5. CASE StartPath
  BY <1>5, StartPathInv
<1>6. CASE TimeFile
  BY <1>6, TimeFileInv
<1>7. CASE TimeEnd
  BY <1>7, TimeEndInv
<1>8. CASE Visit
  BY <1>8, VisitInv
<1>9. CASE WalkEnd
  BY <1>9, WalkEndInv
<1> QED
  BY <1>1, <1>2, <1>3, <1>4, <1>5, <1>6, <1>7, <1>8, <1>9 DEF Next, Step

\* The complete list is what the paths ask for.
LEMMA ListComplete == ASSUME ListInv PROVE FilesExact
<1> SUFFICES ASSUME Done, NEW f \in DOMAIN Fs[rank]
             PROVE  Listed(f) = AskedUpTo(Len(cmd.paths), f)
  BY DEF FilesExact, Listed, AskedUpTo
<1>1. PICK l \in Nat : l = Len(cmd.paths)
  BY CommandTypes DEF ListInv
<1>2. pc = "path" /\ i > l /\ i \in 1..(l + 1)
  BY <1>1 DEF Done, ListInv, ListTypes
<1>3. i - 1 = l
  BY <1>2
<1>4. ~Reached(f)
  BY <1>2 DEF Reached
<1>5. AskedUpTo(l, f) \in Nat
  BY AskedNext
<1>6. Listed(f) = AskedUpTo(l, f) + 0
  BY <1>3, <1>4 DEF ListInv, CountInv
<1> QED
  BY <1>1, <1>5, <1>6

\* The types imply TypeOK.
LEMMA TypesOK == ListTypes => TypeOK
  BY DEF ListTypes, TypeOK

----------------------------------------------------------------------------
(* The list of files: theorems.                                            *)

\* path_array_gen alone, for any command line: no name is written behind the end
\* of the array.
THEOREM ArrayTypeCorrect == Spec => []TypeOK
<1>1. Init => ListTypes
  BY ListInvInit DEF ListInv
<1>2. ListTypes /\ [Next]_vars => ListTypes'
  <2> SUFFICES ASSUME ListTypes, [Next]_vars PROVE ListTypes'
    OBVIOUS
  <2>1. CASE Step
    BY <2>1, TypesStep
  <2>2. CASE UNCHANGED vars
    BY <2>2 DEF ListTypes, vars, arrayVars
  <2> QED
    BY <2>1, <2>2 DEF Next, Finished
<1> QED
  BY <1>1, <1>2, TypesOK, PTL DEF Spec

\* path_array_gen alone, for any command line and any tree of files: every file is
\* listed as often as paths of the command line ask for it.
THEOREM ArrayFilesExact == ASSUME TimesNamed PROVE Spec => []FilesExact
<1>1. Init => ListInv
  BY ListInvInit
<1>2. ListInv /\ [Next]_vars => ListInv'
  BY ListInvStep
<1>3. ListInv => FilesExact
  BY ListComplete
<1> QED
  BY <1>1, <1>2, <1>3, PTL DEF Spec

\* The times of the options take their places in the command.
LEMMA GenCommand ==
    ASSUME ListTypes, TimeInv, PathArrayGen
    PROVE  /\ cmd' \in [paths: Seq(Path), begin: Int, end: Int]
           /\ cmd'.paths = cmd.paths /\ cmd'.begin = time_begin /\ cmd'.end = time_end
<1>1. cmd \in [paths: Seq(Path), begin: Int, end: Int] /\ time_begin \in Int /\ time_end \in Int
  BY DEF ListTypes, TimeInv, AlignInv
<1>2. cmd' = [cmd EXCEPT !.begin = time_begin, !.end = time_end]
  BY DEF PathArrayGen
<1> QED
  BY <1>1, <1>2

\* The list is made for one slave and one command line.
LEMMA StepCommand == ASSUME Step PROVE rank' = rank /\ cmd' = cmd
<1>1. CASE SkipPath
  BY <1>1 DEF SkipPath
<1>2. CASE StartPath
  BY <1>2 DEF StartPath
<1>3. CASE TimeTooLong \/ TimeFile \/ TimeEnd
  BY <1>3 DEF TimeTooLong, TimeFile, TimeEnd, EndPath, vars
<1>4. CASE Visit \/ WalkEnd
  BY <1>4 DEF Visit, WalkEnd, EndPath
<1> QED
  BY <1>1, <1>2, <1>3, <1>4 DEF Step

\* Nothing follows an accepted or refused command line in arg_parse.
LEMMA TimeStepBefore == TimeStep => tpc # "accepted"
  BY DEF TimeStep, ParseOptions, SetTimePoint, SetTimeRange, AlignBegin, PointEnd, RangeEnd,
         AlignEnd, CheckRange

\* The course of both.
LEMMA StartInvStep == ASSUME TimeInv, ListTypes, StartInv, [SelectionNext]_selectionVars PROVE StartInv'
<1>1. CASE Arguments
  <2>1. ~started
    BY <1>1, TimeStepBefore DEF Arguments, StartInv
  <2> QED
    BY <1>1, <2>1 DEF Arguments, StartInv, vars, arrayVars
<1>2. CASE PathArrayGen
  <2>1. /\ tpc = "accepted" /\ time_end - time_begin <= MaxIntervals * FLOW_FILE_ROTATION_INTERVAL
        /\ cmd' = [cmd EXCEPT !.begin = time_begin, !.end = time_end]
        /\ started' /\ UNCHANGED timeVars
    BY <1>2 DEF PathArrayGen
  <2> QED
    BY <1>2, <2>1, GenCommand DEF StartInv, timeVars
<1>3. CASE Search
  BY <1>3, StepCommand DEF Search, StartInv, timeVars
<1>4. CASE AtEnd \/ UNCHANGED selectionVars
  BY <1>4 DEF AtEnd, StartInv, selectionVars, timeVars, vars, arrayVars
<1> QED
  BY <1>1, <1>2, <1>3, <1>4 DEF SelectionNext, SelectionStep

\* The types hold before the list is begun, and whatever its times are.
LEMMA SelectionTypesStep ==
    ASSUME TimeInv, ListTypes, StartInv, [SelectionNext]_selectionVars
    PROVE  ListTypes'
<1>1. CASE PathArrayGen
  <2>1. cmd' \in [paths: Seq(Path), begin: Int, end: Int] /\ cmd'.paths = cmd.paths
    BY <1>1, GenCommand
  <2> QED
    BY <1>1, <2>1 DEF PathArrayGen, ListTypes, arrayVars
<1>2. CASE Search
  BY <1>2, TypesStep DEF Search
<1>3. CASE UNCHANGED vars
  BY <1>3 DEF ListTypes, vars, arrayVars
<1> QED
  BY <1>1, <1>2, <1>3 DEF SelectionNext, SelectionStep, Arguments, AtEnd, selectionVars

\* path_array_gen begins with the times of the options and an empty list.
LEMMA PathArrayGenInv ==
    ASSUME TimeInv, ListInv, StartInv, PathArrayGen
    PROVE  ListInv'
<1>1. /\ pc' = "path" /\ i' = 1 /\ names' = <<>> /\ rank' = rank
  BY DEF PathArrayGen, StartInv, arrayVars
<1>2. ListTypes'
  BY SelectionTypesStep DEF ListInv, SelectionNext, SelectionStep
<1>3. PathInWork' /\ WalkInv'
  BY <1>1 DEF PathInWork, WalkInv
<1>4. ASSUME NEW f \in DOMAIN Fs[rank]
      PROVE  Listed(f)' = AskedUpTo(i - 1, f)' + (IF Reached(f)' THEN 1 ELSE 0)
  <2>1. ~Reached(f)'
    BY <1>1 DEF Reached
  <2>2. 1..Len(names') = {} /\ 1..(i' - 1) = {}
    BY <1>1
  <2>3. {k \in 1..Len(names') : names'[k] = f} = {} /\ {k \in 1..(i' - 1) : AsksFor(k, f)'} = {}
    BY <2>2
  <2>4. Cardinality({}) = 0
    BY FS_EmptySet
  <2>5. Listed(f)' = 0 /\ AskedUpTo(i - 1, f)' = 0
    BY <2>3, <2>4 DEF Listed, AskedUpTo
  <2> QED
    BY <2>1, <2>5
<1>5. CountInv'
  BY <1>1, <1>4 DEF CountInv
<1> QED
  BY <1>2, <1>3, <1>5 DEF ListInv

\* The list under the whole command.
LEMMA SelectionListStep ==
    ASSUME TimesNamed, TimeInv, ListInv, StartInv, [SelectionNext]_selectionVars
    PROVE  ListInv'
<1>1. CASE PathArrayGen
  BY <1>1, PathArrayGenInv
<1>2. CASE Search
  BY <1>2, ListInvStep DEF Search, Next
<1>3. CASE UNCHANGED vars
  BY <1>3, ListInvSame
<1> QED
  BY <1>1, <1>2, <1>3 DEF SelectionNext, SelectionStep, Arguments, AtEnd, selectionVars

\* The state before the arguments are parsed.
LEMMA SelectionStart == SelectionInit => ListInv /\ StartInv
<1> SUFFICES ASSUME SelectionInit PROVE ListInv /\ StartInv
  OBVIOUS
<1>1. ListInv
  BY ListInvInit DEF SelectionInit
<1>2. StartInv
  BY DEF SelectionInit, Init, StartInv
<1> QED
  BY <1>1, <1>2

\* From the time options to the list: no name is written behind the end of the
\* array, whatever the times, the paths and the tree of files.
THEOREM SelectionTypeCorrect == SelectionSpec => []TypeOK
<1>1. SelectionInit => ListTypes /\ StartInv
  BY SelectionStart DEF ListInv
<1>2. TimeInv /\ ListTypes /\ StartInv /\ [SelectionNext]_selectionVars => ListTypes' /\ StartInv'
  BY SelectionTypesStep, StartInvStep
<1> QED
  BY <1>1, <1>2, TimesInvariant, TypesOK, PTL DEF SelectionSpec

\* The invariant of the whole selection.
THEOREM SelectionInvariant ==
    ASSUME TimesNamed
    PROVE  SelectionSpec => [](TimeInv /\ ListInv /\ StartInv)
<1>1. SelectionInit => ListInv /\ StartInv
  BY SelectionStart
<1>2. TimeInv /\ ListInv /\ StartInv /\ [SelectionNext]_selectionVars => ListInv' /\ StartInv'
  BY SelectionListStep, StartInvStep DEF ListInv
<1> QED
  BY <1>1, <1>2, TimesInvariant, PTL DEF SelectionSpec

\* The list holds every file as often as paths of the command line ask for it with
\* the times that the options mean.
THEOREM SelectionFilesExact == ASSUME TimesNamed PROVE SelectionSpec => []FilesExact
<1>1. ListInv => FilesExact
  BY ListComplete
<1> QED
  BY <1>1, SelectionInvariant, PTL

----------------------------------------------------------------------------
(* The intervals of the range are those the time options ask for.          *)

\* The beginnings of intervals TimeSelectsFiles looks at.
Near == {Down(begin_spec) + j * FLOW_FILE_ROTATION_INTERVAL : j \in -1..(MaxIntervals + 1)}

\* A whole number of intervals from a beginning is a beginning, and only that.
LEMMA WholeIntervals ==
    ASSUME NEW d \in Int, Aligned(d)
    PROVE  /\ \A j \in Int : Aligned(d + j * FLOW_FILE_ROTATION_INTERVAL)
                             /\ Aligned(j * FLOW_FILE_ROTATION_INTERVAL)
           /\ \A x \in Int : Aligned(x) => \E j \in Int : x = j * FLOW_FILE_ROTATION_INTERVAL
<1>1. PICK r \in Int : r = FLOW_FILE_ROTATION_INTERVAL /\ r > 0
  BY CalendarAssumption
<1>2. \A q \in Int : (q * r) % r = 0
  BY <1>1
<1>3. ASSUME NEW x \in Int, Aligned(x)
      PROVE  \E j \in Int : x = j * r
  <2>1. x % r = 0
    BY <1>1, <1>3 DEF Aligned
  <2>2. \E q, a \in Int : a = x % r /\ x = q * r + a
    BY <1>1
  <2>3. PICK q, a \in Int : a = x % r /\ x = q * r + a
    BY <2>2
  <2>4. q * r \in Int
    BY <1>1, <2>3
  <2>5. x = q * r
    BY <2>1, <2>3, <2>4
  <2> QED
    BY <2>3, <2>5
<1>4. PICK p \in Int : d = p * r
  BY <1>3
<1>5. ASSUME NEW j \in Int
      PROVE  Aligned(d + j * r) /\ Aligned(j * r)
  <2>1. PICK s \in Int : s = p + j
    OBVIOUS
  <2>2. d + j * r = s * r
    BY <1>1, <1>4, <2>1
  <2>3. (s * r) % r = 0 /\ (j * r) % r = 0
    BY <1>2
  <2> QED
    BY <1>1, <2>2, <2>3 DEF Aligned
<1> QED
  BY <1>1, <1>3, <1>5

\* Times of a range and how far it reaches.
LEMMA RangeFacts ==
    ASSUME TimeInv, StartInv, ListTypes, started, point # None \/ range # None
    PROVE  /\ cmd.begin = Down(begin_spec) /\ cmd.begin \in Int /\ cmd.end \in Int
           /\ begin_spec \in Int /\ end_spec \in Int
           /\ cmd.begin < cmd.end
           /\ cmd.end - cmd.begin <= MaxIntervals * FLOW_FILE_ROTATION_INTERVAL
           /\ point # None => cmd.end = cmd.begin + FLOW_FILE_ROTATION_INTERVAL
           /\ point = None => cmd.end = Up(end_spec)
<1>1. /\ tpc = "accepted" /\ cmd.begin = time_begin /\ cmd.end = time_end
      /\ time_end - time_begin <= MaxIntervals * FLOW_FILE_ROTATION_INTERVAL
  BY DEF StartInv
<1>2. /\ time_begin \in Int /\ time_end \in Int /\ begin_spec \in Int /\ end_spec \in Int
      /\ time_begin = Down(begin_spec)
      /\ point # None => time_end = time_begin + FLOW_FILE_ROTATION_INTERVAL
      /\ range # None => time_end = Up(end_spec) /\ time_begin < time_end
  BY <1>1 DEF TimeInv, AlignInv
<1>3. FLOW_FILE_ROTATION_INTERVAL \in Int /\ FLOW_FILE_ROTATION_INTERVAL > 0
  BY CalendarAssumption
<1>4. time_begin < time_end
  BY <1>2, <1>3
<1> QED
  BY <1>1, <1>2, <1>4

\* The options ask for an interval just when it begins within the range.
LEMMA AskedMeans ==
    ASSUME TimeInv, StartInv, ListTypes, started, point # None \/ range # None,
           NEW t \in Int, Aligned(t)
    PROVE  Asked(t) <=> cmd.begin <= t /\ t < cmd.end
<1>1. PICK b, s, d, e, r : /\ b = begin_spec /\ s = end_spec /\ d = cmd.begin /\ e = cmd.end
                           /\ r = FLOW_FILE_ROTATION_INTERVAL
  OBVIOUS
<1>2. /\ b \in Int /\ s \in Int /\ d \in Int /\ e \in Int /\ r \in Int /\ r > 0
      /\ d = Down(b)
      /\ point # None => e = d + r
      /\ point = None => e = Up(s)
  BY <1>1, RangeFacts, CalendarAssumption
<1>3. Aligned(d) /\ d <= b /\ b < d + r
  BY <1>1, <1>2, DownAndUp
<1>4. (t < d => t + r <= d) /\ (d < t => d + r <= t)
  BY <1>1, <1>2, <1>3, AlignedApart
<1>5. CASE point # None
  <2>1. Asked(t) <=> t <= b /\ b < t + r
    BY <1>1, <1>5 DEF Asked
  <2> QED
    BY <1>1, <1>2, <1>3, <1>4, <1>5, <2>1
<1>6. CASE point = None
  <2>1. Asked(t) <=> t < s /\ b < t + r
    BY <1>1, <1>6 DEF Asked
  <2>2. e = Up(s)
    BY <1>2, <1>6
  <2>3. Aligned(e) /\ s <= e /\ e < s + r
    BY <1>1, <1>2, <2>2, DownAndUp
  <2>4. t < e => t + r <= e
    BY <1>1, <1>2, <2>3, AlignedApart
  <2> QED
    BY <1>1, <1>2, <1>3, <1>4, <2>1, <2>3, <2>4
<1> QED
  BY <1>5, <1>6

\* The intervals of the search are the ones the options ask for.
LEMMA IntervalsAsked ==
    ASSUME TimeInv, StartInv, ListTypes, started, point # None \/ range # None, NEW t
    PROVE  t \in Intervals <=> t \in Near /\ Asked(t)
<1>1. PICK d, e, r, m : /\ d = cmd.begin /\ e = cmd.end /\ r = FLOW_FILE_ROTATION_INTERVAL
                        /\ m = MaxIntervals
  OBVIOUS
<1>2. /\ d \in Int /\ e \in Int /\ r \in Int /\ r > 0 /\ m \in Nat
      /\ d = Down(begin_spec) /\ e - d <= m * r /\ begin_spec \in Int
  BY <1>1, RangeFacts, CalendarAssumption, SelectionAssumption
<1>3. Aligned(d)
  BY <1>2, DownAndUp
<1>4. /\ \A j \in Int : Aligned(d + j * r) /\ Aligned(j * r)
      /\ \A x \in Int : Aligned(x) => \E j \in Int : x = j * r
  BY <1>1, <1>2, <1>3, WholeIntervals
<1>5. t \in Intervals <=> t \in Int /\ d <= t /\ t < e /\ Aligned(t - d)
  BY <1>1, <1>2 DEF Intervals, Aligned
<1>6. t \in Near <=> \E j \in -1..(m + 1) : t = d + j * r
  BY <1>1, <1>2 DEF Near
<1>7. ASSUME NEW j \in Int, t = d + j * r
      PROVE  t \in Int /\ Aligned(t) /\ Aligned(t - d)
  <2>1. j * r \in Int
    BY <1>2
  <2>2. t - d = j * r
    BY <1>2, <1>7, <2>1
  <2> QED
    BY <1>2, <1>4, <1>7, <2>1, <2>2
<1>8. ASSUME t \in Near, Asked(t)
      PROVE  t \in Intervals
  <2>1. PICK j \in -1..(m + 1) : t = d + j * r
    BY <1>6, <1>8
  <2>2. j \in Int
    BY <1>2
  <2>3. t \in Int /\ Aligned(t) /\ Aligned(t - d)
    BY <1>7, <2>1, <2>2
  <2>4. d <= t /\ t < e
    BY <1>1, <1>8, <2>3, AskedMeans
  <2> QED
    BY <1>5, <2>3, <2>4
<1>9. ASSUME t \in Intervals
      PROVE  t \in Near /\ Asked(t)
  <2>1. t \in Int /\ d <= t /\ t < e /\ Aligned(t - d)
    BY <1>5, <1>9
  <2>2. PICK x \in Int : x = t - d
    BY <1>2, <2>1
  <2>3. PICK j \in Int : x = j * r
    BY <1>4, <2>1, <2>2
  <2>4. 0 <= j * r /\ j * r < m * r
    BY <1>2, <2>1, <2>2, <2>3
  <2>5. j \in -1..(m + 1)
    <3>1. j >= 0
      <4>1. SUFFICES ASSUME j <= -1 PROVE FALSE
        OBVIOUS
      <4>2. j * r <= (-1) * r
        BY <1>2, <4>1
      <4> QED
        BY <1>2, <2>4, <4>2
    <3>2. j < m
      <4>1. SUFFICES ASSUME m <= j PROVE FALSE
        BY <1>2
      <4>2. m * r <= j * r
        BY <1>2, <4>1
      <4> QED
        BY <1>2, <2>4, <4>2
    <3> QED
      BY <1>2, <3>1, <3>2
  <2>6. t = d + j * r
    BY <1>2, <2>1, <2>2, <2>3
  <2>7. t \in Near /\ Aligned(t)
    BY <1>6, <1>7, <2>5, <2>6
  <2> QED
    BY <1>1, <2>1, <2>7, AskedMeans
<1> QED
  BY <1>8, <1>9

----------------------------------------------------------------------------
(* The times asked for select the files.                                   *)

\* A complete list holds a file if some path asks for it.
LEMMA ListedIfAsked ==
    ASSUME ListInv, Done, NEW f \in DOMAIN Fs[rank]
    PROVE  (\E j \in DOMAIN names : names[j] = f)
           <=> \E m \in 1..Len(cmd.paths) : AsksFor(m, f)
<1>1. PICK S, T : /\ S = {k \in 1..Len(names) : names[k] = f}
                  /\ T = {k \in 1..Len(cmd.paths) : AsksFor(k, f)}
  OBVIOUS
<1>2. Cardinality(S) = Cardinality(T)
  BY <1>1, ListComplete DEF FilesExact
<1>3. names \in Seq(DOMAIN Fs[rank])
  BY DEF ListInv, ListTypes
<1>4. Len(names) \in Nat /\ DOMAIN names = 1..Len(names) /\ Len(cmd.paths) \in Nat
  BY <1>3, LenProperties, CommandTypes DEF ListInv
<1>5. IsFiniteSet(1..Len(names)) /\ IsFiniteSet(1..Len(cmd.paths))
  BY <1>4, FS_Interval
<1>6. IsFiniteSet(S) /\ IsFiniteSet(T)
  BY <1>1, <1>5, FS_Subset
<1>7. S = {} <=> T = {}
  BY <1>2, <1>6, FS_EmptySet
<1> QED
  BY <1>1, <1>4, <1>7

\* A name that begins with a path has the path as prefix.
LEMMA ConcatPrefix ==
    ASSUME NEW p \in Seq(STRING), NEW e \in Seq(STRING)
    PROVE  IsPrefixName(p, p \o e)
<1>1. PICK n : n = p \o e
  OBVIOUS
<1>2. /\ n \in Seq(STRING) /\ Len(n) = Len(p) + Len(e)
      /\ \A j \in 1..(Len(p) + Len(e)) : n[j] = IF j <= Len(p) THEN p[j] ELSE e[j - Len(p)]
  BY <1>1, ConcatProperties
<1>3. Len(p) \in Nat /\ Len(e) \in Nat
  BY LenProperties
<1>4. Len(p) <= Len(n) /\ \A j \in 1..Len(p) : n[j] = p[j]
  BY <1>2, <1>3
<1> QED
  BY <1>1, <1>2, <1>4, PrefixPointwise

\* File n is below p and below no other path of the command line.
Alone(p, n) ==
    \A m \in DOMAIN cmd.paths :
        IsPrefixName(Preprocessed(cmd.paths[m]), n) <=> Preprocessed(cmd.paths[m]) = p

\* File n is read just when it is one of the times asked for, below p.
ReadByTimes(p, n) ==
    (\E j \in DOMAIN names : names[j] = n) <=> \E t \in Near : Asked(t) /\ n = p \o FlowFileFormat(t)

\* A path of the command line that alone leads to a file leads to it by time.
LEMMA FilesByTimes ==
    ASSUME TimesNamed, TimeInv, ListInv, StartInv, Done, point # None \/ range # None,
           NEW k \in DOMAIN cmd.paths, NEW p, p = Preprocessed(cmd.paths[k]),
           Accepted(cmd.paths[k]), Exists(p), IsDir(p),
           NEW n \in DOMAIN Fs[rank], Alone(p, n)
    PROVE  ReadByTimes(p, n)
<1>1. ListTypes /\ rank \in Ranks
  BY DEF ListInv, ListTypes
<1>2. cmd.paths \in Seq(Path) /\ Len(cmd.paths) \in Nat /\ DOMAIN cmd.paths = 1..Len(cmd.paths)
  BY <1>1, CommandTypes, LenProperties
<1>3. started
  <2>1. i > Len(cmd.paths)
    BY DEF Done
  <2>2. i # 1
    BY <1>2, <2>1
  <2> QED
    BY <2>2 DEF StartInv
<1>4. HasRange
  <2>1. PICK b, e : b = cmd.begin /\ e = cmd.end
    OBVIOUS
  <2>2. b \in Int /\ e \in Int /\ b < e
    BY <1>1, <1>3, <2>1, RangeFacts
  <2>3. TmDiff(Gmtime(e), Gmtime(b)) = e - b
    BY <2>2, DiffExact
  <2> QED
    BY <2>1, <2>2, <2>3 DEF HasRange
<1>5. \A t : t \in Intervals <=> t \in Near /\ Asked(t)
  BY <1>1, <1>3, IntervalsAsked
<1>6. (\E j \in DOMAIN names : names[j] = n) <=> \E m \in 1..Len(cmd.paths) : AsksFor(m, n)
  BY ListedIfAsked
<1>7. AsksFor(k, n) <=> InRange(p, n)
  BY <1>4 DEF AsksFor
<1>8. ASSUME NEW m \in 1..Len(cmd.paths), AsksFor(m, n)
      PROVE  InRange(p, n)
  <2>1. PICK q : q = Preprocessed(cmd.paths[m])
    OBVIOUS
  <2>2. Exists(q) /\ IF IsDir(q) THEN InRange(q, n) ELSE Below(q, n)
    BY <1>4, <1>8, <2>1 DEF AsksFor
  <2>3. q \in Seq(STRING)
    BY <1>1, <2>2, NamesExist DEF Exists
  <2>4. IsPrefixName(q, n) <=> q = p
    BY <1>2, <2>1 DEF Alone
  <2>5. CASE IsDir(q)
    <3>1. PICK t \in Intervals : n = q \o FlowFileFormat(t)
      BY <2>2, <2>5 DEF InRange
    <3>2. t \in Int
      BY <1>1, <3>1, CommandTypes DEF Intervals
    <3>3. FlowFileFormat(t) \in Seq(STRING)
      BY <3>2 DEF TimesNamed
    <3>4. IsPrefixName(q, n)
      BY <2>3, <3>1, <3>3, ConcatPrefix
    <3> QED
      BY <2>2, <2>4, <2>5, <3>4
  <2>6. CASE ~IsDir(q)
    <3>1. IsPrefixName(q, n)
      BY <2>2, <2>6 DEF Below
    <3> QED
      BY <2>4, <2>6, <3>1
  <2> QED
    BY <2>5, <2>6
<1>9. (\E j \in DOMAIN names : names[j] = n) <=> InRange(p, n)
  BY <1>2, <1>6, <1>7, <1>8
<1> QED
  BY <1>5, <1>9 DEF InRange, ReadByTimes

\* What the user asks for in local time is what is read, through the completion of
\* the time specification, the alignment, the end of the range and both searches.
THEOREM SelectionTimesSelect == ASSUME TimesNamed PROVE SelectionSpec => []TimeSelectsFiles
<1>1. TimeInv /\ ListInv /\ StartInv => TimeSelectsFiles
  <2> SUFFICES ASSUME TimeInv, ListInv, StartInv, Done, point # None \/ range # None
               PROVE  \A k \in DOMAIN cmd.paths :
                         Accepted(cmd.paths[k]) /\ Exists(Preprocessed(cmd.paths[k]))
                         /\ IsDir(Preprocessed(cmd.paths[k])) =>
                            \A n \in DOMAIN Fs[rank] \ {Preprocessed(cmd.paths[k])} :
                               Alone(Preprocessed(cmd.paths[k]), n) =>
                                  ReadByTimes(Preprocessed(cmd.paths[k]), n)
    BY Zenon DEF TimeSelectsFiles, Near, Down, Alone, ReadByTimes
  <2> TAKE k \in DOMAIN cmd.paths
  <2>1. PICK p : p = Preprocessed(cmd.paths[k])
    OBVIOUS
  <2> SUFFICES ASSUME Accepted(cmd.paths[k]), Exists(p), IsDir(p),
                      NEW n \in DOMAIN Fs[rank], Alone(p, n)
               PROVE  ReadByTimes(p, n)
    BY <2>1
  <2> QED
    BY <2>1, FilesByTimes
<1> QED
  BY <1>1, SelectionInvariant, PTL

=============================================================================
