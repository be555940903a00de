------------------------------ MODULE Calendar ------------------------------
(***************************************************************************)
(* Calendar and broken-down times, and tm_diff, which subtracts the        *)
(* latter.                                                                 *)
(*                                                                         *)
(* A calendar time is counted in seconds from the beginning of BaseYear,   *)
(* so that the numbers stay small; that is a whole number of days from the *)
(* Epoch, and so the remainders modulo the rotation interval, which        *)
(* divides a day, are those of the code.                                   *)
(***************************************************************************)
EXTENDS Integers, Sequences

CONSTANTS
    BaseYear,     \* years count from here
    FLOW_FILE_ROTATION_INTERVAL

Day == 24 * 60 * 60

ASSUME CalendarAssumption ==
    /\ BaseYear \in Int
    /\ FLOW_FILE_ROTATION_INTERVAL \in Nat \ {0}
    /\ Day % FLOW_FILE_ROTATION_INTERVAL = 0

----------------------------------------------------------------------------
(* The calendar (external: mktime, gmtime).  tm_mon counts from zero.      *)

IsLeap(y) == y % 4 = 0 /\ (y % 100 # 0 \/ y % 400 = 0)

\* Leap years before year y.
LeapsBefore(y) == ((y - 1) \div 4) - ((y - 1) \div 100) + ((y - 1) \div 400)

DaysBefore == <<0, 31, 59, 90, 120, 151, 181, 212, 243, 273, 304, 334>>

\* Days from the beginning of BaseYear; mday may be out of its range.
DayOf(year, mon, mday) ==
    365 * (year - BaseYear) + LeapsBefore(year) - LeapsBefore(BaseYear)
    + DaysBefore[mon + 1] + (IF mon > 1 /\ IsLeap(year) THEN 1 ELSE 0)
    + mday - 1

Mktime(tm) ==
    DayOf(tm.year, tm.mon, tm.mday) * Day + (tm.hour * 60 + tm.min) * 60 + tm.sec

\* The year a day is in; a day d before BaseYear is the other way round between
\* the two quotients.
YearOf(d) ==
    LET Near(few, many) == (BaseYear + few - 1)..(BaseYear + many + 1) IN
    CHOOSE y \in Near(d \div 366, d \div 365) \cup Near(d \div 365, d \div 366) :
        DayOf(y, 0, 1) <= d /\ d < DayOf(y + 1, 0, 1)

Gmtime(t) ==
    [year |-> YearOf(t \div Day), yday |-> t \div Day - DayOf(YearOf(t \div Day), 0, 1),
     hour |-> (t % Day) \div 3600, min |-> (t % 3600) \div 60, sec |-> t % 60]

\* The weekday of a date; 2000-01-01 was a Saturday.
WdayOf(d) == (6 + d - (365 * (2000 - BaseYear) + LeapsBefore(2000) - LeapsBefore(BaseYear))) % 7

----------------------------------------------------------------------------
(* tm_diff                                                                 *)

\* The arithmetic counts tm_year from 1900 = TM_YEAR_BASE.
YearsBy4(y) == ((y - 1900) \div 4) + (1900 \div 4) - (IF (y - 1900) % 4 = 0 THEN 1 ELSE 0)

\* Mistake: the years divisible by 400 are forgotten.
DiffDaysNo400(a, b) ==
    LET a4 == YearsBy4(a.year)
        b4 == YearsBy4(b.year) IN
    365 * (a.year - b.year) + (a4 - b4) - (a4 \div 25 - b4 \div 25) + (a.yday - b.yday)

DiffDays(a, b) ==
    LET a4 == YearsBy4(a.year)
        b4 == YearsBy4(b.year)
        a100 == a4 \div 25
        b100 == b4 \div 25 IN
    365 * (a.year - b.year) + (a4 - b4) - (a100 - b100) + (a100 \div 4 - b100 \div 4)
    + (a.yday - b.yday)

TmDiff(a, b) ==
    60 * (60 * (24 * DiffDays(a, b) + (a.hour - b.hour)) + (a.min - b.min)) + (a.sec - b.sec)

============================================================================
