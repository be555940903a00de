----------------------------- MODULE TimeRange -----------------------------
(***************************************************************************)
(* The time options: str_to_tm completes a time specification with the     *)
(* current date, set_time_point and set_time_range convert it to UTC and   *)
(* align it to the rotation intervals of the flow files.  The local time   *)
(* zone is a fixed number of seconds ahead of UTC (no daylight saving      *)
(* time).                                                                  *)
(***************************************************************************)
EXTENDS Calendar

CONSTANTS
    Nows,         \* possible current local times, struct tm
    Options,      \* possible options: <<point, range>>, each possibly None; a
                  \* range is <<begin, end>>, an end that is not given None
    ZoneOffset,   \* seconds local time is ahead of UTC
    Unset,        \* INT_MIN: a member str_to_tm has not filled
    None,
    BadSpec       \* a specification no format fits

\* A current time: a date of the calendar without leap seconds.
IsTime(tm) ==
    /\ tm \in [year: Int, mon: 0..11, mday: 1..31, hour: 0..23, min: 0..59, sec: 0..59,
               wday: 0..6]
    /\ DayOf(tm.year, tm.mon, tm.mday) <
          IF tm.mon = 11 THEN DayOf(tm.year + 1, 0, 1) ELSE DayOf(tm.year, tm.mon + 1, 1)
    /\ tm.wday = WdayOf(DayOf(tm.year, tm.mon, tm.mday))

\* What strptime may fill with date_formats: only whole dates have a year or a day.
IsSpec(tm) ==
    /\ tm \in [year: Int \cup {Unset}, mon: 0..11 \cup {Unset}, mday: 1..31 \cup {Unset},
               hour: 0..23 \cup {Unset}, min: 0..59 \cup {Unset}, sec: 0..59 \cup {Unset},
               wday: 0..6 \cup {Unset}]
    /\ tm.mday # Unset <=> tm.year # Unset
    /\ tm.mday # Unset => tm.mon # Unset

ASSUME TimeAssumption ==
    /\ ZoneOffset \in Int
    /\ Unset \notin Int
    /\ \A tm \in Nows : IsTime(tm)
    /\ \A o \in Options :
          /\ o[1] \in {None, BadSpec} \/ IsSpec(o[1])
          /\ o[2] # None =>
                /\ o[2][1] = BadSpec \/ IsSpec(o[2][1])
                /\ o[2][2] \in {None, BadSpec} \/ IsSpec(o[2][2])

VARIABLES
    now, point, range,     \* fixed once chosen
    tpc,
    time_begin, time_end,  \* args->time_begin, time_end (normalised, UTC)
    begin_spec, end_spec   \* history: the times asked for, before alignment

timeVars == <<now, point, range, tpc, time_begin, time_end, begin_spec, end_spec>>

----------------------------------------------------------------------------
(* str_to_tm: what the formats filled, and what is filled in afterwards.   *)

\* Only a weekday is given: the last such day.
OnlyWday(tm) == tm.wday # Unset /\ tm.year = Unset /\ tm.mon = Unset /\ tm.mday = Unset

FillWday(tm) ==
    IF OnlyWday(tm)
    THEN [tm EXCEPT !.year = now.year, !.mon = now.mon,
                    !.mday = now.mday - ((now.wday - tm.wday + 7) % 7)]
    ELSE tm

\* Mistake: this year is taken for every month.
FillMonThisYear(tm) ==
    IF tm.mon # Unset /\ tm.mday = Unset
    THEN [tm EXCEPT !.mday = 1, !.year = IF tm.year = Unset THEN now.year ELSE @]
    ELSE tm

\* Only a month is given: its first day, in the last year if it is yet to come.
FillMon(tm) ==
    IF tm.mon # Unset /\ tm.mday = Unset
    THEN [tm EXCEPT !.mday = 1,
                    !.year = IF tm.year # Unset THEN @
                             ELSE IF tm.mon > now.mon THEN now.year - 1 ELSE now.year]
    ELSE tm

\* No time is given: midnight.
FillTime(tm) ==
    [tm EXCEPT !.hour = IF @ = Unset THEN 0 ELSE @,
               !.min = IF @ = Unset THEN 0 ELSE @,
               !.sec = IF @ = Unset THEN 0 ELSE @]

\* No date is given: today, or yesterday if the hour is yet to come.
FillDate(tm) ==
    IF tm.mon = Unset /\ tm.mday = Unset /\ tm.wday = Unset
    THEN [tm EXCEPT !.mon = now.mon,
                    !.mday = IF tm.hour > now.hour THEN now.mday - 1 ELSE now.mday]
    ELSE tm

FillGaps(tm) ==
    [tm EXCEPT !.year = IF @ = Unset THEN now.year ELSE @,
               !.mon = IF @ = Unset THEN now.mon ELSE @]

\* The calendar time of a specification, as local time.
StrToTm(spec) == Mktime(FillGaps(FillDate(FillTime(FillMon(FillWday(spec))))))

LocalToUtc(t) == t - ZoneOffset

----------------------------------------------------------------------------

TimeInit ==
    /\ now \in Nows
    /\ \E o \in Options : point = o[1] /\ range = o[2]
    /\ tpc = "parse"
    /\ time_begin = 0
    /\ time_end = 0
    /\ begin_spec = 0
    /\ end_spec = 0

\* arg_parse gives up with E_ARG.
Reject ==
    /\ tpc' = "rejected"
    /\ UNCHANGED <<now, point, range, time_begin, time_end, begin_spec, end_spec>>

\* The options exclude each other; none of them selects no time at all.
ParseOptions ==
    /\ tpc = "parse"
    /\ \/ point # None /\ range # None /\ Reject
       \/ /\ point # None /\ range = None
          /\ tpc' = "point"
          /\ UNCHANGED <<now, point, range, time_begin, time_end, begin_spec, end_spec>>
       \/ /\ point = None /\ range # None
          /\ tpc' = "range"
          /\ UNCHANGED <<now, point, range, time_begin, time_end, begin_spec, end_spec>>
       \/ /\ point = None /\ range = None
          /\ tpc' = "accepted"
          /\ UNCHANGED <<now, point, range, time_begin, time_end, begin_spec, end_spec>>

\* set_time_point up to the alignment.
SetTimePoint ==
    /\ tpc = "point"
    /\ \/ point = BadSpec /\ Reject
       \/ /\ point # BadSpec
          /\ time_begin' = LocalToUtc(StrToTm(point))
          /\ begin_spec' = time_begin'
          /\ tpc' = "alignPoint"
          /\ UNCHANGED <<now, point, range, time_end, end_spec>>

\* set_time_range up to the alignment; no end means that the end is now.
SetTimeRange ==
    /\ tpc = "range"
    /\ \/ BadSpec \in {range[1], range[2]} /\ Reject
       \/ /\ BadSpec \notin {range[1], range[2]}
          /\ time_begin' = LocalToUtc(StrToTm(range[1]))
          /\ time_end' = LocalToUtc(IF range[2] = None THEN Mktime(now)
                                    ELSE StrToTm(range[2]))
          /\ begin_spec' = time_begin'
          /\ end_spec' = time_end'
          /\ tpc' = "alignBegin"
          /\ UNCHANGED <<now, point, range>>

Aligned(t) == t % FLOW_FILE_ROTATION_INTERVAL = 0

\* The beginning goes back second by second.
AlignBegin ==
    /\ tpc \in {"alignPoint", "alignBegin"}
    /\ ~Aligned(time_begin)
    /\ time_begin' = time_begin - 1
    /\ UNCHANGED <<now, point, range, tpc, time_end, begin_spec, end_spec>>

\* The end of a time point starts out one second after the aligned beginning.
PointEnd ==
    /\ tpc = "alignPoint"
    /\ Aligned(time_begin)
    /\ time_end' = time_begin + 1
    /\ tpc' = "alignEnd"
    /\ UNCHANGED <<now, point, range, time_begin, begin_spec, end_spec>>

RangeEnd ==
    /\ tpc = "alignBegin"
    /\ Aligned(time_begin)
    /\ tpc' = "alignEnd"
    /\ UNCHANGED <<now, point, range, time_begin, time_end, begin_spec, end_spec>>

\* The end goes forward second by second.
AlignEnd ==
    /\ tpc = "alignEnd"
    /\ ~Aligned(time_end)
    /\ time_end' = time_end + 1
    /\ UNCHANGED <<now, point, range, tpc, time_begin, begin_spec, end_spec>>

EmptyRange == TmDiff(Gmtime(time_end), Gmtime(time_begin)) <= 0

\* A range must not be empty.
CheckRange ==
    /\ tpc = "alignEnd"
    /\ Aligned(time_end)
    /\ \/ range # None /\ EmptyRange /\ Reject
       \/ /\ range # None => ~EmptyRange
          /\ tpc' = "accepted"
          /\ UNCHANGED <<now, point, range, time_begin, time_end, begin_spec, end_spec>>

\* Parsing is over; not a step of the program.
Stopped == tpc \in {"accepted", "rejected"} /\ UNCHANGED timeVars

TimeStep ==
    \/ ParseOptions \/ SetTimePoint \/ SetTimeRange
    \/ AlignBegin \/ PointEnd \/ RangeEnd \/ AlignEnd \/ CheckRange

TimeNext == TimeStep \/ Stopped

TimeSpec == TimeInit /\ [][TimeNext]_timeVars

----------------------------------------------------------------------------
(* Properties                                                              *)

\* "Process only a single flow file ..., the one which includes given
\* time_spec": one whole rotation interval, around the time asked for (and the
\* assertion at the end of set_time_point).
PointSelectsItsFile ==
    tpc = "accepted" /\ point # None =>
        /\ Aligned(time_begin)
        /\ time_end - time_begin = FLOW_FILE_ROTATION_INTERVAL
        /\ time_begin <= begin_spec /\ begin_spec < time_end

\* The range covers the time asked for and nothing beyond the intervals it
\* touches; it is refused only when no time is left in it.
RangeCovered ==
    range # None /\ point = None =>
        /\ tpc = "accepted" =>
              /\ Aligned(time_begin) /\ Aligned(time_end)
              /\ time_begin <= begin_spec /\ end_spec <= time_end
              /\ begin_spec - time_begin < FLOW_FILE_ROTATION_INTERVAL
              /\ time_end - end_spec < FLOW_FILE_ROTATION_INTERVAL
        /\ tpc = "rejected" /\ BadSpec \notin {range[1], range[2]} => end_spec <= begin_spec

Today == DayOf(now.year, now.mon, now.mday)

\* A specification without a full date means the latest such time: the last
\* day with that weekday, the first of the last such month, the last such hour;
\* also across the ends of months and years.
LatestMeant ==
    tpc = "alignPoint" =>
        LET t == begin_spec + ZoneOffset
            d == t \div Day IN
        /\ OnlyWday(point) => d \in (Today - 6)..Today /\ WdayOf(d) = point.wday
        /\ point.mon # Unset /\ point.mday = Unset =>
              /\ d <= Today /\ Today < DayOf(now.year + 1, point.mon, 1)
              /\ \E y \in {now.year - 1, now.year} : d = DayOf(y, point.mon, 1)
              /\ Today - d < 366
        /\ point.mon = Unset /\ point.mday = Unset /\ point.wday = Unset =>
              /\ d \in {Today - 1, Today}
              /\ t < Mktime(now) + 3600
              /\ Mktime(now) - t < Day

\* What the time options mean is what begin and end are set to: the times asked
\* for, completed from the current time, in whole rotation intervals.
TimeOptionsMeant == LatestMeant /\ PointSelectsItsFile /\ RangeCovered

\* tm_diff on broken-down times is the difference of the calendar times.
DurationExact ==
    tpc \in {"alignEnd", "accepted"} =>
        TmDiff(Gmtime(time_end), Gmtime(time_begin)) = time_end - time_begin

============================================================================
