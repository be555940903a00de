-------------------------- MODULE MCFileSelection --------------------------
(***************************************************************************)
(* A small instance of FileSelection: current times at the ends of days,   *)
(* months, years and at the leap days around 2000 and 2100, all kinds of   *)
(* specifications, and the directories of MCPathArray with files at and    *)
(* next to some of the times asked for.                                    *)
(***************************************************************************)
EXTENDS FileSelection, MCPathArray

At(y, m, d, h, mi, s) ==
    [year |-> y, mon |-> m, mday |-> d, hour |-> h, min |-> mi, sec |-> s,
     wday |-> WdayOf(DayOf(y, m, d))]

Dates == {<<1999, 11, 31>>, <<2000, 0, 1>>, <<2000, 1, 29>>, <<2000, 2, 1>>,
          <<2015, 9, 21>>, <<2100, 2, 1>>}

MCNows == {At(d[1], d[2], d[3], t[1], t[2], t[3]) :
              d \in Dates, t \in {<<0, 0, 0>>, <<10, 30, 7>>, <<23, 59, 59>>}}

Blank == [year |-> Unset, mon |-> Unset, mday |-> Unset, hour |-> Unset,
          min |-> Unset, sec |-> Unset, wday |-> Unset]

Weekday(w) == [Blank EXCEPT !.wday = w]
Month(m) == [Blank EXCEPT !.mon = m]
Hour(h, m) == [Blank EXCEPT !.hour = h, !.min = m]
WithHour(spec, h) == [spec EXCEPT !.hour = h, !.min = 1]
Date(d) == [Blank EXCEPT !.year = d[1], !.mon = d[2], !.mday = d[3]]

\* The first seconds of 2060.
NewYear(s) == At(2060, 0, 1, 0, 0, s)

Specs ==
    {Weekday(w) : w \in 0..6} \cup {Month(m) : m \in 0..11}
    \cup {Hour(h, m) : h \in {0, 9, 10, 11, 23}, m \in {0, 31}}
    \cup {WithHour(Weekday(3), 12), WithHour(Month(5), 12)}
    \cup {Date(d) : d \in Dates} \cup {WithHour(Date(<<2000, 1, 29>>), 23)}
    \cup {At(2000, 1, 29, 23, 59, s) : s \in {0, 57, 59}} \cup {BadSpec}
    \cup {NewYear(5)}

\* For ranges; no two of them, and no current time, are 68 years apart.
FewSpecs ==
    {Weekday(3), Month(1), Hour(10, 31), Hour(23, 59), NewYear(0), NewYear(3), NewYear(5),
     NewYear(20), Date(<<2050, 9, 21>>), BadSpec}

MCOptions ==
    {<<p, None>> : p \in Specs \cup {None}}
    \cup {<<None, <<b, e>>>> : b \in FewSpecs, e \in FewSpecs \cup {None}}
    \cup {<<Weekday(1), <<Weekday(1), None>>>>}

MCFlowFile(t) == <<"day", ToString(t)>>

\* Files of some intervals before, around and after the times asked for.
FileTimes ==
    LET Around(tm) ==
            LET t == LocalToUtc(Mktime(tm)) IN
            [k \in 1..4 |-> t - (t % FLOW_FILE_ROTATION_INTERVAL)
                            + <<-1, 0, 2, 3>>[k] * FLOW_FILE_ROTATION_INTERVAL] IN
    Around(NewYear(3)) \o Around(At(2000, 1, 29, 23, 59, 57))

LiveFiles ==
    (<<"live">> :> Dir(<<"day", "old">>)) @@ (<<"live", "old">> :> Locked)
    @@ (<<"live", "day">> :>
          Dir(<<"bfi.f2">> \o [k \in DOMAIN FileTimes |-> ToString(FileTimes[k])]))
    @@ [n \in {<<"live">> \o MCFlowFile(FileTimes[k]) : k \in DOMAIN FileTimes} |-> File]

MCFilesOf == (1 :> (LiveFiles @@ Own("h1"))) @@ (2 :> (LiveFiles @@ Own("h2")))

MCLive == {P(AnyRank, <<"live">>), P(2, <<"live">>), P(AnyRank, <<"%h", "f">>),
           P(AnyRank, <<"live", "%x">>), P(AnyRank, <<"nowhere">>), Host}

MCLongNames ==
    {<<"h1", "x">>, <<"h2", "x">>} \cup {<<h>> \o MCFlowFile(t) : h \in {"h1", "h2"}, t \in ToSet(FileTimes)}

MCPathCommands == {[paths |-> ps, begin |-> 0, end |-> 0] : ps \in Lists(MCLive)}

\* All time options with one path, and all paths with some time options.
MCSelectionInit ==
    /\ SelectionInit
    /\ \/ cmd.paths = <<P(AnyRank, <<"live">>)>> /\ rank = 1
       \/ /\ now = At(2015, 9, 21, 10, 30, 7)
          /\ \/ point \in {None, NewYear(5)} /\ range = None
             \/ point = None /\ range = <<NewYear(3), NewYear(20)>>

MCSelectionSpec ==
    MCSelectionInit /\ [][SelectionNext]_selectionVars /\ WF_selectionVars(SelectionStep)

============================================================================
