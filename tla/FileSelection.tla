--------------------------- MODULE FileSelection ---------------------------
(***************************************************************************)
(* From time options to flow files: TimeRange, as arg_parse runs it in a   *)
(* slave, followed by PathArray with the range it found.                   *)
(***************************************************************************)
EXTENDS TimeRange, PathArray

CONSTANT
    MaxIntervals   \* longer ranges are not searched here

ASSUME SelectionAssumption == MaxIntervals \in Nat

VARIABLE started   \* path_array_gen has been called

selectionVars == <<timeVars, vars, started>>

SelectionInit ==
    /\ TimeInit
    /\ Init
    /\ cmd.begin = time_begin /\ cmd.end = time_end
    /\ started = FALSE

Arguments == TimeStep /\ UNCHANGED <<vars, started>>

\* Mistake: the times are given the other way round.
PathArrayGenSwapped ==
    /\ tpc = "accepted"
    /\ ~started
    /\ time_end - time_begin <= MaxIntervals * FLOW_FILE_ROTATION_INTERVAL
    /\ cmd' = [cmd EXCEPT !.begin = time_end, !.end = time_begin]
    /\ started' = TRUE
    /\ UNCHANGED <<timeVars, rank, pc, i, new_path, ctx, todo, arrayVars>>

\* slave_main calls path_array_gen with the paths and both times.
PathArrayGen ==
    /\ tpc = "accepted"
    /\ ~started
    /\ time_end - time_begin <= MaxIntervals * FLOW_FILE_ROTATION_INTERVAL
    /\ cmd' = [cmd EXCEPT !.begin = time_begin, !.end = time_end]
    /\ started' = TRUE
    /\ UNCHANGED <<timeVars, rank, pc, i, new_path, ctx, todo, arrayVars>>

Search == started /\ Step /\ UNCHANGED <<timeVars, started>>

\* The arguments are refused, the list is complete or the range is not followed
\* further; not a step of the program.
NotSearched ==
    /\ tpc = "accepted"
    /\ time_end - time_begin > MaxIntervals * FLOW_FILE_ROTATION_INTERVAL

AtEnd == (tpc = "rejected" \/ Done \/ NotSearched) /\ UNCHANGED selectionVars

SelectionStep == Arguments \/ PathArrayGen \/ Search

SelectionNext == SelectionStep \/ AtEnd

\* The process runs on.
SelectionSpec ==
    SelectionInit /\ [][SelectionNext]_selectionVars /\ WF_selectionVars(SelectionStep)

----------------------------------------------------------------------------
(* Properties                                                              *)

\* The time options ask for records of the interval that begins at t.
Asked(t) ==
    IF point # None
    THEN t <= begin_spec /\ begin_spec < t + FLOW_FILE_ROTATION_INTERVAL
    ELSE t < end_spec /\ begin_spec < t + FLOW_FILE_ROTATION_INTERVAL

\* What the user asks for in local time and possibly without a date is what is
\* read: of the names that lie below a directory and below no other path of the
\* command line, the files of exactly those rotation intervals that the time point
\* or range touches.
TimeSelectsFiles ==
    Done /\ (point # None \/ range # None) =>
        \A k \in DOMAIN cmd.paths :
            LET p == Preprocessed(cmd.paths[k])
                first == begin_spec - (begin_spec % FLOW_FILE_ROTATION_INTERVAL)
                near == {first + j * FLOW_FILE_ROTATION_INTERVAL : j \in -1..(MaxIntervals + 1)} IN
            Accepted(cmd.paths[k]) /\ Exists(p) /\ IsDir(p) =>
                \A n \in DOMAIN Fs[rank] \ {p} :
                    (\A m \in DOMAIN cmd.paths :
                        IsPrefixName(Preprocessed(cmd.paths[m]), n)
                        <=> Preprocessed(cmd.paths[m]) = p) =>
                            ((\E j \in DOMAIN names : names[j] = n)
                             <=> \E t \in near : Asked(t) /\ n = p \o FlowFileFormat(t))

\* The file list is completed or the options are refused: the loops that align
\* begin and end reach the interval, whatever the time and the time zone, and
\* the search of a range ends as long as the names of its files fit.
SelectionEnds ==
    <>(tpc = "rejected" \/ Done \/ NotSearched \/ (started /\ ~NamesFit))

============================================================================
