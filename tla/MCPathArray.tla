---------------------------- MODULE MCPathArray ----------------------------
(***************************************************************************)
(* A small instance of PathArray: two slaves that see a profile directory  *)
(* with two flow files of four rotation intervals, a directory per host,   *)
(* an index, a hidden file and a directory that cannot be read.            *)
(***************************************************************************)
EXTENDS PathArray, SequencesExt

File == [type |-> "file"]
Dir(es) == [type |-> "dir", readable |-> TRUE, entries |-> es]
Locked == [type |-> "dir", readable |-> FALSE, entries |-> <<>>]

MCHostname == (1 :> "h1") @@ (2 :> "h2")

\* Intervals begin at 0, 2, 4 and 6; only those at 2 and 4 have a file.
MCFormat(t) == <<"day", (0 :> "f0" @@ 2 :> "f2" @@ 4 :> "f4" @@ 6 :> "f6")[t]>>

Shared ==
    (<<"live">> :> Dir(<<".", "..", "day", "old">>))
    @@ (<<"live", "day">> :> Dir(<<".", "..", "f2", "bfi.f2", "f4">>))
    @@ (<<"live", "day", "f2">> :> File)
    @@ (<<"live", "day", "f4">> :> File)
    @@ (<<"live", "day", "bfi.f2">> :> File)
    @@ (<<"live", "old">> :> Locked)

\* The host's own directory holds an entry whose name is too long.
Own(h) == (<<h>> :> Dir(<<"f", "gone", "x">>)) @@ (<<h, "f">> :> File)

MCFs == (1 :> (Shared @@ Own("h1"))) @@ (2 :> (Shared @@ Own("h2")))

\* Names too long for an entry, and for the time format behind a directory.
MCLong == {<<"h1", "x">>, <<"h2", "x">>}
          \cup {<<h, "day", f>> : h \in {"h1", "h2"}, f \in {"f0", "f2", "f4", "f6"}}

P(t, n) == [target |-> t, name |-> n]

Plain == {P(AnyRank, <<"live">>), P(2, <<"live">>), P(AnyRank, <<"live", "day", "f4">>),
          P(AnyRank, <<"live", "%x">>), P(AnyRank, <<"nowhere">>)}
Host == P(AnyRank, <<"%h">>)

Lists(S) == UNION {[1..k -> S] : k \in 1..3}

\* A time range in a directory with a very long name.
LongCommands == {[paths |-> <<Host>>, begin |-> 0, end |-> 8]}

============================================================================
