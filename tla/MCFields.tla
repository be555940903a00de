------------------------------ MODULE MCFields ------------------------------
(***************************************************************************)
(* A small instance of Fields: eight fields, at most two aggregation keys  *)
(* and three output fields, with all lists of up to three tokens; all      *)
(* command lines of up to two options, and of three of the ones that       *)
(* depend on each other.                                                   *)
(***************************************************************************)
EXTENDS Fields, TLC

CONSTANTS srcip, first, bytes, pkts, bps, prot, duration, direction

MCSize == (srcip :> 16) @@ (first :> 8) @@ (bytes :> 8) @@ (pkts :> 8) @@ (bps :> 8)
          @@ (prot :> 1) @@ (duration :> 8) @@ (direction :> 1)

MCDefaults == ("list" :> <<first, srcip>>) @@ ("sort" :> <<first, srcip, bytes>>)
              @@ ("aggr" :> <<first, bytes, pkts>>)

Lists(S, n) == UNION {[1..k -> S] : k \in 0..n}

SortSpecs == [token: {srcip, bytes, bps, BadToken}, dir: {"default", "desc", "invalid"}]

Given(opt, arg) == IF arg = None THEN <<>> ELSE <<<<opt, arg>>>>

Command(os) == [options |-> os, path |-> TRUE]

\* All short lists of fields, with the arrays at and beyond their limits.
FieldCommands ==
    {Command(Given("aggr", x) \o Given("sort", y) \o Given("output", z)) :
        x \in Lists({srcip, first, bytes, bps}, 3) \cup {None},
        y \in SortSpecs \cup {None},
        z \in Lists({srcip, bytes, pkts}, 3) \cup {None, <<first, bytes, pkts, srcip>>}}

\* One or two of all options, in any order and number.
SomeOptions ==
    {<<"aggr", <<srcip>>>>, <<"aggr", <<srcip, BadToken>>>>,
     <<"sort", [token |-> bytes, dir |-> "asc"]>>, <<"output", <<BadToken>>>>,
     <<"output", <<first, bytes, pkts, srcip>>>>,
     <<"stat", [aggr |-> <<srcip>>, sort |-> None]>>,
     <<"stat", [aggr |-> <<srcip>>, sort |-> [token |-> srcip, dir |-> "default"]]>>,
     <<"limit", 0>>, <<"limit", 1>>, <<"limit", BadToken>>,
     <<"items", <<"metadata_summ">>>>, <<"items", <<"records">>>>,
     <<"items", <<"processed_summ", "records">>>>, <<"items", <<"metadata_summ", "processed_summ">>>>,
     <<"items", <<BadToken>>>>,
     <<"ts", BadToken>>, <<"ts", "none">>, <<"volume", "readable">>, <<"volume", BadToken>>}
    \cup ({"filter", "time_point", "time_range", "checked"} \X {"good", BadToken})
    \cup ({"format"} \X {"pretty", "csv", BadToken})
    \cup ({"rich_header", "no_ellipsize", "no_tput", "help", "unknown"} \X {None})

\* Options that replace one another or are read together.
RelatedOptions ==
    {o \in SomeOptions : o[1] \in {"aggr", "sort", "stat", "limit", "items", "format", "no_tput"}
                         /\ o[2] # BadToken}

OptionCommands ==
    [options: UNION {[1..k -> SomeOptions] : k \in 0..2} \cup [1..3 -> RelatedOptions],
     path: {TRUE}]
    \cup [options: [1..1 -> SomeOptions], path: {FALSE}]

MCCommandLines == FieldCommands \cup OptionCommands

\* Statistics without a limit, with one behind and with one before, as in an
\* example of the manual: fdistdump -l 3 -s bytes.
LimitCommands ==
    LET stat == <<"stat", [aggr |-> <<bytes>>, sort |-> None]>>
        limit == <<"limit", 3>> IN
    {Command(os) : os \in {<<>>, <<limit>>, <<stat>>, <<stat, limit>>, <<limit, stat>>}}

MCStatSort == [token |-> bytes, dir |-> "default"]

============================================================================
