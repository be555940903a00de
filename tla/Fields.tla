------------------------------- MODULE Fields -------------------------------
(***************************************************************************)
(* The command line: arg_parse goes through the options, then turns the    *)
(* aggregation, sort and output fields into struct fields, token by token, *)
(* and decides about working mode, output parameters and TPUT.  At last    *)
(* libnf_mem_init_ht and libnf_mem_init_list turn struct fields into the   *)
(* columns of a libnf memory.                                              *)
(*                                                                         *)
(* A field is a member of Ids.  The array "all" holds every field once, so *)
(* a pointer into it is represented by the field.                          *)
(***************************************************************************)
EXTENDS Naturals, Sequences, FiniteSets, FiniteSetsExt, SequencesExt

CONSTANTS
    Ids,              \* libnf fields
    BadToken,         \* a token field_parse refuses
    None,             \* an option that is not given, a pointer that is NULL
    Size,             \* field_get_size
    Sortable,         \* fields with a default sort direction
    NotAggregable,    \* calculated and compound fields
    Volume,           \* LNF_FLD_DOCTETS to LNF_FLD_AGGR_FLOWS
    FastFields,       \* the output fields fast aggregation is made for
    DefaultFields,    \* DEFAULT_LIST_FIELDS and so on, by working mode
    DefaultStatSort,  \* DEFAULT_STAT_SORT_KEY
    DefaultStatLimit, \* DEFAULT_STAT_REC_LIMIT
    CommandLines,     \* possible command lines
    AGGR_KEYS_MAX, OUTPUT_FIELDS_MAX

ALL_FIELDS_MAX == AGGR_KEYS_MAX + OUTPUT_FIELDS_MAX + 1

Token == Ids \cup {BadToken}
SortSpec == [token: Token, dir: {"default", "asc", "desc", "invalid"}]
Items == {"records", "processed_summ", "metadata_summ"}
Convs == {"ts", "volume", "tcp_flags", "ip_addr", "ip_proto", "duration"}

(***************************************************************************)
(* An option and its argument; BadToken is an argument that is refused.    *)
(* "stat" is --statistic.  "checked" stands for options whose argument is  *)
(* examined and has no influence on anything modelled here: --verbosity,   *)
(* --num-threads, --progress-bar-type.  "readable" volumes have metric     *)
(* prefixes; "binary" is for volumes only.                                 *)
(***************************************************************************)
Option ==
    ({"aggr", "output"} \X Seq(Token))
    \cup ({"sort"} \X SortSpec)
    \cup ({"stat"} \X [aggr: Seq(Token), sort: SortSpec \cup {None}])
    \cup ({"limit"} \X (Nat \cup {BadToken}))
    \cup ({"filter", "time_point", "time_range", "checked"} \X {"good", BadToken})
    \cup ({"items"} \X Seq(Items \cup {BadToken}))
    \cup ({"format"} \X {"pretty", "csv", BadToken})
    \cup (Convs \X {"none", "readable", "binary", BadToken})
    \cup ({"rich_header", "no_ellipsize", "no_tput", "help", "unknown"} \X {None})

ASSUME FieldsAssumption ==
    /\ IsFiniteSet(Ids)
    /\ BadToken \notin Ids \cup {None}
    /\ None \notin Ids \cup Nat
    /\ Size \in [Ids -> Nat \ {0}]
    /\ Sortable \subseteq Ids
    /\ NotAggregable \subseteq Ids
    /\ Volume \subseteq Ids
    /\ FastFields \subseteq Ids
    /\ AGGR_KEYS_MAX \in Nat \ {0}
    /\ OUTPUT_FIELDS_MAX \in Nat \ {0}
    /\ DefaultFields \in [{"list", "sort", "aggr"} -> Seq(Ids)]
    /\ \A m \in DOMAIN DefaultFields : Len(DefaultFields[m]) <= OUTPUT_FIELDS_MAX
    /\ DefaultStatSort \in SortSpec
    /\ DefaultStatLimit \in Nat
    /\ CommandLines \subseteq [options: Seq(Option), path: BOOLEAN]

VARIABLES
    argv,                 \* the options, and whether there is a path
    opts,                 \* the local variables *_optarg
    pc, pos,              \* step of arg_parse, options or tokens taken in this step
    working_mode, use_tput, rec_limit,
    output_params,        \* items, format, ellipsize, rich_header and conv
    \* struct fields
    all, all_sizes_sum, aggr_keys, sort_key, output_fields,
    columns               \* columns of a libnf memory, a sequence of fields

fieldsVars == <<all, all_sizes_sum, aggr_keys, sort_key, output_fields>>
argsVars == <<working_mode, use_tput, rec_limit, output_params>>
vars == <<argv, opts, pc, pos, argsVars, fieldsVars, columns>>

----------------------------------------------------------------------------

Init ==
    /\ argv \in CommandLines
    /\ opts = [aggr |-> None, sort |-> None, limit |-> None, filter |-> None,
               time_point |-> None, time_range |-> None, output |-> None]
    /\ pc = "getopt"
    /\ pos = 0
    /\ working_mode = "unset"
    /\ use_tput = TRUE
    /\ rec_limit = None
    /\ output_params = [items |-> [i \in Items |-> "unset"], format |-> "unset",
                        ellipsize |-> TRUE, rich_header |-> FALSE,
                        conv |-> [c \in Convs |-> "unset"]]
    /\ all = <<>>
    /\ all_sizes_sum = 0
    /\ aggr_keys = <<>>
    /\ sort_key = None
    /\ output_fields = <<>>
    /\ columns = <<>>

Present(id) == id \in ToSet(all)

\* arg_parse gives up with E_ARG.
Reject ==
    /\ pc' = "rejected"
    /\ UNCHANGED <<argv, opts, pos, argsVars, fieldsVars, columns>>

\* add_to_all
AddToAll(id) ==
    /\ all' = Append(all, id)
    /\ all_sizes_sum' = all_sizes_sum + Size[id]

Full == Len(all) = ALL_FIELDS_MAX

\* The size of the first n of some fields.
SizeOf(fields, n) ==
    LET sizes == [i \in DOMAIN fields |-> Size[fields[i]]] IN
    MapThenSumSet(LAMBDA i : sizes[i], 1..n)

----------------------------------------------------------------------------
(* The loop over the options.                                              *)

\* An option whose argument is only remembered; a later one replaces it.
RememberOption(opt, arg) ==
    /\ opt \in DOMAIN opts
    /\ opts' = [opts EXCEPT ![opt] = arg]
    /\ UNCHANGED <<use_tput, output_params>>

\* parse_stat_spec: aggregation and sort specification, and always the default
\* limit, also when --limit has been given before.
StatOption(opt, arg) ==
    /\ opt = "stat"
    /\ opts' = [opts EXCEPT !.aggr = arg.aggr,
                            !.sort = IF arg.sort # None THEN arg.sort ELSE DefaultStatSort,
                            !.limit = DefaultStatLimit]
    /\ UNCHANGED <<use_tput, output_params>>

\* set_output_items
ItemsOption(opt, arg) ==
    /\ opt = "items"
    /\ BadToken \notin ToSet(arg)
    /\ output_params' = [output_params EXCEPT !.items =
                            [i \in Items |-> IF i \in ToSet(arg) THEN "yes" ELSE "no"]]
    /\ UNCHANGED <<opts, use_tput>>

\* set_output_format
FormatOption(opt, arg) ==
    /\ opt = "format"
    /\ arg # BadToken
    /\ output_params' = [output_params EXCEPT !.format = arg]
    /\ UNCHANGED <<opts, use_tput>>

\* set_output_ts_conv and so on: the former takes no notice of an unknown
\* argument.
ConvOption(opt, arg) ==
    /\ opt \in Convs
    /\ \/ arg # BadToken /\ output_params' = [output_params EXCEPT !.conv[opt] = arg]
       \/ arg = BadToken /\ opt = "ts" /\ UNCHANGED output_params
    /\ UNCHANGED <<opts, use_tput>>

\* Two switches; the opposite cannot be asked for.
LayoutOption(opt) ==
    /\ \/ /\ opt = "rich_header"
          /\ output_params' = [output_params EXCEPT !.rich_header = TRUE]
       \/ /\ opt = "no_ellipsize"
          /\ output_params' = [output_params EXCEPT !.ellipsize = FALSE]
    /\ UNCHANGED <<opts, use_tput>>

CheckedOption(opt, arg) ==
    /\ opt = "checked"
    /\ arg # BadToken
    /\ UNCHANGED <<opts, use_tput, output_params>>

NoTputOption(opt) ==
    /\ opt = "no_tput"
    /\ use_tput' = FALSE
    /\ UNCHANGED <<opts, output_params>>

\* The loop is left with an error.
Refused(opt, arg) ==
    \/ opt = "unknown"
    \/ opt = "items" /\ BadToken \in ToSet(arg)
    \/ opt \in {"format", "checked"} \cup (Convs \ {"ts"}) /\ arg = BadToken

NextOption ==
    LET opt == argv.options[pos + 1][1]
        arg == argv.options[pos + 1][2] IN
    /\ pc = "getopt"
    /\ pos < Len(argv.options)
    /\ \/ /\ \/ RememberOption(opt, arg) \/ StatOption(opt, arg)
             \/ ItemsOption(opt, arg) \/ FormatOption(opt, arg) \/ ConvOption(opt, arg)
             \/ LayoutOption(opt) \/ CheckedOption(opt, arg) \/ NoTputOption(opt)
          /\ pos' = pos + 1
          /\ UNCHANGED <<argv, pc, working_mode, rec_limit, fieldsVars, columns>>
       \/ /\ opt = "help"
          /\ pc' = "help"
          /\ UNCHANGED <<argv, opts, pos, argsVars, fieldsVars, columns>>
       \/ Refused(opt, arg) /\ Reject

\* Behind the loop: the working mode by the options given.
ChooseMode ==
    /\ pc = "getopt"
    /\ pos = Len(argv.options)
    /\ pos' = 0
    /\ \/ opts.aggr # None /\ working_mode' = "aggr" /\ pc' = "aggr"
       \/ /\ opts.aggr = None /\ opts.sort # None
          /\ working_mode' = "sort" /\ pc' = "sort"
       \/ /\ opts.aggr = None /\ opts.sort = None
          /\ working_mode' = "list" /\ pc' = "limit"
    /\ UNCHANGED <<argv, opts, use_tput, rec_limit, output_params, fieldsVars, columns>>

----------------------------------------------------------------------------
(* parse_fields for the aggregation keys.                                  *)

\* Mistake: one key too many is let in.
KeysFullLate == Len(aggr_keys) > AGGR_KEYS_MAX

KeysFull == Len(aggr_keys) = AGGR_KEYS_MAX

\* fields_add_aggr_key with the next token.
AddAggrKey ==
    LET id == opts.aggr[pos + 1] IN
    /\ pc = "aggr"
    /\ pos < Len(opts.aggr)
    /\ \/ /\ \/ id = BadToken
             \/ KeysFull
             \/ ~Present(id) /\ (id \in NotAggregable \/ Full)
          /\ Reject
       \/ /\ id # BadToken
          /\ ~KeysFull
          /\ \/ Present(id) /\ UNCHANGED <<all, all_sizes_sum, aggr_keys>>
             \/ /\ ~Present(id)
                /\ id \notin NotAggregable
                /\ ~Full
                /\ AddToAll(id)
                /\ aggr_keys' = Append(aggr_keys, id)
          /\ pos' = pos + 1
          /\ UNCHANGED <<argv, opts, pc, argsVars, sort_key, output_fields, columns>>

\* All keys are added; there must be at least one.
AggrKeysDone ==
    /\ pc = "aggr"
    /\ pos = Len(opts.aggr)
    /\ IF pos = 0
       THEN Reject
       ELSE /\ pc' = IF opts.sort # None THEN "sort" ELSE "limit"
            /\ pos' = 0
            /\ UNCHANGED <<argv, opts, argsVars, fieldsVars, columns>>

----------------------------------------------------------------------------
(* parse_sort_spec                                                         *)

\* An invalid direction is an error, but it is returned as E_ARG, which the
\* caller takes for true: parsing goes on without a sort key.
InvalidDirection ==
    /\ pc = "sort"
    /\ opts.sort.dir = "invalid"
    /\ pc' = "limit"
    /\ UNCHANGED <<argv, opts, pos, argsVars, fieldsVars, columns>>

\* Mistake: a field that is already present does not become the sort key.
SetSortKeyNew ==
    LET id == opts.sort.token IN
    /\ pc = "sort"
    /\ opts.sort.dir # "invalid"
    /\ \/ (id \notin Sortable \/ (~Present(id) /\ Full)) /\ Reject
       \/ /\ id \in Sortable
          /\ \/ Present(id) /\ UNCHANGED fieldsVars
             \/ /\ ~Present(id)
                /\ ~Full
                /\ AddToAll(id)
                /\ sort_key' = id
                /\ UNCHANGED <<aggr_keys, output_fields>>
          /\ pc' = "limit"
          /\ UNCHANGED <<argv, opts, pos, argsVars, columns>>

\* fields_set_sort_key; the sort key may be an aggregation key as well.
SetSortKey ==
    LET id == opts.sort.token IN
    /\ pc = "sort"
    /\ opts.sort.dir # "invalid"
    /\ \/ (id \notin Sortable \/ (~Present(id) /\ Full)) /\ Reject
       \/ /\ id \in Sortable
          /\ \/ Present(id) /\ UNCHANGED <<all, all_sizes_sum>>
             \/ ~Present(id) /\ ~Full /\ AddToAll(id)
          /\ sort_key' = id
          /\ pc' = "limit"
          /\ UNCHANGED <<argv, opts, pos, argsVars, aggr_keys, output_fields, columns>>

----------------------------------------------------------------------------
(* The rest of arg_parse.                                                  *)

\* Limit, filter, time options (the subject of TimeRange) and paths.
CheckArguments ==
    /\ pc = "limit"
    /\ \/ /\ \/ BadToken \in {opts.limit, opts.filter, opts.time_point, opts.time_range}
             \/ opts.time_point # None /\ opts.time_range # None
             \/ ~argv.path
          /\ Reject
       \/ /\ BadToken \notin {opts.limit, opts.filter, opts.time_point, opts.time_range}
          /\ None \in {opts.time_point, opts.time_range}
          /\ argv.path
          /\ rec_limit' = IF opts.limit = None THEN 0 ELSE opts.limit
          /\ pc' = "mode"
          /\ UNCHANGED <<argv, opts, pos, working_mode, use_tput, output_params, fieldsVars,
                         columns>>

\* Without records and summary of processed records only metadata is read.
SetMode ==
    LET items == output_params.items IN
    /\ pc = "mode"
    /\ working_mode' = IF items["records"] = "no" /\ items["processed_summ"] = "no"
                       THEN "meta" ELSE working_mode
    /\ pc' = "output"
    /\ UNCHANGED <<argv, opts, pos, use_tput, rec_limit, output_params, fieldsVars, columns>>

\* The tokens of --output-fields, or the default ones of the working mode.
OutputTokens ==
    IF opts.output # None THEN opts.output
    ELSE IF working_mode = "meta" THEN <<>> ELSE DefaultFields[working_mode]

\* Mistake: keys are not looked for among the fields.
AddOutputFieldAgain ==
    LET id == OutputTokens[pos + 1] IN
    /\ pc = "output"
    /\ pos < Len(OutputTokens)
    /\ id # BadToken
    /\ Len(output_fields) # OUTPUT_FIELDS_MAX
    /\ IF Present(id) THEN UNCHANGED <<all, all_sizes_sum>> ELSE AddToAll(id)
    /\ output_fields' = Append(output_fields, id)
    /\ pos' = pos + 1
    /\ UNCHANGED <<argv, opts, pc, argsVars, aggr_keys, sort_key, columns>>

\* fields_add_output_field with the next token.  The default fields may not
\* fail: this is an assertion.
AddOutputField ==
    LET id == OutputTokens[pos + 1]
        outputFull == Len(output_fields) = OUTPUT_FIELDS_MAX IN
    /\ pc = "output"
    /\ pos < Len(OutputTokens)
    /\ \/ /\ \/ id = BadToken
             \/ outputFull
             \/ ~Present(id) /\ Full
          /\ pc' = IF opts.output # None THEN "rejected" ELSE "assertion"
          /\ UNCHANGED <<argv, opts, pos, argsVars, fieldsVars, columns>>
       \/ /\ id # BadToken
          /\ ~outputFull
          /\ \/ Present(id) /\ UNCHANGED <<all, all_sizes_sum, output_fields>>
             \/ /\ ~Present(id)
                /\ ~Full
                /\ AddToAll(id)
                /\ output_fields' = Append(output_fields, id)
          /\ pos' = pos + 1
          /\ UNCHANGED <<argv, opts, pc, argsVars, aggr_keys, sort_key, columns>>

\* Mistake: records are printed by default in the pretty format only.
DefaultItemsPretty(format) ==
    [i \in Items |-> IF format = "pretty" /\ i # "metadata_summ" THEN "yes" ELSE "no"]

\* The summary of processed records is not part of CSV.
DefaultItems(format) ==
    [i \in Items |-> IF i = "records" \/ (i = "processed_summ" /\ format = "pretty")
                     THEN "yes" ELSE "no"]

\* The default output format, items and conversions.
SetOutputDefaults ==
    LET op == output_params
        format == IF op.format = "unset" THEN "pretty" ELSE op.format
        Defaulted(given, default) == IF given = "unset" THEN default ELSE given IN
    /\ pc = "output"
    /\ pos = Len(OutputTokens)
    /\ output_params' =
          [op EXCEPT
           !.format = format,
           !.items = [i \in Items |-> Defaulted(op.items[i], DefaultItems(format)[i])],
           !.conv = [c \in Convs |-> Defaulted(op.conv[c],
                                       IF format = "pretty" THEN "readable" ELSE "none")]]
    /\ pc' = "tput"
    /\ UNCHANGED <<argv, opts, pos, working_mode, use_tput, rec_limit, fieldsVars, columns>>

\* TPUT is kept for a limited aggregation sorted by a volume.
DecideTput ==
    /\ pc = "tput"
    /\ use_tput' = (use_tput /\ working_mode = "aggr" /\ rec_limit # 0 /\ sort_key \in Volume)
    /\ pc' = "accepted"
    /\ UNCHANGED <<argv, opts, pos, working_mode, rec_limit, output_params, fieldsVars, columns>>

\* fields_check: the total size is that of the fields, every field has a
\* purpose, and output fields are neither aggregation keys nor the sort key.
FieldsCheck ==
    /\ all_sizes_sum = SizeOf(all, Len(all))
    /\ ToSet(all) = ToSet(aggr_keys) \cup ToSet(output_fields) \cup ({sort_key} \ {None})
    /\ ToSet(aggr_keys) \cap ToSet(output_fields) = {}
    /\ sort_key \notin ToSet(output_fields)

----------------------------------------------------------------------------
(* The libnf memory.                                                       *)

\* fields_can_use_fast_aggr
CanUseFastAggr ==
    Len(output_fields) = Cardinality(FastFields) /\ ToSet(output_fields) = FastFields

\* Mistake: the sort key gets a column of its own in any case.
HtColumnsTwice ==
    aggr_keys \o (IF sort_key # None THEN <<sort_key>> ELSE <<>>) \o output_fields

\* libnf_mem_init_ht: aggregation keys, a sort key that is none of them, and
\* the output fields, which fast aggregation (external) adds in its own order.
HtColumns ==
    aggr_keys
    \o (IF sort_key # None /\ sort_key \notin ToSet(aggr_keys) THEN <<sort_key>> ELSE <<>>)
    \o (IF CanUseFastAggr THEN SetToSeq(FastFields) ELSE output_fields)

\* libnf_mem_init_list is the other kind of memory.
InitMemory ==
    /\ pc = "accepted"
    /\ columns' = CASE working_mode = "aggr" -> HtColumns
                    [] working_mode = "sort" -> all
                    [] OTHER -> <<>>
    /\ pc' = "running"
    /\ UNCHANGED <<argv, opts, pos, argsVars, fieldsVars>>

----------------------------------------------------------------------------

\* Parsing is over; not a step of the program.
Stopped == pc \in {"help", "rejected", "running", "assertion"} /\ UNCHANGED vars

Next ==
    \/ NextOption \/ ChooseMode
    \/ AddAggrKey \/ AggrKeysDone \/ InvalidDirection \/ SetSortKey
    \/ CheckArguments \/ SetMode \/ AddOutputField \/ SetOutputDefaults \/ DecideTput
    \/ InitMemory \/ Stopped

Spec == Init /\ [][Next]_vars

----------------------------------------------------------------------------
(* Properties                                                              *)

\* Every variable holds a value of its type; in particular no array of struct
\* fields is ever written behind its end.
TypeOK ==
    /\ pc \in {"getopt", "help", "aggr", "sort", "limit", "mode", "output", "tput",
              "accepted", "running", "rejected"}
    /\ working_mode \in {"unset", "list", "sort", "aggr", "meta"}
    /\ use_tput \in BOOLEAN
    /\ rec_limit \in Nat \cup {None}
    /\ all \in Seq(Ids) /\ Len(all) <= ALL_FIELDS_MAX
    /\ aggr_keys \in Seq(Ids) /\ Len(aggr_keys) <= AGGR_KEYS_MAX
    /\ sort_key \in Ids \cup {None}
    /\ output_fields \in Seq(Ids) /\ Len(output_fields) <= OUTPUT_FIELDS_MAX
    /\ all_sizes_sum \in Nat

\* The assertion on fields_check at the end of arg_parse, at every moment: also
\* between two options, and when a command line is refused half way.
FieldsConsistent == FieldsCheck

Requested ==
    (IF opts.aggr # None THEN ToSet(opts.aggr) ELSE {})
    \cup (IF opts.sort # None /\ opts.sort.dir # "invalid" THEN {opts.sort.token} ELSE {})
    \cup ToSet(OutputTokens)

\* An accepted command line has all its fields in the structure and no others,
\* as the keys they were asked to be; only fields asked for twice are merged.
NothingLost ==
    pc = "accepted" =>
        /\ ToSet(all) = Requested
        /\ opts.aggr # None => ToSet(aggr_keys) = ToSet(opts.aggr)
        /\ opts.sort # None /\ opts.sort.dir # "invalid" => sort_key = opts.sort.token

\* A libnf memory has exactly one column for each field of the query, also with
\* fast aggregation and when the sort key is an aggregation key; and as raw
\* records go from hash tables to lists and back (tput_phase_3 of the slave),
\* both kinds of memory have their columns in the same order, as far as this
\* is not left to fast aggregation.
ColumnsExact ==
    pc = "running" /\ working_mode \in {"aggr", "sort"} =>
        /\ ToSet(columns) = ToSet(all)
        /\ Len(columns) = Len(all)
        /\ columns = all \/ CanUseFastAggr

\* Only metadata is read exactly when neither records nor the summary of
\* processed records is printed.  The mode is chosen before the output defaults
\* are known: a format whose defaults printed neither would still have all the
\* records read and sent.
MetaMeansNothingElse ==
    pc \in {"accepted", "running"} =>
        (working_mode = "meta" <=>
            \A i \in {"records", "processed_summ"} : output_params.items[i] # "yes")

\* "Default record limit is 10 and may by changed by an explicit -l option" (the
\* manual, of --statistic): an explicit limit holds wherever it stands, the default
\* belongs to statistics without one, and nothing else is limited.
LimitAsDocumented ==
    pc \in {"accepted", "running"} =>
        LET At(opt) == {i \in DOMAIN argv.options : argv.options[i][1] = opt} IN
        rec_limit = IF At("limit") # {} THEN argv.options[Max(At("limit"))][2]
                    ELSE IF At("stat") # {} THEN DefaultStatLimit ELSE 0

\* The command lines for which this is true: none has a --statistic behind a
\* --limit.
StatisticsFirst ==
    \A c \in CommandLines : \A i, j \in DOMAIN c.options :
        c.options[i][1] = "limit" /\ c.options[j][1] = "stat" => j < i

\* libnf_mem_init_list asserts that there is a sort key whenever records are
\* to be sorted.
SortModeHasKey ==
    pc = "running" /\ working_mode = "sort" => sort_key # None

============================================================================
