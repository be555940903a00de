------------------------------- MODULE Output -------------------------------
(***************************************************************************)
(* What is printed for a command line: records, with a header, and the two *)
(* summaries (output.c), in the order in which the master calls for them.  *)
(* Extends the command line, because columns, names, conversions, limit    *)
(* and items all come from there.                                          *)
(*                                                                         *)
(* A string is represented by its length, a line by its cells.  The        *)
(* records to print are chosen from Tables.                                *)
(***************************************************************************)
EXTENDS Fields, Integers

CONSTANTS
    Tables,         \* possible results: sequences of records
    SpecialToStr,   \* field_to_str_func_table
    Type,           \* field_get_type, named like the function it selects
    NameLen,        \* strlen(field_get_name)
    FuncLen,        \* strlen(libnf_aggr_func_to_str), or of "calc"
    DefaultDir,     \* the default sort direction of a field
    ProtoNameLen,   \* ip_proto_str_table, the entries that are not NULL
    PROTECTIVE_PADDING

ToStrFuncs == {"timestamp", "volume", "double_volume", "tcp_flags", "ip_proto", "duration",
               "addr", "mac", "uint8", "uint16", "uint32", "uint64", "double", "string",
               "brec"}

(***************************************************************************)
(* A value as lnf_rec_fget returns it.  A number is itself, a string its   *)
(* length; of an address the lengths of both forms, of a basic record the  *)
(* values of its fields.                                                   *)
(***************************************************************************)
ASSUME OutputAssumption ==
    /\ SpecialToStr \in [DOMAIN SpecialToStr -> ToStrFuncs]
    /\ Type \in [Ids -> ToStrFuncs]
    /\ NameLen \in [Ids -> Nat \ {0}]
    /\ FuncLen \in [Ids -> Nat]
    /\ DefaultDir \in [Sortable -> {"asc", "desc"}]
    /\ ProtoNameLen \in [DOMAIN ProtoNameLen -> Nat]
    /\ PROTECTIVE_PADDING \in Nat
    /\ \A t \in Tables : Len(t) \in Nat /\ DOMAIN t = 1..Len(t)
    /\ \A t \in Tables : \A i \in DOMAIN t :
           DOMAIN t[i] = Ids /\ \A id \in Ids : t[i][id].ret \in {"OK", "NAN", "NOTSET"}

VARIABLES
    opc,            \* what is printed next
    table, row,     \* the records of the result, and how many are printed
    column_width, first_item,   \* o_ctx
    lines           \* what has been printed

printVars == <<table, row, column_width, first_item, lines>>
outputVars == <<vars, opc, printVars>>

format == output_params.format

----------------------------------------------------------------------------
(* Conversion to strings.                                                  *)

\* A volume up to MaxVolume is divided at most twice; the bound on the loop in
\* the code is the length of the unit tables, which no uint64_t reaches.
MaxVolume == 1000000000
MaxUnits == 2

Power10 == <<10, 100, 1000, 10000, 100000, 1000000, 10000000, 100000000, 1000000000>>

\* Of a number up to DOUBLE_PRINT_MAX, the greatest of ten digits; longer integers
\* only occur in columns of twenty characters.
Digits(n) == 1 + Cardinality({d \in DOMAIN Power10 : n >= Power10[d]})

\* get_field_to_str_callback
ToStr(id) == IF id \in DOMAIN SpecialToStr THEN SpecialToStr[id] ELSE Type[id]

Raw(conv) == output_params.conv[conv] = "none"
Binary == output_params.conv["volume"] = "binary"

\* The powers of METRIC_PREFIX_THRESHOLD or BINARY_PREFIX_THRESHOLD
Scale == IF Binary THEN <<1024, 1048576>> ELSE <<1000, 1000000>>

\* How often a volume is divided, and the number left, rounded to tenths.
Units(v) == Cardinality({k \in 1..MaxUnits : v > Scale[k]})
Tenths(v) == LET u == IF Units(v) = 0 THEN 1 ELSE Scale[Units(v)] IN
             10 * (v \div u) + (20 * (v % u) + u) \div (2 * u)

\* "%.1f %s" with an entry of decimal_unit_table or binary_unit_table.
PrefixedLen(v) == Digits(Tenths(v) \div 10) + 3 + (IF Binary THEN 2 ELSE 1)

\* The room for the number one tenth below the threshold.
PrefixedWidth == IF Binary THEN 9 ELSE 7

\* Of every kind of value the length of its text and the width that
\* get_column_width_estimate reserves: most columns hold any value of their
\* type, those of addresses, protocol names, durations and strings the usual
\* ones.
TimestampLen(v) == IF Raw("ts") THEN Digits(v) ELSE 23
TimestampWidth == IF Raw("ts") THEN 20 ELSE 23

VolumeLen(v) == IF Raw("volume") THEN Digits(v) ELSE PrefixedLen(v)
VolumeWidth == IF Raw("volume") THEN 20 ELSE PrefixedWidth

DoubleVolumeLen(v) == IF Raw("volume") THEN Digits(v) + 2 ELSE PrefixedLen(v)
DoubleVolumeWidth == IF Raw("volume") THEN 12 ELSE PrefixedWidth

TcpFlagsLen(v) == IF Raw("tcp_flags") THEN Digits(v) ELSE 8
TcpFlagsWidth == IF Raw("tcp_flags") THEN 3 ELSE 8

\* Protocols without a name are "Unassigned".
IpProtoLen(v) == IF Raw("ip_proto") THEN Digits(v)
                 ELSE IF v \in DOMAIN ProtoNameLen THEN ProtoNameLen[v] ELSE 10
IpProtoWidth == IF Raw("ip_proto") THEN 3 ELSE 9

\* Milliseconds as at least two digits of hours and 10 more characters.
DurationLen(v) == IF Raw("duration") THEN Digits(v)
                  ELSE Max({2, Digits(v \div 3600000)}) + 10
DurationWidth == IF Raw("duration") THEN 20 ELSE 12

AddrLen(v) == IF Raw("ip_addr") THEN v.numbers ELSE v.text
AddrWidth == IF Raw("ip_addr") THEN 43 ELSE 15

\* The length of the text of a value, by the function that makes it.
TextLen(func, v) ==
    CASE func = "timestamp" -> TimestampLen(v)
      [] func = "volume" -> VolumeLen(v)
      [] func = "double_volume" -> DoubleVolumeLen(v)
      [] func = "tcp_flags" -> TcpFlagsLen(v)
      [] func = "ip_proto" -> IpProtoLen(v)
      [] func = "duration" -> DurationLen(v)
      [] func = "addr" -> AddrLen(v)
      [] func = "mac" -> 17
      [] func = "string" -> v
      [] func = "double" -> Digits(v) + 2
      [] OTHER -> Digits(v)

\* The parts of a basic record and the widths they are padded to.
BrecParts == <<<<"timestamp", 27>>, <<"timestamp", 27>>, <<"ip_proto", 6>>,
               <<"addr", 17>>, <<"uint16", 7>>, <<"addr", 17>>, <<"uint16", 7>>,
               <<"volume", 13>>, <<"volume", 13>>, <<"volume", 13>>>>

\* libnf_brec_to_str in the pretty format, with a colon behind each address; the
\* length of a line of CSV does not matter.
BrecLen(v) ==
    LET lens == [k \in DOMAIN BrecParts |-> Max({BrecParts[k][2], TextLen(BrecParts[k][1], v[k])})] IN
    2 + MapThenSumSet(LAMBDA k : lens[k], DOMAIN BrecParts)

StrLen(func, v) == IF func = "brec" THEN BrecLen(v) ELSE TextLen(func, v)

\* The values are of the type of their fields.
IsPlain(func, v) ==
    CASE func = "addr" -> v.text \in Nat /\ v.numbers \in Nat
      [] func \in {"uint8", "tcp_flags", "ip_proto"} -> v \in Nat /\ v <= 255
      [] func = "uint16" -> v \in Nat /\ v <= 65535
      [] func \in {"volume", "double_volume"} -> v \in Nat /\ v <= MaxVolume
      [] OTHER -> v \in Nat

ASSUME ValuesAssumption ==
    \A t \in Tables : \A i \in DOMAIN t : \A id \in Ids :
        IF ToStr(id) = "brec"
        THEN \A k \in DOMAIN BrecParts : IsPlain(BrecParts[k][1], t[i][id].val[k])
        ELSE IsPlain(ToStr(id), t[i][id].val)

\* get_column_width_estimate; the parts of an empty basic record fit into their
\* widths.
WidthEstimate(func) ==
    LET widths == [k \in DOMAIN BrecParts |-> BrecParts[k][2]] IN
    CASE func = "timestamp" -> TimestampWidth
      [] func = "volume" -> VolumeWidth
      [] func = "double_volume" -> DoubleVolumeWidth
      [] func = "tcp_flags" -> TcpFlagsWidth
      [] func = "ip_proto" -> IpProtoWidth
      [] func = "duration" -> DurationWidth
      [] func = "addr" -> AddrWidth
      [] func = "mac" -> 17
      [] func \in {"uint8", "uint16", "uint32", "uint64"} ->
            [uint8 |-> 3, uint16 |-> 5, uint32 |-> 10, uint64 |-> 20][func]
      [] func = "double" -> 12
      [] func = "string" -> 10
      [] func = "brec" -> 2 + MapThenSumSet(LAMBDA k : widths[k], DOMAIN BrecParts)

\* get_column_alignment
RightAligned(func) ==
    func \in {"volume", "double_volume", "uint8", "uint16", "uint32", "uint64", "double"}

----------------------------------------------------------------------------
(* Cells and lines.                                                        *)

\* print_field: the characters printed, and whether some of the string are not.
\* A string too long for its column is cut; with --output-no-ellipsize it is
\* printed as it is and followed by one space.
PrintField(len, width, right, last) ==
    LET remainder == width - len
        left == IF right /\ remainder > 0 THEN remainder ELSE 0
        padding == IF remainder < 0 THEN 1
                   ELSE (IF right THEN 0 ELSE remainder) + PROTECTIVE_PADDING IN
    IF format = "csv"
    THEN [width |-> len + (IF last THEN 0 ELSE 1), cut |-> FALSE]
    ELSE IF remainder < 0 /\ output_params.ellipsize
    THEN [width |-> width + (IF last THEN 0 ELSE PROTECTIVE_PADDING), cut |-> TRUE]
    ELSE [width |-> left + len + (IF last THEN 0 ELSE padding), cut |-> FALSE]

\* A line of strings: texts[i] has the length of the string of column i, and
\* what it stands for.
Line(kind, texts, widths) ==
    [kind |-> kind,
     cells |-> [i \in DOMAIN texts |->
                   [of |-> texts[i].of,
                    print |-> PrintField(texts[i].len, widths[i],
                                         RightAligned(ToStr(all[i])), i = Len(texts))]]]

Blank == [kind |-> "blank", cells |-> <<>>]

\* What an item prints behind what is there already.
Item(new) == lines' = lines \o (IF first_item THEN <<>> ELSE <<Blank>>) \o new

----------------------------------------------------------------------------
(* The header.                                                             *)

Heading(id, note, len) == [of |-> [id |-> id, note |-> note], len |-> NameLen[id] + len]

\* libnf_sort_dir_to_str of the direction of the sort key.
DirLen == LET dir == IF opts.sort.dir = "default" THEN DefaultDir[sort_key] ELSE opts.sort.dir IN
          IF dir = "asc" THEN 3 ELSE 4

\* print_names_only
NamesOnly == [i \in DOMAIN all |-> Heading(all[i], "plain", 0)]

SortHeading == <<Heading(sort_key, "dir", 3 + DirLen)>>

\* Mistake: the sort key is named first.
NamesEnrichedAggrSwapped ==
    (IF sort_key = None \/ sort_key \in ToSet(aggr_keys) THEN <<>> ELSE SortHeading)
    \o [i \in DOMAIN aggr_keys |-> Heading(aggr_keys[i], "key", 6)]
    \o [i \in DOMAIN output_fields |->
           Heading(output_fields[i], "func", 3 + FuncLen[output_fields[i]])]

\* print_names_enriched_aggr: keys, the sort key unless it is one of them, and
\* output fields with their aggregation function.
NamesEnrichedAggr ==
    [i \in DOMAIN aggr_keys |->
        IF aggr_keys[i] = sort_key THEN Heading(aggr_keys[i], "key_dir", 8 + DirLen)
        ELSE Heading(aggr_keys[i], "key", 6)]
    \o (IF sort_key = None \/ sort_key \in ToSet(aggr_keys) THEN <<>> ELSE SortHeading)
    \o [i \in DOMAIN output_fields |->
           Heading(output_fields[i], "func", 3 + FuncLen[output_fields[i]])]

\* print_names_enriched_sort
NamesEnrichedSort ==
    SortHeading \o [i \in DOMAIN output_fields |-> Heading(output_fields[i], "plain", 0)]

BatchNames ==
    IF output_params.rich_header /\ aggr_keys # <<>> THEN NamesEnrichedAggr
    ELSE IF output_params.rich_header /\ sort_key # None THEN NamesEnrichedSort
    ELSE NamesOnly

\* Mistake: names do not widen their columns.
WidenedNot(widths, names) == widths

\* MAX_ASSIGN of every column in turn, each before its name is printed.
Widened(widths, names) ==
    [i \in DOMAIN widths |-> Max({widths[i], names[i].len})]

----------------------------------------------------------------------------
(* The records.                                                            *)

\* get_field_str
FieldStr(record, id) ==
    [of |-> id,
     len |-> CASE record[id].ret = "NAN" -> 3
               [] record[id].ret = "NOTSET" -> 6
               [] OTHER -> StrLen(ToStr(id), record[id].val)]

\* field_offset
Offset(i) == SizeOf(all, i - 1)

\* A record of the listing path: the slave writes the fields one behind the
\* other and print_stream_next reads them by their offsets.  A value that is
\* not set arrives as some bytes of the field's type.
StreamStr(record, i) ==
    LET k == CHOOSE k \in DOMAIN all : Offset(k) = Offset(i) IN
    [of |-> all[k], len |-> StrLen(ToStr(all[i]), record[all[k]].val)]

\* How many records print_batch prints.
BatchLimit == IF rec_limit = 0 THEN Len(table) ELSE Min({rec_limit, Len(table)})

\* set_column_widths_exactly
ExactWidths(widths) ==
    [i \in DOMAIN widths |->
        Max({widths[i]} \cup {FieldStr(table[r], all[i]).len : r \in 1..BatchLimit})]

----------------------------------------------------------------------------
(* The steps of the master.                                                *)

PrintInit ==
    /\ Init
    /\ opc = "off"
    /\ table = <<>>
    /\ row = 0
    /\ column_width = <<>>
    /\ first_item = FALSE
    /\ lines = <<>>

Parse == Next /\ UNCHANGED <<opc, printVars>>

\* output_init; libnf_mem_init_list has asserted that there is a sort key.
OutputInit ==
    /\ pc = "running"
    /\ opc = "off"
    /\ working_mode = "sort" => sort_key # None
    /\ table' \in (IF working_mode = "meta" THEN {<<>>} ELSE Tables)
    /\ column_width' = [i \in DOMAIN all |-> WidthEstimate(ToStr(all[i]))]
    /\ first_item' = TRUE
    /\ opc' = IF working_mode = "meta" THEN "processed" ELSE "names"
    /\ UNCHANGED <<vars, row, lines>>

\* An item that is not to be printed returns at once.
Skip(item, next) ==
    /\ output_params.items[item] # "yes"
    /\ opc' = next
    /\ UNCHANGED printVars

\* print_stream_names
PrintStreamNames ==
    /\ opc = "names"
    /\ working_mode = "list"
    /\ \/ Skip("records", "rows")
       \/ /\ output_params.items["records"] = "yes"
          /\ column_width' = Widened(column_width, NamesOnly)
          /\ Item(<<Line("header", NamesOnly, column_width')>>)
          /\ first_item' = FALSE
          /\ opc' = "rows"
          /\ UNCHANGED <<table, row>>
    /\ UNCHANGED vars

\* Mistake: widths are looked for behind the header.
PrintBatchNamesFirst ==
    /\ opc = "names"
    /\ working_mode \in {"sort", "aggr"}
    /\ \/ Skip("records", "processed")
       \/ /\ output_params.items["records"] = "yes"
          /\ Item(<<Line("header", BatchNames, Widened(column_width, BatchNames))>>)
          /\ column_width' = LET w == Widened(column_width, BatchNames) IN
                             IF output_params.ellipsize THEN w ELSE ExactWidths(w)
          /\ first_item' = FALSE
          /\ opc' = "rows"
          /\ UNCHANGED <<table, row>>
    /\ UNCHANGED vars

\* print_batch up to the header
PrintBatchNames ==
    /\ opc = "names"
    /\ working_mode \in {"sort", "aggr"}
    /\ \/ Skip("records", "processed")
       \/ /\ output_params.items["records"] = "yes"
          /\ column_width' =
                Widened(IF output_params.ellipsize THEN column_width
                        ELSE ExactWidths(column_width), BatchNames)
          /\ Item(<<Line("header", BatchNames, column_width')>>)
          /\ first_item' = FALSE
          /\ opc' = "rows"
          /\ UNCHANGED <<table, row>>
    /\ UNCHANGED vars

\* print_stream_next, called for each record that arrives, and the loop of
\* print_batch, up to the limit.
PrintRow ==
    LET rows == IF working_mode = "list" THEN Len(table) ELSE BatchLimit
        texts == [i \in DOMAIN all |->
                     IF working_mode = "list" THEN StreamStr(table[row + 1], i)
                     ELSE FieldStr(table[row + 1], all[i])] IN
    /\ opc = "rows"
    /\ \/ /\ row < rows
          /\ row' = row + 1
          /\ lines' = IF output_params.items["records"] = "yes"
                      THEN Append(lines, Line("row", texts, column_width)) ELSE lines
          /\ opc' = opc
       \/ row = rows /\ opc' = "processed" /\ UNCHANGED <<row, lines>>
    /\ UNCHANGED <<vars, table, column_width, first_item>>

PrintProcessedSumm ==
    /\ opc = "processed"
    /\ \/ Skip("processed_summ", "metadata")
       \/ /\ output_params.items["processed_summ"] = "yes"
          /\ Item(<<[kind |-> "processed", cells |-> <<>>]>>)
          /\ first_item' = FALSE
          /\ opc' = "metadata"
          /\ UNCHANGED <<table, row, column_width>>
    /\ UNCHANGED vars

PrintMetadataSumm ==
    /\ opc = "metadata"
    /\ \/ Skip("metadata_summ", "done")
       \/ /\ output_params.items["metadata_summ"] = "yes"
          /\ Item(<<[kind |-> "metadata", cells |-> <<>>]>>)
          /\ first_item' = FALSE
          /\ opc' = "done"
          /\ UNCHANGED <<table, row, column_width>>
    /\ UNCHANGED vars

PrintNext ==
    \/ Parse \/ OutputInit \/ PrintStreamNames \/ PrintBatchNames \/ PrintRow
    \/ PrintProcessedSumm \/ PrintMetadataSumm

PrintSpec == PrintInit /\ [][PrintNext]_outputVars

----------------------------------------------------------------------------
(* Properties                                                              *)

Grid == {l \in DOMAIN lines : lines[l].kind \in {"header", "row"}}

\* In the pretty format a column begins at the same place in every line, the
\* header and all records: the widths are settled before the header is
\* printed, also when the records are looked through for them, and a string
\* that is cut fills its column.  Only a listing without ellipsis, whose
\* records are not known beforehand, may get crooked.
ColumnsStraight ==
    format = "pretty" /\ (working_mode # "list" \/ output_params.ellipsize) =>
        \A k, l \in Grid : \A i \in 1..(Len(all) - 1) :
            lines[k].cells[i].print.width = lines[l].cells[i].print.width

\* The header has a name for every column and it is the name of the field that
\* the records have there, from the command line to the output; a rich header
\* also tells of every column what the field is used for.
ColumnsNamed ==
    \A k, l \in Grid :
        lines[k].kind = "header" =>
            LET names == lines[k].cells IN
            /\ Len(names) = Len(all)
            /\ lines[l].kind = "row" =>
                  \A i \in DOMAIN all : lines[l].cells[i].of = names[i].of.id
            /\ output_params.rich_header /\ working_mode = "aggr" =>
                  \A i \in DOMAIN names : LET n == names[i].of IN
                     /\ n.note \in {"key", "key_dir"} <=> n.id \in ToSet(aggr_keys)
                     /\ n.note \in {"dir", "key_dir"} <=> n.id = sort_key
                     /\ n.note = "func" <=> n.id \in ToSet(output_fields)

\* Items are separated by exactly one empty line, and nothing begins or ends
\* with one, whichever items are chosen and in whichever mode.
ItemsSeparated ==
    LET Begins(l) == lines[l].kind \in {"header", "processed", "metadata"} IN
    \A l \in DOMAIN lines :
        /\ l > 1 => (Begins(l) <=> lines[l - 1].kind = "blank")
        /\ lines[l].kind = "blank" => l \in 2..(Len(lines) - 1)

\* The output is regular, for a reader as well as for a program that reads it:
\* straight columns, and items set apart.
LayoutRegular == ColumnsStraight /\ ItemsSeparated

\* A value is meant to be cut in a column that is not made for all values of its
\* type (addresses, protocol names, durations, strings, basic records).  Beyond
\* that there is no room for a volume that is rounded to 1000.0 of its unit, and
\* none for the word that stands for an absent value where all values are short.
MayBeCut(record, id) ==
    \/ ToStr(id) \in {"addr", "ip_proto", "duration", "string", "brec"}
    \/ /\ ToStr(id) \in {"volume", "double_volume"}
       /\ output_params.conv["volume"] = "readable"
       /\ Tenths(record[id].val) = 10000
    \/ ToStr(id) \in {"uint8", "uint16", "tcp_flags"} /\ record[id].ret = "NOTSET"

\* Nothing else is lost by the layout: no name of a column is cut, and no value
\* that its column should have room for.
CutOnlyWhereMeant ==
    \A l \in Grid : \A i \in DOMAIN lines[l].cells :
        lines[l].cells[i].print.cut =>
            lines[l].kind = "row" /\ MayBeCut(table[l - 1], all[i])

============================================================================
