--------------------------- MODULE Output_proofs ---------------------------
(***************************************************************************)
(* Proofs about Fields and Output.  At every moment of arg_parse the       *)
(* structure of fields is consistent and within its arrays, an accepted    *)
(* command line means what its options say, and for every command line and *)
(* every result columns are straight, items are set apart, and the header  *)
(* names the columns.                                                      *)
(*                                                                         *)
(* The inductive invariant FieldsInv says of every stage of arg_parse what *)
(* is there already: the array of all fields is the aggregation keys, the  *)
(* sort key unless it is one of them, and the output fields, one behind    *)
(* the other and without repetition; each part holds the tokens taken so   *)
(* far; mode and limit follow the options looked at so far.                *)
(*                                                                         *)
(* Printing only reads what arg_parse has made, so FieldsInv holds there,  *)
(* too.  OutputInv adds what the lines depend on: the widths that are      *)
(* settled before the header is printed, and that every line printed so    *)
(* far fills them.                                                         *)
(***************************************************************************)
EXTENDS Output, SumTheorems, SequenceTheorems

(***************************************************************************)
(* Fields                                                                  *)
(***************************************************************************)

----------------------------------------------------------------------------
(* Sequences and the sets of their elements.                               *)

\* An appended element is one more element.
LEMMA ToSetAppend ==
    ASSUME NEW S, NEW s \in Seq(S), NEW e \in S
    PROVE  ToSet(Append(s, e)) = ToSet(s) \cup {e}
<1>1. /\ DOMAIN s = 1..Len(s) /\ Len(s) \in Nat
      /\ DOMAIN Append(s, e) = 1..(Len(s) + 1)
      /\ \A i \in 1..Len(s) : Append(s, e)[i] = s[i]
      /\ Append(s, e)[Len(s) + 1] = e
  BY AppendProperties, LenProperties
<1>2. ASSUME NEW x PROVE x \in ToSet(Append(s, e)) <=> x \in ToSet(s) \cup {e}
  <2>1. CASE x \in ToSet(Append(s, e))
    <3>1. PICK i \in 1..(Len(s) + 1) : x = Append(s, e)[i]
      BY <1>1, <2>1 DEF ToSet
    <3> QED
      BY <1>1, <3>1 DEF ToSet
  <2>2. CASE x \in ToSet(s)
    <3>1. PICK i \in 1..Len(s) : x = s[i]
      BY <1>1, <2>2 DEF ToSet
    <3>2. i \in 1..(Len(s) + 1)
      BY <1>1
    <3> QED
      BY <1>1, <3>1, <3>2 DEF ToSet
  <2>3. CASE x = e
    <3>1. Len(s) + 1 \in 1..(Len(s) + 1)
      BY <1>1
    <3> QED
      BY <1>1, <2>3, <3>1 DEF ToSet
  <2> QED
    BY <2>1, <2>2, <2>3
<1> QED
  BY <1>2

\* The elements of two sequences are those of both.
LEMMA ToSetConcat ==
    ASSUME NEW S, NEW s \in Seq(S), NEW t \in Seq(S)
    PROVE  ToSet(s \o t) = ToSet(s) \cup ToSet(t)
<1>1. /\ DOMAIN s = 1..Len(s) /\ Len(s) \in Nat
      /\ DOMAIN t = 1..Len(t) /\ Len(t) \in Nat
      /\ s \o t \in Seq(S)
      /\ DOMAIN (s \o t) = 1..(Len(s) + Len(t))
      /\ \A i \in 1..(Len(s) + Len(t)) :
            (s \o t)[i] = IF i <= Len(s) THEN s[i] ELSE t[i - Len(s)]
  BY ConcatProperties, LenProperties
<1>2. ASSUME NEW x PROVE x \in ToSet(s \o t) <=> x \in ToSet(s) \cup ToSet(t)
  <2>1. CASE x \in ToSet(s \o t)
    <3>1. PICK i \in 1..(Len(s) + Len(t)) : x = (s \o t)[i]
      BY <1>1, <2>1 DEF ToSet
    <3>2. CASE i <= Len(s)
      BY <1>1, <3>1, <3>2 DEF ToSet
    <3>3. CASE ~(i <= Len(s))
      <4>1. i - Len(s) \in 1..Len(t)
        BY <1>1, <3>3
      <4> QED
        BY <1>1, <3>1, <3>3, <4>1 DEF ToSet
    <3> QED
      BY <3>2, <3>3
  <2>2. CASE x \in ToSet(s)
    <3>1. PICK i \in 1..Len(s) : x = s[i]
      BY <1>1, <2>2 DEF ToSet
    <3>2. i \in 1..(Len(s) + Len(t)) /\ i <= Len(s)
      BY <1>1
    <3> QED
      BY <1>1, <3>1, <3>2 DEF ToSet
  <2>3. CASE x \in ToSet(t)
    <3>1. PICK i \in 1..Len(t) : x = t[i]
      BY <1>1, <2>3 DEF ToSet
    <3>2. PICK k : k = i + Len(s)
      OBVIOUS
    <3>3. k \in 1..(Len(s) + Len(t)) /\ ~(k <= Len(s)) /\ k - Len(s) = i
      BY <1>1, <3>2
    <3> QED
      BY <1>1, <3>1, <3>3 DEF ToSet
  <2> QED
    BY <2>1, <2>2, <2>3
<1> QED
  BY <1>2

\* No element occurs twice.
Distinct(s) == \A i, j \in DOMAIN s : s[i] = s[j] => i = j

\* A new element keeps the elements distinct.
LEMMA DistinctAppend ==
    ASSUME NEW S, NEW s \in Seq(S), NEW e \in S, Distinct(s), e \notin ToSet(s)
    PROVE  Distinct(Append(s, e))
<1>1. /\ DOMAIN s = 1..Len(s) /\ Len(s) \in Nat
      /\ DOMAIN Append(s, e) = 1..(Len(s) + 1)
      /\ \A i \in 1..Len(s) : Append(s, e)[i] = s[i]
      /\ Append(s, e)[Len(s) + 1] = e
  BY AppendProperties, LenProperties
<1>2. \A i \in 1..Len(s) : s[i] # e
  BY <1>1 DEF ToSet
<1> QED
  BY <1>1, <1>2 DEF Distinct

----------------------------------------------------------------------------
(* The inductive invariant.  Stages of arg_parse, in their order:          *)

Known == {"tput", "accepted", "running"}
WithOutput == {"output"} \cup Known
WithSort == {"limit", "mode"} \cup WithOutput
WithKeys == {"sort"} \cup WithSort
WithMode == {"aggr"} \cup WithKeys

Stages == {"getopt", "help", "rejected"} \cup WithMode

OptsType == [aggr: Seq(Token) \cup {None}, sort: SortSpec \cup {None},
             limit: Nat \cup {BadToken, None}, filter: {"good", BadToken, None},
             time_point: {"good", BadToken, None}, time_range: {"good", BadToken, None},
             output: Seq(Token) \cup {None}]

ParamsType == [items: [Items -> {"unset", "yes", "no"}],
               format: {"unset", "pretty", "csv"},
               ellipsize: BOOLEAN, rich_header: BOOLEAN,
               conv: [Convs -> {"unset", "none", "readable", "binary"}]]

\* Everything has its type.
TypeInv ==
    /\ argv \in [options: Seq(Option), path: BOOLEAN]
    /\ opts \in OptsType
    /\ pc \in Stages
    /\ pos \in Nat
    /\ working_mode \in {"unset", "list", "sort", "aggr", "meta"}
    /\ use_tput \in BOOLEAN
    /\ rec_limit \in Nat \cup {None}
    /\ output_params \in ParamsType
    /\ all \in Seq(Ids)
    /\ aggr_keys \in Seq(Ids) /\ Len(aggr_keys) <= AGGR_KEYS_MAX
    /\ sort_key \in Ids \cup {None}
    /\ output_fields \in Seq(Ids) /\ Len(output_fields) <= OUTPUT_FIELDS_MAX

\* The sort key where it has a column of its own.
SortPart(keys, key) == IF key # None /\ key \notin ToSet(keys) THEN <<key>> ELSE <<>>

\* The array of all fields is its parts, one behind the other, and no field is
\* there twice.
ShapeInv ==
    /\ all = (aggr_keys \o SortPart(aggr_keys, sort_key)) \o output_fields
    /\ Distinct(all)
    /\ all_sizes_sum = SizeOf(all, Len(all))

\* Each part is filled in its own stage.
StageInv ==
    /\ pc \in {"getopt", "help"} => aggr_keys = <<>>
    /\ pc \in {"getopt", "help", "aggr", "sort"} => sort_key = None
    /\ pc \notin WithOutput \cup {"rejected"} => output_fields = <<>>

\* The first n elements of a sequence.
Taken(s, n) == {s[i] : i \in 1..n}

\* Of each part, the fields are the tokens taken so far.
TokensInv ==
    /\ pc = "aggr" => /\ opts.aggr # None /\ pos <= Len(opts.aggr)
                      /\ ToSet(aggr_keys) = Taken(opts.aggr, pos)
    /\ pc \in WithKeys => IF opts.aggr # None
                          THEN opts.aggr # <<>> /\ ToSet(aggr_keys) = ToSet(opts.aggr)
                          ELSE aggr_keys = <<>>
    /\ pc = "sort" => opts.sort # None
    /\ pc \in WithSort => sort_key = IF opts.sort # None /\ opts.sort.dir # "invalid"
                                     THEN opts.sort.token ELSE None
    /\ pc \in {"sort", "limit", "mode"} => pos = 0
    /\ pc \in WithOutput =>
          /\ pos <= Len(OutputTokens)
          /\ Len(output_fields) <= pos
          /\ ToSet(all) = ToSet(aggr_keys) \cup ({sort_key} \ {None}) \cup Taken(OutputTokens, pos)
    /\ pc \in Known => pos = Len(OutputTokens)

\* The working mode the keys ask for.
ModeOf(o) == IF o.aggr # None THEN "aggr" ELSE IF o.sort # None THEN "sort" ELSE "list"

Read == {"records", "processed_summ"}

\* Mode and items; the user gives all the items at once or none.
ModeInv ==
    /\ pc \in {"aggr", "sort", "limit", "mode"} => working_mode = ModeOf(opts)
    /\ pc \in WithOutput => working_mode \in {ModeOf(opts), "meta"}
    /\ pc \in {"getopt"} \cup (WithMode \ Known) =>
          \/ \A i \in Items : output_params.items[i] = "unset"
          \/ \A i \in Items : output_params.items[i] # "unset"
    /\ pc = "output" =>
          (working_mode = "meta" <=> \A i \in Read : output_params.items[i] = "no")
    /\ pc \in Known =>
          (working_mode = "meta" <=> \A i \in Read : output_params.items[i] # "yes")

LimitOptions(options, n) == {i \in 1..n : options[i][1] \in {"limit", "stat"}}

\* The limit given by the first n options.
LimitOf(options, n, none) ==
    LET last == options[Max(LimitOptions(options, n))] IN
    IF LimitOptions(options, n) = {} THEN none
    ELSE IF last[1] = "limit" THEN last[2] ELSE DefaultStatLimit

LimitInv ==
    /\ pc = "getopt" => /\ pos <= Len(argv.options)
                        /\ opts.limit = LimitOf(argv.options, pos, None)
    /\ pc \in WithMode => opts.limit = LimitOf(argv.options, Len(argv.options), None)
    /\ pc \in {"mode"} \cup WithOutput =>
          rec_limit = IF opts.limit = None THEN 0 ELSE opts.limit

FieldsInv ==
    TypeInv /\ ShapeInv /\ StageInv /\ TokensInv /\ ModeInv /\ LimitInv /\ ColumnsExact

----------------------------------------------------------------------------
(* Options and sizes.                                                      *)

\* The argument of an option is of the kind the option asks for.
LEMMA OptionType ==
    ASSUME NEW o \in Option
    PROVE  /\ o[1] \in {"aggr", "output"} => o[2] \in Seq(Token)
           /\ o[1] = "sort" => o[2] \in SortSpec
           /\ o[1] = "stat" => o[2] \in [aggr: Seq(Token), sort: SortSpec \cup {None}]
           /\ o[1] = "limit" => o[2] \in Nat \cup {BadToken}
           /\ o[1] \in {"filter", "time_point", "time_range"} => o[2] \in {"good", BadToken}
           /\ o[1] = "format" => o[2] \in {"pretty", "csv", BadToken}
           /\ o[1] \in Convs => o[2] \in {"none", "readable", "binary", BadToken}
  BY DEF Option, Convs

\* One more field adds its size.
LEMMA SizeAppend ==
    ASSUME NEW s \in Seq(Ids), NEW e \in Ids
    PROVE  SizeOf(Append(s, e), Len(Append(s, e))) = SizeOf(s, Len(s)) + Size[e]
<1> DEFINE t == Append(s, e)
           f == [i \in DOMAIN s |-> Size[s[i]]]
           g == [i \in DOMAIN t |-> Size[t[i]]]
           n == Len(s)
<1>1. /\ DOMAIN s = 1..n /\ n \in Nat /\ Len(t) = n + 1
      /\ DOMAIN t = 1..(n + 1)
      /\ \A i \in 1..n : t[i] = s[i] /\ s[i] \in Ids
      /\ t[n + 1] = e
  BY AppendProperties, LenProperties, ElementOfSeq
<1>2. /\ \A i \in 1..n : f[i] \in Int /\ g[i] = f[i]
      /\ g[n + 1] = Size[e] /\ g[n + 1] \in Int
  BY <1>1, FieldsAssumption
<1>3. SizeOf(t, Len(t)) = SumOver(g, 1..(n + 1)) /\ SizeOf(s, n) = SumOver(f, 1..n)
  BY <1>1 DEF SizeOf, SumOver
<1>4. IsFiniteSet(1..n) /\ 1..(n + 1) = (1..n) \cup {n + 1} /\ n + 1 \notin 1..n
  <2>1. n \in Int /\ 1 \in Int
    BY <1>1
  <2> HIDE DEF n
  <2>2. IsFiniteSet(1..n)
    BY <2>1, FS_Interval
  <2> QED
    BY <1>1, <2>2
<1> HIDE DEF f, g, t, n
<1>5. SumOver(f, 1..n) = SumOver(g, 1..n)
  BY <1>2, <1>4, SumEqual
<1>6. SumOver(g, (1..n) \cup {n + 1}) = g[n + 1] + SumOver(g, 1..n)
  <2>1. \A y \in (1..n) \cup {n + 1} : g[y] \in Int
    BY <1>2
  <2> QED
    BY <1>4, <2>1, SumExtend
<1>7. SumOver(g, 1..n) \in Int
  <2>1. \A y \in 1..n : g[y] \in Int
    BY <1>2
  <2> QED
    BY <1>4, <2>1, SumType
<1>8. SizeOf(t, Len(t)) = SizeOf(s, n) + Size[e]
  <2>1. SizeOf(t, Len(t)) = g[n + 1] + SumOver(g, 1..n) /\ SizeOf(s, n) = SumOver(g, 1..n)
    BY <1>3, <1>4, <1>5, <1>6
  <2> QED
    BY <1>2, <1>7, <2>1
<1> QED
  BY <1>8 DEF t, n

----------------------------------------------------------------------------
(* Types.                                                                  *)

\* The next option is an option.
LEMMA NextIsOption ==
    ASSUME TypeInv, pc = "getopt", pos < Len(argv.options)
    PROVE  argv.options[pos + 1] \in Option
<1>1. argv.options \in Seq(Option) /\ pos + 1 \in 1..Len(argv.options)
  <2>1. argv.options \in Seq(Option)
    BY DEF TypeInv
  <2>2. Len(argv.options) \in Nat /\ pos \in Nat
    BY <2>1, LenProperties DEF TypeInv
  <2> QED
    BY <2>1, <2>2
<1> QED
  BY <1>1, ElementOfSeq

\* Remembering an option keeps the types of the options.
LEMMA OptionKept ==
    ASSUME NEW o \in Option, NEW r \in OptsType, o[1] \in DOMAIN r
    PROVE  [r EXCEPT ![o[1]] = o[2]] \in OptsType
<1>1. DOMAIN r = {"aggr", "sort", "limit", "filter", "time_point", "time_range", "output"}
  BY DEF OptsType
<1>2. CASE o[1] = "aggr"
  BY <1>1, <1>2, OptionType DEF OptsType
<1>3. CASE o[1] = "sort"
  BY <1>1, <1>3, OptionType DEF OptsType
<1>4. CASE o[1] = "limit"
  BY <1>1, <1>4, OptionType DEF OptsType
<1>5. CASE o[1] = "filter"
  BY <1>1, <1>5, OptionType DEF OptsType
<1>6. CASE o[1] = "time_point"
  BY <1>1, <1>6, OptionType DEF OptsType
<1>7. CASE o[1] = "time_range"
  BY <1>1, <1>7, OptionType DEF OptsType
<1>8. CASE o[1] = "output"
  BY <1>1, <1>8, OptionType DEF OptsType
<1> QED
  BY <1>1, <1>2, <1>3, <1>4, <1>5, <1>6, <1>7, <1>8

\* Every option keeps the types.
LEMMA OptionTypeStep == TypeInv /\ NextOption => TypeInv'
<1> SUFFICES ASSUME TypeInv, NextOption PROVE TypeInv'
  OBVIOUS
<1>1. PICK o : o = argv.options[pos + 1]
  OBVIOUS
<1>2. pc = "getopt" /\ pos < Len(argv.options) /\ o \in Option
  BY <1>1, NextIsOption DEF NextOption
<1>3. CASE pos' # pos + 1
  BY <1>3 DEF NextOption, Reject, argsVars, fieldsVars, TypeInv, Stages
<1>4. CASE pos' = pos + 1
  <2>1. /\ UNCHANGED <<argv, pc, working_mode, rec_limit, fieldsVars, columns>>
        /\ \/ RememberOption(o[1], o[2]) \/ StatOption(o[1], o[2])
           \/ ItemsOption(o[1], o[2]) \/ FormatOption(o[1], o[2]) \/ ConvOption(o[1], o[2])
           \/ LayoutOption(o[1]) \/ CheckedOption(o[1], o[2]) \/ NoTputOption(o[1])
    <3>1. pos' # pos
      BY <1>4 DEF TypeInv
    <3> QED
      BY <1>1, <1>4, <3>1 DEF NextOption, Reject
  <2> SUFFICES opts' \in OptsType /\ use_tput' \in BOOLEAN /\ output_params' \in ParamsType
    BY <1>4, <2>1 DEF TypeInv, fieldsVars
  <2>0. opts \in OptsType /\ use_tput \in BOOLEAN /\ output_params \in ParamsType
    BY DEF TypeInv
  <2>2. CASE RememberOption(o[1], o[2])
    BY <1>2, <2>0, <2>2, OptionKept DEF RememberOption
  <2>3. CASE StatOption(o[1], o[2])
    <3>1. o[2] \in [aggr: Seq(Token), sort: SortSpec \cup {None}]
      BY <1>2, <2>3, OptionType DEF StatOption
    <3> QED
      BY <2>0, <2>3, <3>1, FieldsAssumption DEF StatOption, OptsType
  <2>4. CASE ItemsOption(o[1], o[2])
    BY <2>0, <2>4 DEF ItemsOption, ParamsType
  <2>5. CASE FormatOption(o[1], o[2])
    BY <1>2, <2>0, <2>5, OptionType DEF FormatOption, ParamsType
  <2>6. CASE ConvOption(o[1], o[2])
    <3>1. o[2] \in {"none", "readable", "binary", BadToken}
      BY <1>2, <2>6, OptionType DEF ConvOption
    <3> QED
      BY <2>0, <2>6, <3>1 DEF ConvOption, ParamsType
  <2>7. CASE LayoutOption(o[1])
    BY <2>0, <2>7 DEF LayoutOption, ParamsType
  <2>8. CASE CheckedOption(o[1], o[2])
    BY <2>0, <2>8 DEF CheckedOption
  <2>9. CASE NoTputOption(o[1])
    BY <2>0, <2>9 DEF NoTputOption
  <2> QED
    BY <2>1, <2>2, <2>3, <2>4, <2>5, <2>6, <2>7, <2>8, <2>9
<1> QED
  BY <1>3, <1>4

\* The lengths of the parts add up; the array of all fields has room for them.
LEMMA PartsLength ==
    ASSUME TypeInv, ShapeInv
    PROVE  /\ SortPart(aggr_keys, sort_key) \in Seq(Ids)
           /\ Len(SortPart(aggr_keys, sort_key)) \in 0..1
           /\ Len(all) = Len(aggr_keys) + Len(SortPart(aggr_keys, sort_key)) + Len(output_fields)
           /\ Len(all) \in 0..ALL_FIELDS_MAX
<1>1. /\ SortPart(aggr_keys, sort_key) \in Seq(Ids)
      /\ Len(SortPart(aggr_keys, sort_key)) \in 0..1
  BY DEF SortPart, TypeInv
<1>2. /\ Len(aggr_keys) \in Nat /\ Len(output_fields) \in Nat
      /\ Len(aggr_keys) <= AGGR_KEYS_MAX /\ Len(output_fields) <= OUTPUT_FIELDS_MAX
  BY LenProperties DEF TypeInv
<1>3. Len(all) = Len(aggr_keys) + Len(SortPart(aggr_keys, sort_key)) + Len(output_fields)
  <2>1. /\ aggr_keys \o SortPart(aggr_keys, sort_key) \in Seq(Ids)
        /\ Len(aggr_keys \o SortPart(aggr_keys, sort_key))
              = Len(aggr_keys) + Len(SortPart(aggr_keys, sort_key))
    BY <1>1, ConcatProperties DEF TypeInv
  <2> QED
    BY <2>1, ConcatProperties DEF TypeInv, ShapeInv
<1>4. Len(all) \in 0..ALL_FIELDS_MAX
  <2>1. PICK a, b, c, n : /\ a = Len(aggr_keys) /\ b = Len(SortPart(aggr_keys, sort_key))
                          /\ c = Len(output_fields) /\ n = Len(all)
    OBVIOUS
  <2>2. /\ n = a + b + c /\ a \in Nat /\ b \in 0..1 /\ c \in Nat
        /\ a <= AGGR_KEYS_MAX /\ c <= OUTPUT_FIELDS_MAX
    BY <1>1, <1>2, <1>3, <2>1
  <2>3. n \in 0..(AGGR_KEYS_MAX + OUTPUT_FIELDS_MAX + 1)
    BY <2>2, FieldsAssumption
  <2> QED
    BY <2>1, <2>3 DEF ALL_FIELDS_MAX
<1> QED
  BY <1>1, <1>3, <1>4

\* The tokens of the output fields are tokens, and default ones are fields.
LEMMA OutputTokensType ==
    TypeInv /\ ModeInv /\ pc \in WithOutput =>
        /\ OutputTokens \in Seq(Token)
        /\ opts.output = None =>
              /\ OutputTokens \in Seq(Ids)
              /\ Len(OutputTokens) <= OUTPUT_FIELDS_MAX
<1> SUFFICES ASSUME TypeInv, ModeInv, pc \in WithOutput
             PROVE  /\ OutputTokens \in Seq(Token)
                    /\ opts.output = None =>
                          /\ OutputTokens \in Seq(Ids)
                          /\ Len(OutputTokens) <= OUTPUT_FIELDS_MAX
  OBVIOUS
<1>1. working_mode \in {"list", "sort", "aggr", "meta"}
  BY DEF ModeInv, ModeOf
<1>2. CASE opts.output # None
  BY <1>2 DEF TypeInv, OptsType, OutputTokens
<1>3. CASE opts.output = None
  <2>1. /\ OutputTokens \in Seq(Ids)
        /\ Len(OutputTokens) <= OUTPUT_FIELDS_MAX
    BY <1>1, <1>3, FieldsAssumption DEF OutputTokens
  <2> QED
    BY <1>3, <2>1, SeqMonotonic DEF Token
<1> QED
  BY <1>2, <1>3

\* While another output field is allowed, there is room for it.
LEMMA RoomForOutput ==
    ASSUME TypeInv, ShapeInv, Len(output_fields) # OUTPUT_FIELDS_MAX
    PROVE  ~Full
<1>1. PICK a, b, c, n : /\ a = Len(aggr_keys) /\ b = Len(SortPart(aggr_keys, sort_key))
                        /\ c = Len(output_fields) /\ n = Len(all)
  OBVIOUS
<1>2. n = a + b + c /\ b \in 0..1
  BY <1>1, PartsLength
<1>3. /\ a \in Nat /\ c \in Nat /\ a <= AGGR_KEYS_MAX
      /\ c <= OUTPUT_FIELDS_MAX /\ c # OUTPUT_FIELDS_MAX
  BY <1>1, LenProperties DEF TypeInv
<1>4. n # AGGR_KEYS_MAX + OUTPUT_FIELDS_MAX + 1
  BY <1>2, <1>3, FieldsAssumption
<1> QED
  BY <1>1, <1>4 DEF Full, ALL_FIELDS_MAX

\* The default output fields are never refused: the assertion holds.
LEMMA DefaultsAccepted ==
    ASSUME FieldsInv, AddOutputField
    PROVE  pc' # "assertion"
<1> SUFFICES ASSUME pc' = "assertion" PROVE FALSE
  OBVIOUS
<1>1. PICK id : id = OutputTokens[pos + 1]
  OBVIOUS
<1>2. /\ pc = "output" /\ pos < Len(OutputTokens) /\ opts.output = None
      /\ id = BadToken \/ Len(output_fields) = OUTPUT_FIELDS_MAX \/ Full
  BY <1>1 DEF AddOutputField
<1>3. OutputTokens \in Seq(Ids) /\ Len(OutputTokens) <= OUTPUT_FIELDS_MAX
  BY <1>2, OutputTokensType DEF WithOutput, FieldsInv
<1>4. Len(output_fields) <= pos
  BY <1>2 DEF FieldsInv, TokensInv, WithOutput
<1>5. PICK n, c : n = Len(OutputTokens) /\ c = Len(output_fields)
  OBVIOUS
<1>6. n \in Nat /\ c \in Nat /\ pos \in Nat
  BY <1>3, <1>5, LenProperties DEF FieldsInv, TypeInv
<1>7. c # OUTPUT_FIELDS_MAX /\ pos + 1 \in 1..n
  BY <1>2, <1>3, <1>4, <1>5, <1>6, FieldsAssumption
<1>8. id \in Ids
  BY <1>1, <1>3, <1>5, <1>7, ElementOfSeq
<1> QED
  BY <1>2, <1>5, <1>7, <1>8, RoomForOutput, FieldsAssumption DEF FieldsInv

\* Every step keeps the types.
LEMMA TypeStep == FieldsInv /\ [Next]_vars => TypeInv'
<1> SUFFICES ASSUME FieldsInv, [Next]_vars PROVE TypeInv'
  OBVIOUS
<1>0. TypeInv
  BY DEF FieldsInv
<1>a. ASSUME Reject PROVE TypeInv'
  BY <1>0, <1>a DEF Reject, TypeInv, Stages, argsVars, fieldsVars
<1>1. CASE NextOption
  BY <1>0, <1>1, OptionTypeStep
<1>2. CASE ChooseMode
  BY <1>0, <1>2 DEF ChooseMode, TypeInv, Stages, WithMode, WithKeys, WithSort, fieldsVars
<1>3. CASE AddAggrKey
  <2>1. CASE Reject
    BY <1>a, <2>1
  <2>2. CASE ~Reject
    <3>1. PICK id : id = opts.aggr[pos + 1]
      OBVIOUS
    <3>2. /\ pc = "aggr" /\ pos < Len(opts.aggr) /\ id # BadToken /\ ~KeysFull
          /\ aggr_keys' \in {aggr_keys, Append(aggr_keys, id)}
          /\ all' \in {all, Append(all, id)}
          /\ pos' = pos + 1
          /\ UNCHANGED <<argv, opts, pc, argsVars, sort_key, output_fields, columns>>
      BY <1>3, <2>2, <3>1 DEF AddAggrKey, AddToAll
    <3>3. opts.aggr \in Seq(Token)
      BY <1>0, <3>2 DEF FieldsInv, TokensInv, TypeInv, OptsType
    <3>4. pos + 1 \in 1..Len(opts.aggr)
      BY <1>0, <3>2, <3>3, LenProperties DEF TypeInv
    <3>5. id \in Ids
      BY <3>1, <3>2, <3>3, <3>4, ElementOfSeq DEF Token
    <3>6. all' \in Seq(Ids) /\ aggr_keys' \in Seq(Ids)
      <4>1. all \in Seq(Ids) /\ aggr_keys \in Seq(Ids)
        BY <1>0 DEF TypeInv
      <4>2. Append(all, id) \in Seq(Ids) /\ Append(aggr_keys, id) \in Seq(Ids)
        BY <3>5, <4>1, AppendProperties
      <4> QED
        BY <3>2, <4>1, <4>2
    <3>7. Len(aggr_keys') <= AGGR_KEYS_MAX
      <4>1. Len(aggr_keys) \in Nat /\ Len(aggr_keys) <= AGGR_KEYS_MAX
        BY <1>0, LenProperties DEF TypeInv
      <4>2. Len(aggr_keys') \in {Len(aggr_keys), Len(aggr_keys) + 1}
        BY <1>0, <3>2, <3>5, AppendProperties DEF TypeInv
      <4> QED
        BY <3>2, <4>1, <4>2, FieldsAssumption DEF KeysFull
    <3> QED
      BY <1>0, <3>2, <3>6, <3>7 DEF TypeInv, argsVars
  <2> QED
    BY <2>1, <2>2
<1>4. CASE AggrKeysDone
  BY <1>0, <1>4, <1>a DEF AggrKeysDone, TypeInv, Stages, WithMode, WithKeys, WithSort,
                          argsVars, fieldsVars
<1>5. CASE InvalidDirection
  BY <1>0, <1>5 DEF InvalidDirection, TypeInv, Stages, WithMode, WithKeys, WithSort,
                    argsVars, fieldsVars
<1>6. CASE SetSortKey
  <2>1. CASE Reject
    BY <1>a, <2>1
  <2>2. CASE ~Reject
    <3>1. PICK id : id = opts.sort.token
      OBVIOUS
    <3>2. /\ id \in Ids /\ sort_key' = id /\ all' \in {all, Append(all, id)}
          /\ pc' = "limit"
          /\ UNCHANGED <<argv, opts, pos, argsVars, aggr_keys, output_fields, columns>>
      BY <1>6, <2>2, <3>1, FieldsAssumption DEF SetSortKey, AddToAll
    <3>3. all' \in Seq(Ids)
      <4>1. all \in Seq(Ids)
        BY <1>0 DEF TypeInv
      <4>2. Append(all, id) \in Seq(Ids)
        BY <3>2, <4>1, AppendProperties
      <4> QED
        BY <3>2, <4>1, <4>2
    <3> QED
      BY <1>0, <3>2, <3>3 DEF TypeInv, argsVars, Stages, WithMode, WithKeys, WithSort
  <2> QED
    BY <2>1, <2>2
<1>7. CASE CheckArguments
  <2>1. CASE Reject
    BY <1>a, <2>1
  <2>2. CASE ~Reject
    <3>1. /\ BadToken # opts.limit
          /\ rec_limit' = IF opts.limit = None THEN 0 ELSE opts.limit
          /\ pc' = "mode"
          /\ UNCHANGED <<argv, opts, pos, working_mode, use_tput, output_params, fieldsVars,
                         columns>>
      BY <1>7, <2>2 DEF CheckArguments
    <3>2. rec_limit' \in Nat
      BY <1>0, <3>1 DEF TypeInv, OptsType
    <3> QED
      BY <1>0, <3>1, <3>2 DEF TypeInv, Stages, WithMode, WithKeys, WithSort, fieldsVars
  <2> QED
    BY <2>1, <2>2
<1>8. CASE SetMode
  BY <1>0, <1>8 DEF SetMode, TypeInv, Stages, WithMode, WithKeys, WithSort, WithOutput, fieldsVars
<1>9. CASE AddOutputField
  <2>1. PICK id : id = OutputTokens[pos + 1]
    OBVIOUS
  <2>2. CASE pc' # pc
    <3>1. /\ pc' \in {"rejected", "assertion"}
          /\ UNCHANGED <<argv, opts, pos, argsVars, fieldsVars, columns>>
      BY <1>9, <2>2 DEF AddOutputField
    <3>2. pc' = "rejected"
      BY <1>9, <3>1, DefaultsAccepted
    <3> QED
      BY <1>0, <3>1, <3>2 DEF TypeInv, Stages, argsVars, fieldsVars
  <2>3. CASE pc' = pc
    <3>1. pc = "output"
      BY <1>9 DEF AddOutputField
    <3>2. /\ pos < Len(OutputTokens) /\ id # BadToken
          /\ Len(output_fields) # OUTPUT_FIELDS_MAX
          /\ output_fields' \in {output_fields, Append(output_fields, id)}
          /\ all' \in {all, Append(all, id)}
          /\ pos' = pos + 1
          /\ UNCHANGED <<argv, opts, pc, argsVars, aggr_keys, sort_key, columns>>
      BY <1>9, <2>1, <2>3, <3>1 DEF AddOutputField, AddToAll
    <3>3. OutputTokens \in Seq(Token)
      BY <3>1, OutputTokensType DEF WithOutput, FieldsInv
    <3>4. pos + 1 \in 1..Len(OutputTokens)
      BY <1>0, <3>2, <3>3, LenProperties DEF TypeInv
    <3>5. id \in Ids
      BY <2>1, <3>2, <3>3, <3>4, ElementOfSeq DEF Token
    <3>6. all' \in Seq(Ids) /\ output_fields' \in Seq(Ids)
      <4>1. all \in Seq(Ids) /\ output_fields \in Seq(Ids)
        BY <1>0 DEF TypeInv
      <4>2. Append(all, id) \in Seq(Ids) /\ Append(output_fields, id) \in Seq(Ids)
        BY <3>5, <4>1, AppendProperties
      <4> QED
        BY <3>2, <4>1, <4>2
    <3>7. Len(output_fields') <= OUTPUT_FIELDS_MAX
      <4>1. Len(output_fields) \in Nat /\ Len(output_fields) <= OUTPUT_FIELDS_MAX
        BY <1>0, LenProperties DEF TypeInv
      <4>2. Len(output_fields') \in {Len(output_fields), Len(output_fields) + 1}
        BY <1>0, <3>2, <3>5, AppendProperties DEF TypeInv
      <4> QED
        BY <3>2, <4>1, <4>2, FieldsAssumption
    <3> QED
      BY <1>0, <3>2, <3>6, <3>7 DEF TypeInv, argsVars
  <2> QED
    BY <2>2, <2>3
<1>10. CASE SetOutputDefaults
  <2>1. output_params' \in ParamsType
    BY <1>0, <1>10 DEF SetOutputDefaults, DefaultItems, TypeInv, ParamsType
  <2> QED
    BY <1>0, <1>10, <2>1 DEF SetOutputDefaults, TypeInv, Stages, WithMode, WithKeys, WithSort,
                             WithOutput, Known, fieldsVars
<1>11. CASE DecideTput
  <2>1. use_tput' \in BOOLEAN
    BY <1>11 DEF DecideTput
  <2> QED
    BY <1>0, <1>11, <2>1 DEF DecideTput, TypeInv, Stages, WithMode, WithKeys, WithSort,
                             WithOutput, Known, fieldsVars
<1>12. CASE InitMemory
  BY <1>0, <1>12 DEF InitMemory, TypeInv, Stages, WithMode, WithKeys, WithSort,
                     WithOutput, Known, fieldsVars, argsVars
<1>13. CASE Stopped \/ UNCHANGED vars
  BY <1>0, <1>13 DEF Stopped, vars, TypeInv, fieldsVars, argsVars
<1> QED
  BY <1>1, <1>2, <1>3, <1>4, <1>5, <1>6, <1>7, <1>8, <1>9, <1>10, <1>11, <1>12, <1>13 DEF Next

----------------------------------------------------------------------------
(* The shape of the structure.                                             *)

\* Only three steps change struct fields.
LEMMA FieldsSteps ==
    [Next]_vars => UNCHANGED fieldsVars \/ AddAggrKey \/ SetSortKey \/ AddOutputField
<1> SUFFICES ASSUME [Next]_vars, ~(AddAggrKey \/ SetSortKey \/ AddOutputField)
             PROVE  UNCHANGED fieldsVars
  OBVIOUS
<1>1. CASE NextOption
  BY <1>1 DEF NextOption, Reject
<1>2. CASE ChooseMode \/ AggrKeysDone \/ InvalidDirection \/ CheckArguments \/ SetMode
  BY <1>2 DEF ChooseMode, AggrKeysDone, InvalidDirection, CheckArguments, SetMode, Reject
<1>3. CASE SetOutputDefaults \/ DecideTput \/ InitMemory
  BY <1>3 DEF SetOutputDefaults, DecideTput, InitMemory
<1>4. CASE Stopped \/ UNCHANGED vars
  BY <1>4 DEF Stopped, vars
<1> QED
  BY <1>1, <1>2, <1>3, <1>4 DEF Next

\* add_to_all with a new field keeps the fields distinct and their sizes added up.
LEMMA FieldAdded ==
    ASSUME NEW id \in Ids, all \in Seq(Ids), ~Present(id), Distinct(all),
           all_sizes_sum = SizeOf(all, Len(all)), AddToAll(id)
    PROVE  /\ all' = Append(all, id) /\ Distinct(all')
           /\ all_sizes_sum' = SizeOf(all', Len(all'))
<1>1. all' = Append(all, id) /\ all_sizes_sum' = SizeOf(all, Len(all)) + Size[id]
  BY DEF AddToAll
<1>2. Distinct(Append(all, id))
  BY DistinctAppend DEF Present
<1>3. SizeOf(Append(all, id), Len(Append(all, id))) = SizeOf(all, Len(all)) + Size[id]
  BY SizeAppend
<1> QED
  BY <1>1, <1>2, <1>3

\* Without sort key and output fields, all fields are the aggregation keys.
LEMMA OnlyKeys ==
    ASSUME NEW keys \in Seq(Ids)
    PROVE  (keys \o SortPart(keys, None)) \o <<>> = keys
<1>1. SortPart(keys, None) = <<>>
  BY DEF SortPart
<1> QED
  BY <1>1, ConcatEmptySeq

\* Every step keeps the shape.
LEMMA ShapeStep == FieldsInv /\ [Next]_vars => ShapeInv'
<1> SUFFICES ASSUME FieldsInv, [Next]_vars PROVE ShapeInv'
  OBVIOUS
<1>0. TypeInv /\ ShapeInv /\ TypeInv'
  BY TypeStep DEF FieldsInv
<1>1. CASE UNCHANGED fieldsVars
  <2>1. /\ all' = all /\ aggr_keys' = aggr_keys /\ sort_key' = sort_key
        /\ output_fields' = output_fields /\ all_sizes_sum' = all_sizes_sum
    BY <1>1 DEF fieldsVars
  <2> QED
    BY <1>0, <2>1 DEF ShapeInv
<1>2. CASE AddAggrKey /\ ~UNCHANGED fieldsVars
  <2>1. PICK id : id = opts.aggr[pos + 1]
    OBVIOUS
  <2>2. /\ pc = "aggr" /\ ~Present(id) /\ AddToAll(id)
        /\ aggr_keys' = Append(aggr_keys, id) /\ UNCHANGED <<sort_key, output_fields>>
    BY <1>2, <2>1 DEF AddAggrKey, Reject, fieldsVars
  <2>3. sort_key = None /\ output_fields = <<>>
    BY <2>2 DEF FieldsInv, StageInv, WithOutput, Known
  <2>4. all = aggr_keys
    BY <1>0, <2>3, OnlyKeys DEF ShapeInv, TypeInv
  <2>5. id \in Ids
    <3>1. aggr_keys' \in Seq(Ids) /\ aggr_keys \in Seq(Ids)
      BY <1>0 DEF TypeInv
    <3>2. Len(aggr_keys') = Len(aggr_keys) + 1 /\ aggr_keys'[Len(aggr_keys) + 1] = id
      BY <2>2, <3>1
    <3>3. Len(aggr_keys) + 1 \in 1..Len(aggr_keys')
      BY <3>1, <3>2, LenProperties
    <3> QED
      BY <3>1, <3>2, <3>3, ElementOfSeq
  <2>6. /\ all' = Append(all, id) /\ Distinct(all')
        /\ all_sizes_sum' = SizeOf(all', Len(all'))
    BY <1>0, <2>2, <2>5, FieldAdded DEF ShapeInv, TypeInv
  <2>7. all' = aggr_keys' /\ aggr_keys' \in Seq(Ids) /\ sort_key' = None /\ output_fields' = <<>>
    BY <1>0, <2>2, <2>3, <2>4, <2>6 DEF TypeInv
  <2>8. all' = (aggr_keys' \o SortPart(aggr_keys', sort_key')) \o output_fields'
    BY <2>7, OnlyKeys
  <2> QED
    BY <2>6, <2>8 DEF ShapeInv
<1>3. CASE SetSortKey /\ ~UNCHANGED fieldsVars
  <2>1. PICK id : id = opts.sort.token
    OBVIOUS
  <2>2. /\ pc = "sort" /\ id \in Ids /\ sort_key' = id
        /\ UNCHANGED <<aggr_keys, output_fields>>
        /\ \/ Present(id) /\ UNCHANGED <<all, all_sizes_sum>>
           \/ ~Present(id) /\ AddToAll(id)
    BY <1>3, <2>1, FieldsAssumption DEF SetSortKey, Reject, fieldsVars
  <2>3. sort_key = None /\ output_fields = <<>>
    BY <2>2 DEF FieldsInv, StageInv, WithOutput, Known
  <2>4. all = aggr_keys /\ aggr_keys \in Seq(Ids)
    BY <1>0, <2>3, OnlyKeys DEF ShapeInv, TypeInv
  <2>5. CASE Present(id)
    <3>1. SortPart(aggr_keys', sort_key') = <<>>
      BY <2>2, <2>4, <2>5 DEF SortPart, Present
    <3>2. all' = (aggr_keys' \o SortPart(aggr_keys', sort_key')) \o output_fields'
      BY <2>2, <2>3, <2>4, <2>5, <3>1, ConcatEmptySeq
    <3>3. all' = all /\ all_sizes_sum' = all_sizes_sum
      BY <2>2, <2>5
    <3> QED
      BY <1>0, <3>2, <3>3 DEF ShapeInv
  <2>6. CASE ~Present(id)
    <3>1. SortPart(aggr_keys', sort_key') = <<id>>
      BY <2>2, <2>4, <2>6, FieldsAssumption DEF SortPart, Present
    <3>2. /\ all' = Append(all, id) /\ Distinct(all')
          /\ all_sizes_sum' = SizeOf(all', Len(all'))
      BY <1>0, <2>2, <2>6, FieldAdded DEF ShapeInv, TypeInv
    <3>3. all' = aggr_keys \o <<id>> /\ all' \in Seq(Ids)
      BY <1>0, <2>2, <2>4, <3>2, AppendIsConcat DEF TypeInv
    <3>4. all' = (aggr_keys' \o SortPart(aggr_keys', sort_key')) \o output_fields'
      BY <2>2, <2>3, <3>1, <3>3, ConcatEmptySeq
    <3> QED
      BY <3>2, <3>4 DEF ShapeInv
  <2> QED
    BY <2>5, <2>6
<1>4. CASE AddOutputField /\ ~UNCHANGED fieldsVars
  <2>1. PICK id : id = OutputTokens[pos + 1]
    OBVIOUS
  <2>2. /\ pc = "output" /\ ~Present(id) /\ AddToAll(id)
        /\ output_fields' = Append(output_fields, id) /\ UNCHANGED <<aggr_keys, sort_key>>
    BY <1>4, <2>1 DEF AddOutputField, fieldsVars
  <2>3. id \in Ids
    <3>1. output_fields' \in Seq(Ids) /\ output_fields \in Seq(Ids)
      BY <1>0 DEF TypeInv
    <3>2. Len(output_fields') = Len(output_fields) + 1 /\ output_fields'[Len(output_fields) + 1] = id
      BY <2>2, <3>1
    <3>3. Len(output_fields) + 1 \in 1..Len(output_fields')
      BY <3>1, <3>2, LenProperties
    <3> QED
      BY <3>1, <3>2, <3>3, ElementOfSeq
  <2>4. /\ all' = Append(all, id) /\ Distinct(all')
        /\ all_sizes_sum' = SizeOf(all', Len(all'))
    BY <1>0, <2>2, <2>3, FieldAdded DEF ShapeInv, TypeInv
  <2>5. PICK p : p = aggr_keys \o SortPart(aggr_keys, sort_key)
    OBVIOUS
  <2>6. p \in Seq(Ids) /\ all \in Seq(Ids) /\ output_fields \in Seq(Ids) /\ <<id>> \in Seq(Ids)
    BY <1>0, <2>3, <2>5, PartsLength, ConcatProperties DEF TypeInv
  <2>7. all = p \o output_fields
    BY <1>0, <2>5 DEF ShapeInv
  <2>8. Append(all, id) = (p \o output_fields) \o <<id>>
    BY <2>3, <2>6, <2>7, AppendIsConcat
  <2>9. Append(output_fields, id) = output_fields \o <<id>>
    BY <2>3, <2>6, AppendIsConcat
  <2>10. (p \o output_fields) \o <<id>> = p \o (output_fields \o <<id>>)
    BY <2>6, ConcatAssociative
  <2>11. all' = (aggr_keys' \o SortPart(aggr_keys', sort_key')) \o output_fields'
    BY <2>2, <2>4, <2>5, <2>8, <2>9, <2>10
  <2> QED
    BY <2>4, <2>11 DEF ShapeInv
<1> QED
  BY <1>1, <1>2, <1>3, <1>4, FieldsSteps

----------------------------------------------------------------------------
(* Stages, modes and tokens.                                               *)

\* Every step fills the part of its own stage.
LEMMA StageStep == FieldsInv /\ [Next]_vars => StageInv'
<1> SUFFICES ASSUME FieldsInv, [Next]_vars PROVE StageInv'
  OBVIOUS
<1> USE DEF StageInv, WithOutput, Known
<1>0. StageInv
  BY DEF FieldsInv
<1>a. ASSUME Reject PROVE StageInv'
  BY <1>0, <1>a DEF Reject, fieldsVars
<1>1. CASE NextOption
  BY <1>0, <1>1, <1>a DEF NextOption, fieldsVars
<1>2. CASE ChooseMode \/ InvalidDirection \/ SetMode
  BY <1>0, <1>2 DEF ChooseMode, InvalidDirection, SetMode, fieldsVars
<1>3. CASE AggrKeysDone
  BY <1>0, <1>3, <1>a DEF AggrKeysDone, fieldsVars
<1>4. CASE AddAggrKey
  BY <1>0, <1>4, <1>a DEF AddAggrKey
<1>5. CASE SetSortKey
  BY <1>0, <1>5, <1>a DEF SetSortKey
<1>6. CASE CheckArguments
  BY <1>0, <1>6, <1>a DEF CheckArguments, fieldsVars
<1>7. CASE AddOutputField
  <2>1. pc = "output" /\ pc' \in {"output", "rejected"}
    BY <1>7, DefaultsAccepted DEF AddOutputField
  <2> QED
    BY <1>0, <1>7, <2>1
<1>8. CASE SetOutputDefaults \/ DecideTput \/ InitMemory
  BY <1>0, <1>8 DEF SetOutputDefaults, DecideTput, InitMemory, fieldsVars
<1>9. CASE Stopped \/ UNCHANGED vars
  BY <1>0, <1>9 DEF Stopped, vars, fieldsVars
<1> QED
  BY <1>1, <1>2, <1>3, <1>4, <1>5, <1>6, <1>7, <1>8, <1>9 DEF Next

\* Every step keeps mode and items in agreement.
LEMMA ModeStep == FieldsInv /\ [Next]_vars => ModeInv'
<1> SUFFICES ASSUME FieldsInv, [Next]_vars PROVE ModeInv'
  OBVIOUS
<1> USE DEF WithMode, WithKeys, WithSort, WithOutput, Known, argsVars
<1>0. ModeInv /\ TypeInv
  BY DEF FieldsInv
<1>a. ASSUME Reject PROVE ModeInv'
  BY <1>0, <1>a DEF Reject, ModeInv
<1>1. CASE NextOption
  <2>1. CASE Reject
    BY <1>a, <2>1
  <2>2. CASE pc' = "help"
    BY <2>2 DEF ModeInv
  <2>3. CASE pc' = "getopt"
    <3>1. \/ output_params' = output_params
          \/ \E a : output_params' = [output_params EXCEPT !.items = [i \in Items |-> IF i \in ToSet(a) THEN "yes" ELSE "no"]]
          \/ \E a : output_params' = [output_params EXCEPT !.format = a]
          \/ \E a, c : output_params' = [output_params EXCEPT !.conv[c] = a]
          \/ output_params' = [output_params EXCEPT !.rich_header = TRUE]
          \/ output_params' = [output_params EXCEPT !.ellipsize = FALSE]
      BY <1>1, <2>3 DEF NextOption, Reject, RememberOption, StatOption, ItemsOption, FormatOption,
                  ConvOption, LayoutOption, CheckedOption, NoTputOption
    <3>2. \/ output_params'.items = output_params.items
          \/ \A i \in Items : output_params'.items[i] # "unset"
      BY <1>0, <3>1 DEF TypeInv, ParamsType
    <3>3. pc = "getopt"
      BY <1>1 DEF NextOption
    <3> QED
      BY <1>0, <2>3, <3>2, <3>3 DEF ModeInv
  <2> QED
    BY <1>1, <2>1, <2>2, <2>3 DEF NextOption
<1>2. CASE ChooseMode
  BY <1>0, <1>2 DEF ChooseMode, ModeInv, ModeOf
<1>3. CASE AggrKeysDone
  BY <1>0, <1>3, <1>a DEF AggrKeysDone, ModeInv
<1>4. CASE AddAggrKey
  BY <1>0, <1>4, <1>a DEF AddAggrKey, ModeInv
<1>5. CASE SetSortKey \/ InvalidDirection
  BY <1>0, <1>5, <1>a DEF SetSortKey, InvalidDirection, ModeInv
<1>6. CASE CheckArguments
  BY <1>0, <1>6, <1>a DEF CheckArguments, ModeInv
<1>7. CASE SetMode
  <2>1. /\ pc = "mode" /\ pc' = "output" /\ UNCHANGED <<opts, output_params>>
        /\ working_mode' = IF /\ output_params.items["records"] = "no"
                              /\ output_params.items["processed_summ"] = "no"
                           THEN "meta" ELSE working_mode
    BY <1>7 DEF SetMode
  <2>2. working_mode # "meta" /\ working_mode = ModeOf(opts)
    BY <1>0, <2>1 DEF ModeInv, ModeOf
  <2> QED
    BY <1>0, <2>1, <2>2 DEF ModeInv, Read
<1>8. CASE AddOutputField
  <2>1. pc = "output" /\ pc' \in {"output", "rejected"} /\ UNCHANGED <<opts, argsVars>>
    BY <1>8, DefaultsAccepted DEF AddOutputField
  <2> QED
    BY <1>0, <2>1 DEF ModeInv
<1>9. CASE SetOutputDefaults
  <2>1. pc = "output" /\ pc' = "tput" /\ UNCHANGED <<opts, working_mode>>
    BY <1>9 DEF SetOutputDefaults
  <2>2. PICK f : \A i \in Items : output_params'.items[i] =
            IF output_params.items[i] = "unset" THEN DefaultItems(f)[i] ELSE output_params.items[i]
    BY <1>0, <1>9 DEF SetOutputDefaults, TypeInv, ParamsType
  <2>3. DefaultItems(f)["records"] = "yes" /\ Read \subseteq Items /\ "records" \in Read
    BY DEF DefaultItems, Items, Read
  <2>4. \A i \in Items : output_params.items[i] \in {"unset", "yes", "no"}
    BY <1>0 DEF TypeInv, ParamsType
  <2>5. CASE \A i \in Items : output_params.items[i] = "unset"
    <3>1. working_mode # "meta"
      BY <1>0, <2>1, <2>3, <2>5 DEF ModeInv
    <3>2. output_params'.items["records"] = "yes"
      BY <2>2, <2>3, <2>5
    <3> QED
      BY <1>0, <2>1, <2>3, <3>1, <3>2 DEF ModeInv
  <2>6. CASE \A i \in Items : output_params.items[i] # "unset"
    <3>1. \A i \in Items : output_params'.items[i] = output_params.items[i]
      BY <2>2, <2>6
    <3>2. \A i \in Read : output_params.items[i] = "no" <=> output_params'.items[i] # "yes"
      BY <2>3, <2>4, <2>6, <3>1
    <3> QED
      BY <1>0, <2>1, <3>2 DEF ModeInv
  <2> QED
    BY <1>0, <2>1, <2>5, <2>6 DEF ModeInv
<1>10. CASE DecideTput \/ InitMemory
  BY <1>0, <1>10 DEF DecideTput, InitMemory, ModeInv
<1>11. CASE Stopped \/ UNCHANGED vars
  BY <1>0, <1>11 DEF Stopped, vars, ModeInv
<1> QED
  BY <1>1, <1>2, <1>3, <1>4, <1>5, <1>6, <1>7, <1>8, <1>9, <1>10, <1>11 DEF Next

\* One more element is taken.
LEMMA TakenNext ==
    ASSUME NEW s, NEW n \in Nat
    PROVE  Taken(s, n + 1) = Taken(s, n) \cup {s[n + 1]}
<1>1. 1..(n + 1) = (1..n) \cup {n + 1}
  OBVIOUS
<1> QED
  BY <1>1 DEF Taken

\* Nothing is taken at first and everything at last.
LEMMA TakenEnds ==
    ASSUME NEW S, NEW s \in Seq(S)
    PROVE  Taken(s, 0) = {} /\ Taken(s, Len(s)) = ToSet(s)
<1>1. 1..0 = {} /\ DOMAIN s = 1..Len(s)
  BY LenProperties
<1> QED
  BY <1>1 DEF Taken, ToSet

\* The fields are those of the parts.
LEMMA PartsSet ==
    ASSUME TypeInv, ShapeInv
    PROVE  ToSet(all) = ToSet(aggr_keys) \cup ({sort_key} \ {None}) \cup ToSet(output_fields)
<1>1. PICK p : p = SortPart(aggr_keys, sort_key)
  OBVIOUS
<1>2. /\ p \in Seq(Ids) /\ aggr_keys \in Seq(Ids) /\ output_fields \in Seq(Ids)
      /\ aggr_keys \o p \in Seq(Ids)
      /\ all = (aggr_keys \o p) \o output_fields
  BY <1>1, PartsLength, ConcatProperties DEF TypeInv, ShapeInv
<1>3. ToSet(all) = ToSet(aggr_keys) \cup ToSet(p) \cup ToSet(output_fields)
  <2>1. ToSet(aggr_keys \o p) = ToSet(aggr_keys) \cup ToSet(p)
    BY <1>2, ToSetConcat
  <2>2. ToSet((aggr_keys \o p) \o output_fields) = ToSet(aggr_keys \o p) \cup ToSet(output_fields)
    BY <1>2, ToSetConcat
  <2> QED
    BY <1>2, <2>1, <2>2
<1>4. ToSet(aggr_keys) \cup ToSet(p) = ToSet(aggr_keys) \cup ({sort_key} \ {None})
  <2>1. CASE sort_key # None /\ sort_key \notin ToSet(aggr_keys)
    <3>1. p = <<sort_key>>
      BY <1>1, <2>1 DEF SortPart
    <3>2. ToSet(p) = {sort_key}
      BY <3>1 DEF ToSet
    <3> QED
      BY <2>1, <3>2
  <2>2. CASE ~(sort_key # None /\ sort_key \notin ToSet(aggr_keys))
    <3>1. p = <<>>
      BY <1>1, <2>2 DEF SortPart
    <3>2. ToSet(p) = {}
      BY <3>1 DEF ToSet
    <3> QED
      BY <2>2, <3>2
  <2> QED
    BY <2>1, <2>2
<1> QED
  BY <1>3, <1>4

\* The empty sequence has no elements.
LEMMA ToSetEmpty == ToSet(<<>>) = {}
  BY DEF ToSet

\* Every step keeps fields and tokens in agreement.
LEMMA TokensStep == FieldsInv /\ [Next]_vars => TokensInv'
<1> SUFFICES ASSUME FieldsInv, [Next]_vars PROVE TokensInv'
  OBVIOUS
<1> USE DEF WithKeys, WithSort, WithOutput, Known
<1>0. TypeInv /\ ShapeInv /\ StageInv /\ TokensInv /\ ModeInv /\ TypeInv' /\ ModeInv'
  BY TypeStep, ModeStep DEF FieldsInv
<1>a. ASSUME Reject PROVE TokensInv'
  BY <1>a DEF Reject, TokensInv
<1>b. ASSUME pc' \in WithOutput PROVE OutputTokens' \in Seq(Token)
  <2>1. (TypeInv /\ ModeInv /\ pc \in WithOutput => OutputTokens \in Seq(Token))'
    BY OutputTokensType, PTL
  <2> QED
    BY <1>0, <1>b, <2>1
<1>1. CASE NextOption
  <2>1. pc' \in {"getopt", "help"} \/ Reject
    BY <1>1 DEF NextOption
  <2> QED
    BY <1>a, <2>1 DEF TokensInv
<1>2. CASE ChooseMode
  <2>1. /\ pc = "getopt" /\ pos' = 0 /\ UNCHANGED <<opts, aggr_keys, sort_key>>
        /\ \/ opts.aggr # None /\ pc' = "aggr"
           \/ opts.aggr = None /\ opts.sort # None /\ pc' = "sort"
           \/ opts.aggr = None /\ opts.sort = None /\ pc' = "limit"
    BY <1>2 DEF ChooseMode, fieldsVars
  <2>2. aggr_keys = <<>> /\ sort_key = None
    BY <1>0, <2>1 DEF StageInv
  <2>3. pc' = "aggr" => Taken(opts.aggr, 0) = {} /\ 0 <= Len(opts.aggr)
    <3>1. pc' = "aggr" => opts.aggr \in Seq(Token)
      BY <1>0, <2>1 DEF TypeInv, OptsType
    <3> QED
      BY <3>1, TakenEnds, LenProperties
  <2> QED
    BY <2>1, <2>2, <2>3, ToSetEmpty DEF TokensInv
<1>3. CASE AddAggrKey
  <2>1. CASE Reject
    BY <1>a, <2>1
  <2>2. CASE ~Reject
    <3>1. PICK id : id = opts.aggr[pos + 1]
      OBVIOUS
    <3>2. /\ pc = "aggr" /\ pos < Len(opts.aggr)
          /\ \/ Present(id) /\ aggr_keys' = aggr_keys
             \/ aggr_keys' = Append(aggr_keys, id)
          /\ pos' = pos + 1
          /\ UNCHANGED <<opts, pc>>
      BY <1>3, <2>2, <3>1 DEF AddAggrKey
    <3>3. /\ sort_key = None /\ output_fields = <<>> /\ aggr_keys \in Seq(Ids)
          /\ aggr_keys' \in Seq(Ids)
      BY <1>0, <3>2 DEF StageInv, TypeInv
    <3>4. all = aggr_keys
      BY <1>0, <3>3, OnlyKeys DEF ShapeInv
    <3>5. ToSet(aggr_keys') = ToSet(aggr_keys) \cup {id}
      <4>1. CASE Present(id) /\ aggr_keys' = aggr_keys
        BY <3>4, <4>1 DEF Present
      <4>2. CASE aggr_keys' = Append(aggr_keys, id)
        <5>1. Len(aggr_keys) \in Nat
          BY <3>3, LenProperties
        <5>2. Len(aggr_keys') = Len(aggr_keys) + 1 /\ aggr_keys'[Len(aggr_keys) + 1] = id
          BY <3>3, <4>2
        <5>3. id \in Ids
          BY <3>3, <5>1, <5>2, ElementOfSeq
        <5> QED
          BY <3>3, <4>2, <5>3, ToSetAppend
      <4> QED
        BY <3>2, <4>1, <4>2
    <3>6. opts.aggr \in Seq(Token) /\ opts.aggr # None /\ ToSet(aggr_keys) = Taken(opts.aggr, pos)
      BY <1>0, <3>2 DEF TokensInv, TypeInv, OptsType
    <3>7. Taken(opts.aggr, pos + 1) = Taken(opts.aggr, pos) \cup {id} /\ pos + 1 <= Len(opts.aggr)
      <4>1. pos \in Nat /\ Len(opts.aggr) \in Nat
        BY <1>0, <3>6, LenProperties DEF TypeInv
      <4>2. Taken(opts.aggr, pos + 1) = Taken(opts.aggr, pos) \cup {opts.aggr[pos + 1]}
        BY <4>1, TakenNext
      <4> QED
        BY <3>1, <3>2, <4>1, <4>2
    <3> QED
      BY <3>2, <3>5, <3>6, <3>7 DEF TokensInv
  <2> QED
    BY <2>1, <2>2
<1>4. CASE AggrKeysDone
  <2>1. CASE Reject
    BY <1>a, <2>1
  <2>2. CASE ~Reject
    <3>1. /\ pc = "aggr" /\ pos = Len(opts.aggr) /\ pos # 0 /\ pos' = 0
          /\ pc' = IF opts.sort # None THEN "sort" ELSE "limit"
          /\ UNCHANGED <<opts, aggr_keys, sort_key>>
      BY <1>4, <2>2 DEF AggrKeysDone, fieldsVars
    <3>2. /\ opts.aggr \in Seq(Token) /\ opts.aggr # None /\ sort_key = None
          /\ ToSet(aggr_keys) = Taken(opts.aggr, Len(opts.aggr))
      BY <1>0, <3>1 DEF TokensInv, TypeInv, OptsType, StageInv
    <3>3. ToSet(aggr_keys) = ToSet(opts.aggr) /\ opts.aggr # <<>>
      BY <3>1, <3>2, TakenEnds, EmptySeq
    <3> QED
      BY <3>1, <3>2, <3>3 DEF TokensInv
  <2> QED
    BY <2>1, <2>2
<1>5. CASE InvalidDirection
  <2>1. /\ pc = "sort" /\ pc' = "limit" /\ opts.sort.dir = "invalid"
        /\ UNCHANGED <<opts, pos, aggr_keys, sort_key>> /\ sort_key = None
    BY <1>0, <1>5 DEF InvalidDirection, fieldsVars, StageInv
  <2> QED
    BY <1>0, <2>1 DEF TokensInv
<1>6. CASE SetSortKey
  <2>1. CASE Reject
    BY <1>a, <2>1
  <2>2. CASE ~Reject
    <3>1. /\ pc = "sort" /\ pc' = "limit" /\ opts.sort.dir # "invalid"
          /\ UNCHANGED <<opts, pos, aggr_keys>> /\ sort_key' = opts.sort.token
      BY <1>6, <2>2 DEF SetSortKey
    <3> QED
      BY <1>0, <3>1 DEF TokensInv
  <2> QED
    BY <2>1, <2>2
<1>7. CASE CheckArguments
  <2>1. CASE Reject
    BY <1>a, <2>1
  <2>2. CASE ~Reject
    <3>1. pc = "limit" /\ pc' = "mode" /\ UNCHANGED <<opts, pos, aggr_keys, sort_key>>
      BY <1>7, <2>2 DEF CheckArguments, fieldsVars
    <3> QED
      BY <1>0, <3>1 DEF TokensInv
  <2> QED
    BY <2>1, <2>2
<1>8. CASE SetMode
  <2>1. pc = "mode" /\ pc' = "output" /\ UNCHANGED <<opts, pos, all, aggr_keys, sort_key, output_fields>>
    BY <1>8 DEF SetMode, fieldsVars
  <2>2. pos = 0 /\ output_fields = <<>>
    BY <1>0, <2>1 DEF TokensInv, StageInv
  <2>3. PICK t : t = OutputTokens'
    OBVIOUS
  <2>4. t \in Seq(Token)
    BY <1>b, <2>1, <2>3
  <2>5. Taken(t, 0) = {} /\ 0 <= Len(t) /\ Len(<<>>) = 0
    BY <2>4, TakenEnds, LenProperties
  <2>6. ToSet(all) = ToSet(aggr_keys) \cup ({sort_key} \ {None}) \cup Taken(t, 0)
    BY <1>0, <2>2, <2>5, PartsSet, ToSetEmpty
  <2>7. /\ pos' <= Len(OutputTokens')
        /\ Len(output_fields') <= pos'
        /\ ToSet(all') = ToSet(aggr_keys') \cup ({sort_key'} \ {None}) \cup Taken(OutputTokens', pos')
    BY <2>1, <2>2, <2>3, <2>5, <2>6
  <2> QED
    BY <1>0, <2>1, <2>7 DEF TokensInv
<1>9. CASE AddOutputField
  <2>0. pc = "output" /\ UNCHANGED <<opts, working_mode, aggr_keys, sort_key>>
    BY <1>9 DEF AddOutputField, argsVars, fieldsVars
  <2>1. PICK id, t : id = OutputTokens[pos + 1] /\ t = OutputTokens /\ t = OutputTokens'
    BY <2>0 DEF OutputTokens
  <2>2. CASE pc' = "rejected"
    BY <2>2 DEF TokensInv
  <2>3. CASE pc' # "rejected"
    <3>1. /\ pos < Len(t) /\ pc' = pc /\ id # BadToken
          /\ \/ Present(id) /\ all' = all /\ output_fields' = output_fields
             \/ all' = Append(all, id) /\ output_fields' = Append(output_fields, id)
          /\ pos' = pos + 1
      BY <1>9, <2>1, <2>3, DefaultsAccepted DEF AddOutputField, AddToAll
    <3>2. t \in Seq(Token) /\ pos \in Nat
      BY <1>0, <2>0, <2>1, OutputTokensType DEF TypeInv
    <3>3. pos + 1 \in 1..Len(t) /\ Taken(t, pos + 1) = Taken(t, pos) \cup {id}
      BY <2>1, <3>1, <3>2, TakenNext, LenProperties
    <3>4. id \in Ids
      BY <2>1, <3>1, <3>2, <3>3, ElementOfSeq DEF Token
    <3>5. all \in Seq(Ids) /\ output_fields \in Seq(Ids)
      BY <1>0 DEF TypeInv
    <3>6. ToSet(all') = ToSet(all) \cup {id}
      <4>1. ToSet(Append(all, id)) = ToSet(all) \cup {id}
        BY <3>4, <3>5, ToSetAppend
      <4> QED
        BY <3>1, <4>1 DEF Present
    <3>7. Len(output_fields') <= pos'
      <4>1. Len(output_fields) <= pos /\ Len(output_fields) \in Nat
        BY <1>0, <2>0, <3>5, LenProperties DEF TokensInv
      <4>2. Len(output_fields') \in {Len(output_fields), Len(output_fields) + 1}
        BY <3>1, <3>4, <3>5, AppendProperties
      <4> QED
        BY <3>1, <3>2, <4>1, <4>2
    <3>8. ToSet(all) = ToSet(aggr_keys) \cup ({sort_key} \ {None}) \cup Taken(t, pos)
      BY <1>0, <2>0, <2>1 DEF TokensInv
    <3>9. ToSet(all') = ToSet(aggr_keys') \cup ({sort_key'} \ {None}) \cup Taken(t, pos')
      BY <2>0, <3>1, <3>3, <3>6, <3>8
    <3>10. pos' <= Len(t)
      BY <3>1, <3>2, <3>3
    <3> QED
      BY <1>0, <2>0, <2>1, <3>1, <3>7, <3>9, <3>10 DEF TokensInv
  <2> QED
    BY <2>2, <2>3
<1>10. CASE SetOutputDefaults \/ DecideTput \/ InitMemory
  <2>1. /\ UNCHANGED <<opts, pos, working_mode, all, aggr_keys, sort_key, output_fields>>
        /\ pc' \in Known /\ pc \in WithOutput
        /\ pc \in Known \/ pos = Len(OutputTokens)
    BY <1>10 DEF SetOutputDefaults, DecideTput, InitMemory, fieldsVars, argsVars
  <2>2. OutputTokens' = OutputTokens
    BY <2>1 DEF OutputTokens
  <2> QED
    BY <1>0, <2>1, <2>2 DEF TokensInv
<1>11. CASE Stopped \/ UNCHANGED vars
  <2>1. UNCHANGED <<pc, opts, pos, working_mode, all, aggr_keys, sort_key, output_fields>>
    BY <1>11 DEF Stopped, vars, fieldsVars, argsVars
  <2>2. OutputTokens' = OutputTokens
    BY <2>1 DEF OutputTokens
  <2> QED
    BY <1>0, <2>1, <2>2 DEF TokensInv
<1> QED
  BY <1>1, <1>2, <1>3, <1>4, <1>5, <1>6, <1>7, <1>8, <1>9, <1>10, <1>11 DEF Next

----------------------------------------------------------------------------
(* The limit.                                                              *)

\* An option more: only --limit and --statistic change the limit.
LEMMA LimitNext ==
    ASSUME NEW options, NEW n \in Nat, NEW x
    PROVE  LimitOf(options, n + 1, x) =
              CASE options[n + 1][1] = "limit" -> options[n + 1][2]
                [] options[n + 1][1] = "stat" -> DefaultStatLimit
                [] OTHER -> LimitOf(options, n, x)
<1>1. PICK S, T : S = LimitOptions(options, n) /\ T = LimitOptions(options, n + 1)
  OBVIOUS
<1>2. S \subseteq 1..n
  BY <1>1 DEF LimitOptions
<1>3. CASE options[n + 1][1] \in {"limit", "stat"}
  <2>1. n + 1 \in T /\ \A y \in T : y \in Int /\ n + 1 >= y
    BY <1>1, <1>3 DEF LimitOptions
  <2>2. Max(T) = n + 1
    <3>1. Max(T) \in T /\ \A y \in T : Max(T) >= y
      BY <2>1 DEF Max
    <3> QED
      BY <2>1, <3>1
  <2> QED
    BY <1>1, <1>3, <2>1, <2>2 DEF LimitOf
<1>4. CASE options[n + 1][1] \notin {"limit", "stat"}
  <2>1. T = S
    BY <1>1, <1>4 DEF LimitOptions
  <2> QED
    BY <1>1, <1>4, <2>1 DEF LimitOf
<1> QED
  BY <1>3, <1>4

\* Every step keeps the limit the one given last.
LEMMA LimitStep == FieldsInv /\ [Next]_vars => LimitInv'
<1> SUFFICES ASSUME FieldsInv, [Next]_vars PROVE LimitInv'
  OBVIOUS
<1> USE DEF WithMode, WithKeys, WithSort, WithOutput, Known
<1>0. TypeInv /\ LimitInv
  BY DEF FieldsInv
<1>a. ASSUME Reject PROVE LimitInv'
  BY <1>a DEF Reject, LimitInv
<1>1. CASE NextOption
  <2>1. CASE pc' # "getopt"
    BY <1>1, <1>a, <2>1 DEF NextOption, LimitInv
  <2>2. CASE pc' = "getopt"
    <3>1. PICK o, n, os : o = argv.options[pos + 1] /\ n = pos /\ os = argv.options
      OBVIOUS
    <3>2. /\ pc = "getopt" /\ n < Len(os) /\ pos' = n + 1 /\ argv' = argv
          /\ \/ RememberOption(o[1], o[2]) \/ StatOption(o[1], o[2])
             \/ o[1] \notin {"limit", "stat"} /\ opts' = opts
      BY <1>1, <2>2, <3>1
         DEF NextOption, Reject, ItemsOption, FormatOption, ConvOption, LayoutOption,
             CheckedOption, NoTputOption, Convs
    <3>3. n \in Nat /\ Len(os) \in Nat /\ opts.limit = LimitOf(os, n, None)
      BY <1>0, <3>1, <3>2, LenProperties DEF TypeInv, LimitInv
    <3>4. LimitOf(os, n + 1, None) = CASE o[1] = "limit" -> o[2]
                                       [] o[1] = "stat" -> DefaultStatLimit
                                       [] OTHER -> LimitOf(os, n, None)
      BY <3>1, <3>3, LimitNext
    <3>5. opts'.limit = LimitOf(os, n + 1, None)
      <4>1. CASE RememberOption(o[1], o[2])
        <5>1. o[1] # "stat" /\ opts' = [opts EXCEPT ![o[1]] = o[2]]
          BY <1>0, <4>1 DEF RememberOption, TypeInv, OptsType
        <5>2. opts'.limit = IF o[1] = "limit" THEN o[2] ELSE opts.limit
          BY <1>0, <5>1 DEF TypeInv, OptsType
        <5> QED
          BY <3>3, <3>4, <5>1, <5>2
      <4>2. CASE StatOption(o[1], o[2])
        <5>1. opts'.limit = DefaultStatLimit /\ o[1] = "stat"
          BY <1>0, <4>2 DEF StatOption, TypeInv, OptsType
        <5> QED
          BY <3>4, <5>1
      <4>3. CASE o[1] \notin {"limit", "stat"} /\ opts' = opts
        BY <3>3, <3>4, <4>3
      <4> QED
        BY <3>2, <4>1, <4>2, <4>3
    <3>6. n + 1 <= Len(os)
      BY <3>2, <3>3
    <3> QED
      BY <2>2, <3>1, <3>2, <3>5, <3>6 DEF LimitInv
  <2> QED
    BY <2>1, <2>2
<1>2. CASE ChooseMode
  BY <1>0, <1>2 DEF ChooseMode, LimitInv
<1>3. CASE AggrKeysDone \/ AddAggrKey \/ SetSortKey
  BY <1>0, <1>3, <1>a DEF AggrKeysDone, AddAggrKey, SetSortKey, LimitInv, argsVars
<1>4. CASE InvalidDirection \/ SetMode
  BY <1>0, <1>4 DEF InvalidDirection, SetMode, LimitInv, argsVars
<1>5. CASE CheckArguments
  BY <1>0, <1>5, <1>a DEF CheckArguments, LimitInv
<1>6. CASE AddOutputField
  <2>1. pc = "output" /\ UNCHANGED <<argv, opts, rec_limit>>
    BY <1>6 DEF AddOutputField, argsVars
  <2>2. pc' \in {"output", "rejected"}
    BY <1>6, DefaultsAccepted DEF AddOutputField
  <2> QED
    BY <1>0, <2>1, <2>2 DEF LimitInv
<1>7. CASE SetOutputDefaults \/ DecideTput \/ InitMemory
  BY <1>0, <1>7 DEF SetOutputDefaults, DecideTput, InitMemory, LimitInv, argsVars
<1>8. CASE Stopped \/ UNCHANGED vars
  BY <1>0, <1>8 DEF Stopped, vars, LimitInv, argsVars
<1> QED
  BY <1>1, <1>2, <1>3, <1>4, <1>5, <1>6, <1>7, <1>8 DEF Next

----------------------------------------------------------------------------
(* The columns.                                                            *)

\* SetToSeq lists every element of a finite set once.
LEMMA SetListed ==
    ASSUME NEW S, IsFiniteSet(S)
    PROVE  /\ SetToSeq(S) \in Seq(S) /\ Len(SetToSeq(S)) = Cardinality(S)
           /\ ToSet(SetToSeq(S)) = S
<1>1. PICK n : n = Cardinality(S)
  OBVIOUS
<1>2. n \in Nat
  BY <1>1, FS_CardinalityType
<1>3. \E f \in [1..n -> S] : IsInjective(f)
  BY <1>1, FS_CardinalityType DEF ExistsBijection, Bijection, Injection
<1>4. PICK f : f = SetToSeq(S)
  OBVIOUS
<1>5. f \in [1..n -> S] /\ IsInjective(f)
  BY <1>1, <1>3, <1>4 DEF SetToSeq
<1>6. f \in Seq(S) /\ Len(f) = n /\ DOMAIN f = 1..n
  BY <1>2, <1>5
<1>7. ToSet(f) = S
  <2>1. IsFiniteSet(1..n) /\ Cardinality(1..n) = n
    BY <1>2, FS_Interval
  <2>2. f \in Injection(1..n, S)
    BY <1>5 DEF Injection, IsInjective
  <2>3. f \in Surjection(1..n, S)
    BY <1>1, <2>1, <2>2, FS_Injection
  <2> QED
    BY <1>6, <2>3 DEF ToSet, Surjection
<1> QED
  BY <1>1, <1>4, <1>6, <1>7

\* A memory has the columns it should have.
LEMMA ColumnsStep == FieldsInv /\ [Next]_vars => ColumnsExact'
<1> SUFFICES ASSUME FieldsInv, [Next]_vars PROVE ColumnsExact'
  OBVIOUS
<1>0. TypeInv /\ ShapeInv /\ ColumnsExact
  BY DEF FieldsInv
<1>1. CASE InitMemory
  <2>1. /\ UNCHANGED <<working_mode, all, aggr_keys, sort_key, output_fields>>
        /\ columns' = CASE working_mode = "aggr" -> HtColumns
                        [] working_mode = "sort" -> all
                        [] OTHER -> <<>>
    BY <1>1 DEF InitMemory, argsVars, fieldsVars
  <2>2. HtColumns = (aggr_keys \o SortPart(aggr_keys, sort_key))
                    \o (IF CanUseFastAggr THEN SetToSeq(FastFields) ELSE output_fields)
    BY DEF HtColumns, SortPart
  <2>3. PICK p : p = aggr_keys \o SortPart(aggr_keys, sort_key)
    OBVIOUS
  <2>4. /\ p \in Seq(Ids) /\ all = p \o output_fields /\ output_fields \in Seq(Ids)
        /\ Len(all) = Len(p) + Len(output_fields)
    BY <1>0, <2>3, PartsLength, ConcatProperties DEF ShapeInv, TypeInv
  <2>5. \/ HtColumns = all
        \/ /\ CanUseFastAggr
           /\ ToSet(HtColumns) = ToSet(all) /\ Len(HtColumns) = Len(all)
    <3>1. CASE ~CanUseFastAggr
      BY <2>2, <2>3, <2>4, <3>1
    <3>2. CASE CanUseFastAggr
      <4>1. PICK s : s = SetToSeq(FastFields)
        OBVIOUS
      <4>2. IsFiniteSet(FastFields)
        BY FS_Subset, FieldsAssumption
      <4>3. s \in Seq(FastFields) /\ Len(s) = Cardinality(FastFields) /\ ToSet(s) = FastFields
        BY <4>1, <4>2, SetListed
      <4>4. s \in Seq(Ids)
        BY <4>3, SeqMonotonic, FieldsAssumption
      <4>5. Len(s) = Len(output_fields) /\ ToSet(s) = ToSet(output_fields)
        BY <3>2, <4>3 DEF CanUseFastAggr
      <4>6. ToSet(p \o s) = ToSet(p) \cup ToSet(s)
        BY <2>4, <4>4, ToSetConcat
      <4>7. ToSet(p \o output_fields) = ToSet(p) \cup ToSet(output_fields)
        BY <2>4, ToSetConcat
      <4>8. Len(p \o s) = Len(p) + Len(s)
        BY <2>4, <4>4, ConcatProperties
      <4> QED
        BY <2>2, <2>3, <2>4, <3>2, <4>1, <4>5, <4>6, <4>7, <4>8
    <3> QED
      BY <3>1, <3>2
  <2>6. CanUseFastAggr' <=> CanUseFastAggr
    BY <2>1 DEF CanUseFastAggr
  <2> QED
    BY <2>1, <2>5, <2>6 DEF ColumnsExact
<1>2. CASE ~InitMemory
  <2>1. CASE pc' # "running"
    BY <2>1 DEF ColumnsExact
  <2>2. CASE pc' = "running"
    <3>1. UNCHANGED vars
      <4>1. CASE NextOption \/ ChooseMode \/ AddAggrKey \/ AggrKeysDone \/ InvalidDirection
        BY <2>2, <4>1 DEF NextOption, ChooseMode, AddAggrKey, AggrKeysDone, InvalidDirection, Reject
      <4>2. CASE SetSortKey \/ CheckArguments \/ SetMode \/ AddOutputField \/ SetOutputDefaults
        BY <2>2, <4>2 DEF SetSortKey, CheckArguments, SetMode, AddOutputField,
                          SetOutputDefaults, Reject
      <4>3. CASE DecideTput \/ Stopped \/ UNCHANGED vars
        BY <2>2, <4>3 DEF DecideTput, Stopped
      <4> QED
        BY <1>2, <4>1, <4>2, <4>3 DEF Next
    <3>2. UNCHANGED <<pc, working_mode, all, output_fields, columns>>
      BY <3>1 DEF vars, argsVars, fieldsVars
    <3> QED
      BY <1>0, <3>2 DEF ColumnsExact, CanUseFastAggr
  <2> QED
    BY <2>1, <2>2
<1> QED
  BY <1>1, <1>2

----------------------------------------------------------------------------
(* The theorems.                                                           *)

\* The invariant holds when arg_parse begins.
LEMMA FieldsInitial == Init => FieldsInv
<1> SUFFICES ASSUME Init PROVE FieldsInv
  OBVIOUS
<1> USE DEF Init, WithMode, WithKeys, WithSort, WithOutput, Known
<1>1. TypeInv
  BY FieldsAssumption DEF TypeInv, Stages, OptsType, ParamsType, Items, Convs
<1>2. ShapeInv
  <2>1. all = (aggr_keys \o SortPart(aggr_keys, sort_key)) \o output_fields
    <3>1. (aggr_keys \o SortPart(aggr_keys, None)) \o <<>> = aggr_keys
      BY <1>1, OnlyKeys DEF TypeInv
    <3> QED
      BY <3>1
  <2>2. Distinct(all)
    BY DEF Distinct
  <2>3. all_sizes_sum = SizeOf(all, Len(all))
    <3>1. PICK f : f = [i \in DOMAIN all |-> Size[all[i]]]
      OBVIOUS
    <3>2. SizeOf(all, Len(all)) = SumOver(f, 1..0)
      BY <3>1 DEF SizeOf, SumOver
    <3>3. 1..0 = {}
      OBVIOUS
    <3> QED
      BY <3>2, <3>3, SumEmpty
  <2> QED
    BY <2>1, <2>2, <2>3 DEF ShapeInv
<1>3. StageInv /\ TokensInv /\ ModeInv /\ ColumnsExact
  BY DEF StageInv, TokensInv, ModeInv, ColumnsExact
<1>4. LimitInv
  <2>1. LimitOptions(argv.options, 0) = {}
    BY DEF LimitOptions
  <2>2. Len(argv.options) \in Nat
    BY <1>1, LenProperties DEF TypeInv
  <2> QED
    BY <2>1, <2>2 DEF LimitInv, LimitOf
<1> QED
  BY <1>1, <1>2, <1>3, <1>4 DEF FieldsInv

\* The invariant holds at every moment of arg_parse.
THEOREM FieldsInvariant == Spec => []FieldsInv
<1>1. FieldsInv /\ [Next]_vars => FieldsInv'
  BY TypeStep, ShapeStep, StageStep, TokensStep, ModeStep, LimitStep, ColumnsStep DEF FieldsInv
<1> QED
  BY <1>1, FieldsInitial, PTL DEF Spec

\* No array of struct fields is ever written behind its end, and the assertion on
\* the default output fields never fails.
THEOREM FieldsTypeCorrect == Spec => []TypeOK
<1>1. FieldsInv => TypeOK
  <2> SUFFICES ASSUME FieldsInv PROVE TypeOK
    OBVIOUS
  <2>1. TypeInv /\ ShapeInv /\ Len(all) <= ALL_FIELDS_MAX
    <3>1. TypeInv /\ ShapeInv
      BY DEF FieldsInv
    <3>2. Len(all) \in 0..ALL_FIELDS_MAX
      BY <3>1, PartsLength
    <3>3. ALL_FIELDS_MAX \in Nat
      BY FieldsAssumption DEF ALL_FIELDS_MAX
    <3> QED
      BY <3>1, <3>2, <3>3
  <2>2. all_sizes_sum \in Nat
    <3>1. PICK f, n : f = [i \in DOMAIN all |-> Size[all[i]]] /\ n = Len(all)
      OBVIOUS
    <3>2. all \in Seq(Ids) /\ n \in Nat /\ DOMAIN all = 1..n
      BY <2>1, <3>1, LenProperties DEF TypeInv
    <3>3. all_sizes_sum = SumOver(f, 1..n)
      BY <2>1, <3>1 DEF ShapeInv, SizeOf, SumOver
    <3>4. \A i \in 1..n : f[i] \in Nat
      BY <3>1, <3>2, FieldsAssumption, ElementOfSeq
    <3>5. IsFiniteSet(1..n)
      BY <3>2, FS_Interval
    <3> QED
      BY <3>3, <3>4, <3>5, SumNat
  <2> QED
    BY <2>1, <2>2 DEF TypeInv, TypeOK, Stages, WithMode, WithKeys, WithSort, WithOutput, Known
<1> QED
  BY <1>1, FieldsInvariant, PTL

\* Sequences whose concatenation repeats nothing have nothing in common.
LEMMA DistinctParts ==
    ASSUME NEW S, NEW s \in Seq(S), NEW t \in Seq(S), Distinct(s \o t)
    PROVE  ToSet(s) \cap ToSet(t) = {}
<1> SUFFICES ASSUME NEW x \in ToSet(s), x \in ToSet(t) PROVE FALSE
  OBVIOUS
<1>1. /\ DOMAIN s = 1..Len(s) /\ Len(s) \in Nat
      /\ DOMAIN t = 1..Len(t) /\ Len(t) \in Nat
      /\ s \o t \in Seq(S)
      /\ DOMAIN (s \o t) = 1..(Len(s) + Len(t))
      /\ \A i \in 1..(Len(s) + Len(t)) :
            (s \o t)[i] = IF i <= Len(s) THEN s[i] ELSE t[i - Len(s)]
  BY ConcatProperties, LenProperties
<1>2. PICK i \in 1..Len(s) : x = s[i]
  BY <1>1 DEF ToSet
<1>3. PICK j \in 1..Len(t) : x = t[j]
  BY <1>1 DEF ToSet
<1>4. PICK k : k = j + Len(s)
  OBVIOUS
<1>5. /\ i \in 1..(Len(s) + Len(t)) /\ i <= Len(s)
      /\ k \in 1..(Len(s) + Len(t)) /\ ~(k <= Len(s)) /\ k - Len(s) = j /\ i # k
  BY <1>1, <1>4
<1>6. (s \o t)[i] = x /\ (s \o t)[k] = x
  BY <1>1, <1>2, <1>3, <1>5
<1> QED
  BY <1>1, <1>5, <1>6 DEF Distinct

\* The invariant implies the conditions of fields_check.
LEMMA FieldsConsistentNow == FieldsInv => FieldsConsistent
<1> SUFFICES ASSUME FieldsInv PROVE FieldsConsistent
  OBVIOUS
<1>1. TypeInv /\ ShapeInv
  BY DEF FieldsInv
<1>2. ToSet(all) = ToSet(aggr_keys) \cup ({sort_key} \ {None}) \cup ToSet(output_fields)
  BY <1>1, PartsSet
<1>3. PICK p, k : p = SortPart(aggr_keys, sort_key) /\ k = aggr_keys \o p
  OBVIOUS
<1>4. /\ p \in Seq(Ids) /\ k \in Seq(Ids) /\ output_fields \in Seq(Ids)
      /\ aggr_keys \in Seq(Ids) /\ all = k \o output_fields
  BY <1>1, <1>3, PartsLength, ConcatProperties DEF TypeInv, ShapeInv
<1>5. ToSet(k) \cap ToSet(output_fields) = {}
  BY <1>1, <1>4, DistinctParts DEF ShapeInv
<1>6. ToSet(k) = ToSet(aggr_keys) \cup ToSet(p)
  BY <1>3, <1>4, ToSetConcat
<1>7. sort_key \notin ToSet(output_fields)
  <2>1. CASE sort_key = None
    <3>1. ToSet(output_fields) \subseteq Ids
      BY <1>4, LenProperties, ElementOfSeq DEF ToSet
    <3> QED
      BY <2>1, <3>1, FieldsAssumption
  <2>2. CASE sort_key # None /\ sort_key \notin ToSet(aggr_keys)
    <3>1. p = <<sort_key>>
      BY <1>3, <2>2 DEF SortPart
    <3>2. sort_key \in ToSet(p)
      BY <3>1 DEF ToSet
    <3> QED
      BY <1>5, <1>6, <3>2
  <2>3. CASE sort_key \in ToSet(aggr_keys)
    BY <1>5, <1>6, <2>3
  <2> QED
    BY <2>1, <2>2, <2>3
<1> QED
  BY <1>1, <1>2, <1>5, <1>6, <1>7 DEF FieldsConsistent, FieldsCheck, ShapeInv

\* The assertion on fields_check holds at every moment.
THEOREM FieldsAlwaysConsistent == Spec => []FieldsConsistent
  BY FieldsInvariant, FieldsConsistentNow, PTL

\* An accepted command line has all its fields and no others.
THEOREM FieldsNothingLost == Spec => []NothingLost
<1>1. FieldsInv => NothingLost
  <2> SUFFICES ASSUME FieldsInv, pc = "accepted"
               PROVE  /\ ToSet(all) = Requested
                      /\ opts.aggr # None => ToSet(aggr_keys) = ToSet(opts.aggr)
                      /\ opts.sort # None /\ opts.sort.dir # "invalid" => sort_key = opts.sort.token
    BY DEF NothingLost
  <2>1. TypeInv /\ TokensInv /\ ModeInv
    BY DEF FieldsInv
  <2>2. pc \in WithKeys /\ pc \in WithSort /\ pc \in WithOutput /\ pc \in Known
    BY DEF WithKeys, WithSort, WithOutput, Known
  <2>3. ToSet(aggr_keys) = IF opts.aggr # None THEN ToSet(opts.aggr) ELSE {}
    BY <2>1, <2>2, ToSetEmpty DEF TokensInv
  <2>4. sort_key = IF opts.sort # None /\ opts.sort.dir # "invalid" THEN opts.sort.token ELSE None
    BY <2>1, <2>2 DEF TokensInv
  <2>5. {sort_key} \ {None} = IF opts.sort # None /\ opts.sort.dir # "invalid"
                              THEN {opts.sort.token} ELSE {}
    <3>1. opts.sort # None => opts.sort.token \in Token
      BY <2>1 DEF TypeInv, OptsType, SortSpec
    <3>2. opts.sort # None => opts.sort.token # None
      BY <3>1, FieldsAssumption DEF Token
    <3> QED
      BY <2>4, <3>2
  <2>6. Taken(OutputTokens, pos) = ToSet(OutputTokens)
    <3>1. OutputTokens \in Seq(Token)
      BY <2>1, <2>2, OutputTokensType
    <3>2. pos = Len(OutputTokens)
      BY <2>1, <2>2 DEF TokensInv
    <3> QED
      BY <3>1, <3>2, TakenEnds
  <2>7. ToSet(all) = ToSet(aggr_keys) \cup ({sort_key} \ {None}) \cup Taken(OutputTokens, pos)
    BY <2>1, <2>2 DEF TokensInv
  <2> QED
    BY <2>3, <2>4, <2>5, <2>6, <2>7 DEF Requested
<1> QED
  BY <1>1, FieldsInvariant, PTL

\* A libnf memory has exactly one column for each field of the query.
THEOREM FieldsColumnsExact == Spec => []ColumnsExact
  BY FieldsInvariant, PTL DEF FieldsInv

\* A nonempty set of small numbers contains its maximum.
LEMMA MaxIn ==
    ASSUME NEW n \in Nat, NEW T \in SUBSET (0..n), T # {}
    PROVE  Max(T) \in T /\ \A y \in T : Max(T) >= y
<1> DEFINE B == {b \in Nat : \A y \in T : b >= y}
<1>1. PICK b \in B : \A m \in B : b <= m
  <2>1. n \in B
    OBVIOUS
  <2> QED
    BY <2>1, LeastNat
<1>2. \A y \in T : b >= y
  OBVIOUS
<1>3. b \in T
  <2> SUFFICES ASSUME b \notin T PROVE FALSE
    OBVIOUS
  <2>1. PICK y \in T : TRUE
    OBVIOUS
  <2>2. \A z \in T : b > z /\ z \in Nat
    BY <1>2
  <2>3. b - 1 \in B
    BY <2>1, <2>2
  <2> QED
    BY <1>1, <2>3
<1> QED
  BY <1>2, <1>3 DEF Max

\* Only metadata is read exactly when nothing else is printed, although the mode is
\* chosen before arg_parse fills in the items to print by default.
THEOREM FieldsMetadataMeant == Spec => []MetaMeansNothingElse
<1>1. FieldsInv => MetaMeansNothingElse
  <2> SUFFICES ASSUME FieldsInv, pc \in {"accepted", "running"} PROVE MetaMeansNothingElse
    BY DEF MetaMeansNothingElse
  <2>1. ModeInv /\ pc \in Known
    BY DEF FieldsInv, Known
  <2> QED
    BY <2>1 DEF ModeInv, MetaMeansNothingElse, Read
<1> QED
  BY <1>1, FieldsInvariant, PTL

\* The command line stays the one the program was started with.
LEMMA CommandLineGiven == Spec => [](argv \in CommandLines)
<1>1. Init => argv \in CommandLines
  BY DEF Init
<1>2. argv \in CommandLines /\ [Next]_vars => (argv \in CommandLines)'
  <2> SUFFICES ASSUME [Next]_vars PROVE argv' = argv
    OBVIOUS
  <2>1. CASE NextOption \/ ChooseMode \/ AddAggrKey \/ AggrKeysDone
    BY <2>1 DEF NextOption, ChooseMode, AddAggrKey, AggrKeysDone, Reject
  <2>2. CASE InvalidDirection \/ SetSortKey \/ CheckArguments \/ SetMode
    BY <2>2 DEF InvalidDirection, SetSortKey, CheckArguments, SetMode, Reject
  <2>3. CASE AddOutputField \/ SetOutputDefaults \/ DecideTput \/ InitMemory
    BY <2>3 DEF AddOutputField, SetOutputDefaults, DecideTput, InitMemory
  <2>4. CASE Stopped \/ UNCHANGED vars
    BY <2>4 DEF Stopped, vars
  <2> QED
    BY <2>1, <2>2, <2>3, <2>4 DEF Next
<1> QED
  BY <1>1, <1>2, PTL DEF Spec

\* arg_parse gives the limit the manual promises to every command line without a
\* --statistic behind a --limit, which parse_stat_spec would discard.
THEOREM FieldsLimitDocumented ==
    ASSUME StatisticsFirst
    PROVE  Spec => []LimitAsDocumented
<1>1. FieldsInv /\ argv \in CommandLines => LimitAsDocumented
  <2> SUFFICES ASSUME FieldsInv, argv \in CommandLines, pc \in {"accepted", "running"}
               PROVE  LimitAsDocumented
    BY DEF LimitAsDocumented
  <2>1. TypeInv /\ LimitInv
    BY DEF FieldsInv
  <2>2. pc \in WithMode /\ pc \in WithOutput
    BY DEF WithMode, WithKeys, WithSort, WithOutput, Known
  <2>3. PICK os, n : os = argv.options /\ n = Len(os)
    OBVIOUS
  <2>4. os \in Seq(Option) /\ n \in Nat /\ DOMAIN os = 1..n
    BY <2>1, <2>3, LenProperties DEF TypeInv
  <2>5. PICK given, limits, stats :
            /\ given = LimitOptions(os, n)
            /\ limits = {i \in DOMAIN os : os[i][1] = "limit"}
            /\ stats = {i \in DOMAIN os : os[i][1] = "stat"}
    OBVIOUS
  <2>6. given = limits \cup stats
    BY <2>4, <2>5 DEF LimitOptions
  <2>7. given \in SUBSET (0..n) /\ limits \in SUBSET (0..n)
    BY <2>4, <2>5, <2>6
  <2>8. /\ rec_limit = IF opts.limit = None THEN 0 ELSE opts.limit
        /\ opts.limit = LimitOf(os, n, None)
    BY <2>1, <2>2, <2>3 DEF LimitInv
  <2>9. rec_limit = IF limits # {} THEN os[Max(limits)][2]
                    ELSE IF stats # {} THEN DefaultStatLimit ELSE 0
    <3>1. CASE given = {}
      BY <2>5, <2>6, <2>8, <3>1 DEF LimitOf
    <3>2. CASE limits # {}
      <4>1. Max(limits) \in limits /\ \A i \in limits : Max(limits) >= i
        BY <2>4, <2>7, <3>2, MaxIn
      <4>2. Max(given) \in given /\ \A i \in given : Max(given) >= i
        BY <2>4, <2>6, <2>7, <3>2, MaxIn
      <4>3. \A j \in stats : j < Max(limits)
        BY <2>3, <2>5, <4>1 DEF StatisticsFirst
      <4>4. Max(given) = Max(limits)
        BY <2>6, <2>7, <4>1, <4>2, <4>3
      <4>5. os[Max(limits)] \in Option /\ os[Max(limits)][1] = "limit"
        BY <2>4, <2>5, <4>1, ElementOfSeq
      <4>6. os[Max(limits)][2] # None
        BY <4>5, OptionType, FieldsAssumption
      <4> QED
        BY <2>5, <2>6, <2>8, <3>2, <4>4, <4>5, <4>6 DEF LimitOf
    <3>3. CASE given # {} /\ limits = {}
      <4>1. Max(given) \in given
        BY <2>4, <2>7, <3>3, MaxIn
      <4>2. os[Max(given)][1] = "stat"
        BY <2>5, <2>6, <3>3, <4>1
      <4>3. DefaultStatLimit # None
        BY FieldsAssumption
      <4> QED
        BY <2>5, <2>6, <2>8, <3>3, <4>2, <4>3 DEF LimitOf
    <3> QED
      BY <2>6, <3>1, <3>2, <3>3
  <2> QED
    BY <2>3, <2>5, <2>9 DEF LimitAsDocumented
<1> QED
  BY <1>1, FieldsInvariant, CommandLineGiven, PTL

(***************************************************************************)
(* Output                                                                  *)
(***************************************************************************)

----------------------------------------------------------------------------
(* Lengths and widths.                                                     *)

\* A range of numbers is finite.
LEMMA RangeFinite == \A n \in Nat : IsFiniteSet(1..n)
<1> SUFFICES ASSUME NEW n \in Nat PROVE IsFiniteSet(1..n)
  OBVIOUS
<1>1. 1 \in Int /\ n \in Int
  OBVIOUS
<1> QED
  BY <1>1, FS_Interval

\* How many the first numbers are.
LEMMA FirstNumbers == \A n \in Nat : Cardinality(1..n) = n
<1> SUFFICES ASSUME NEW n \in Nat PROVE Cardinality(1..n) = n
  OBVIOUS
<1>1. 1 \in Int /\ n \in Int /\ (n = 0 => 1..n = {})
  OBVIOUS
<1>2. CASE n = 0
  BY <1>1, <1>2, FS_EmptySet
<1>3. CASE n # 0
  <2>1. Cardinality(1..n) = n - 1 + 1
    BY <1>1, <1>3, FS_Interval
  <2> QED
    BY <2>1
<1> QED
  BY <1>2, <1>3

\* How many of them there can be.
LEMMA SomeNumbers ==
    ASSUME NEW n \in Nat, NEW D \in SUBSET (1..n)
    PROVE  Cardinality(D) \in 0..n
<1>1. IsFiniteSet(1..n) /\ Cardinality(1..n) = n
  BY FirstNumbers, RangeFinite
<1>2. IsFiniteSet(D) /\ Cardinality(D) <= Cardinality(1..n)
  BY <1>1, FS_Subset
<1>3. Cardinality(D) \in Nat
  BY <1>2, FS_CardinalityType
<1> QED
  BY <1>1, <1>2, <1>3

\* A number has one to ten digits, and one below a power of ten has few of them.
LEMMA DigitsBound ==
    ASSUME NEW n
    PROVE  /\ Digits(n) \in 1..10
           /\ n \in Nat => \A k \in 1..9 : n < Power10[k] => Digits(n) <= k
<1>0. DOMAIN Power10 = 1..9
  BY DEF Power10
<1>1. PICK D : D = {d \in 1..9 : n >= Power10[d]}
  OBVIOUS
<1>2. Digits(n) = 1 + Cardinality(D)
  BY <1>0, <1>1 DEF Digits
<1>3. D \in SUBSET (1..9) /\ 9 \in Nat
  BY <1>1
<1>4. Cardinality(D) \in 0..9
  BY <1>3, SomeNumbers
<1>5. ASSUME n \in Nat, NEW k \in 1..9, n < Power10[k] PROVE Digits(n) <= k
  <2>1. \A d \in 1..9 : d >= k => Power10[d] >= Power10[k] /\ Power10[d] \in Nat
    BY DEF Power10
  <2>2. Power10[k] \in Nat
    BY DEF Power10
  <2>3. \A d \in D : d < k
    BY <1>1, <1>5, <2>1, <2>2
  <2>4. PICK m : m = k - 1
    OBVIOUS
  <2>5. m \in Nat /\ D \in SUBSET (1..m)
    BY <1>3, <2>3, <2>4
  <2>6. Cardinality(D) \in 0..m
    BY <2>5, SomeNumbers
  <2> QED
    BY <1>2, <2>4, <2>6
<1> QED
  BY <1>2, <1>4, <1>5

\* A number of digits is a number.
LEMMA DigitsType == ASSUME NEW n PROVE Digits(n) \in Nat
<1>1. Digits(n) \in 1..10
  BY DigitsBound
<1> QED
  BY <1>1

\* The greater of two numbers.
LEMMA MaxOfTwo ==
    ASSUME NEW a \in Nat, NEW b \in Nat
    PROVE  Max({a, b}) \in Nat /\ Max({a, b}) >= a /\ Max({a, b}) >= b
<1>1. \E x \in {a, b} : \A y \in {a, b} : x >= y
  OBVIOUS
<1>2. Max({a, b}) \in {a, b} /\ \A y \in {a, b} : Max({a, b}) >= y
  BY <1>1 DEF Max
<1> QED
  BY <1>2

\* The text of a value that is not a basic record has a length.
LEMMA TextLenType ==
    ASSUME NEW func, NEW v, IsPlain(func, v)
    PROVE  TextLen(func, v) \in Nat
<1>0. \A n : Digits(n) \in Nat
  BY DigitsType
<1>1. TimestampLen(v) \in Nat /\ TcpFlagsLen(v) \in Nat /\ IpProtoLen(v) \in Nat
  BY <1>0, OutputAssumption DEF TimestampLen, TcpFlagsLen, IpProtoLen
<1>2. PrefixedLen(v) \in Nat
  BY <1>0 DEF PrefixedLen
<1>3. VolumeLen(v) \in Nat /\ DoubleVolumeLen(v) \in Nat
  BY <1>0, <1>2 DEF VolumeLen, DoubleVolumeLen
<1>4. DurationLen(v) \in Nat
  <2>1. Digits(v) \in Nat /\ Digits(v \div 3600000) \in Nat
    BY <1>0
  <2>2. Max({2, Digits(v \div 3600000)}) \in Nat
    BY <2>1, MaxOfTwo
  <2> QED
    BY <2>1, <2>2 DEF DurationLen
<1>5. func = "addr" => AddrLen(v) \in Nat
  BY DEF AddrLen, IsPlain
<1>6. func = "string" => v \in Nat
  BY DEF IsPlain
<1> QED
  BY <1>0, <1>1, <1>2, <1>3, <1>4, <1>5, <1>6 DEF TextLen

\* The parts of a basic record.
LEMMA BrecPartsType ==
    /\ DOMAIN BrecParts = 1..10 /\ IsFiniteSet(1..10)
    /\ \A k \in 1..10 : BrecParts[k][2] \in Nat
<1>1. IsFiniteSet(1..10)
  BY RangeFinite
<1> QED
  BY <1>1 DEF BrecParts

\* What a field's value must be.
IsValue(func, v) ==
    IF func = "brec" THEN \A k \in DOMAIN BrecParts : IsPlain(BrecParts[k][1], v[k])
    ELSE IsPlain(func, v)

\* The text of a value has a length.
LEMMA StrLenType ==
    ASSUME NEW func, NEW v, IsValue(func, v)
    PROVE  StrLen(func, v) \in Nat
<1>1. CASE func = "brec"
  <2>1. PICK f : f = [k \in DOMAIN BrecParts |->
                         Max({BrecParts[k][2], TextLen(BrecParts[k][1], v[k])})]
    OBVIOUS
  <2>2. \A k \in 1..10 : f[k] \in Nat
    <3> TAKE k \in 1..10
    <3>1. IsPlain(BrecParts[k][1], v[k])
      BY <1>1, BrecPartsType DEF IsValue
    <3>2. TextLen(BrecParts[k][1], v[k]) \in Nat
      BY <3>1, TextLenType
    <3> QED
      BY <2>1, <3>2, BrecPartsType, MaxOfTwo
  <2>3. BrecLen(v) = 2 + SumOver(f, 1..10)
    BY <2>1, BrecPartsType DEF BrecLen, SumOver
  <2>4. SumOver(f, 1..10) \in Nat
    BY <2>2, BrecPartsType, SumNat
  <2> QED
    BY <1>1, <2>3, <2>4 DEF StrLen
<1>2. CASE func # "brec"
  BY <1>2, TextLenType DEF StrLen, IsValue
<1> QED
  BY <1>1, <1>2

\* Every field has a function that makes its text, and every function a width.
LEMMA WidthType ==
    ASSUME NEW id \in Ids
    PROVE  WidthEstimate(ToStr(id)) \in Nat
<1>1. PICK func : func = ToStr(id)
  OBVIOUS
<1>2. func \in ToStrFuncs
  BY <1>1, OutputAssumption DEF ToStr
<1>3. PICK f : f = [k \in DOMAIN BrecParts |-> BrecParts[k][2]]
  OBVIOUS
<1>4. SumOver(f, 1..10) \in Nat
  BY <1>3, BrecPartsType, SumNat
<1>5. /\ TimestampWidth \in Nat /\ VolumeWidth \in Nat /\ DoubleVolumeWidth \in Nat
      /\ TcpFlagsWidth \in Nat /\ IpProtoWidth \in Nat /\ DurationWidth \in Nat
      /\ AddrWidth \in Nat
  BY DEF TimestampWidth, VolumeWidth, DoubleVolumeWidth, PrefixedWidth, TcpFlagsWidth,
         IpProtoWidth, DurationWidth, AddrWidth
<1>6. CASE func = "brec"
  <2>1. WidthEstimate("brec") = 2 + SumOver(f, 1..10)
    BY <1>3, BrecPartsType DEF WidthEstimate, SumOver
  <2> QED
    BY <1>1, <1>4, <1>6, <2>1
<1>7. CASE func # "brec"
  BY <1>1, <1>2, <1>5, <1>7 DEF WidthEstimate, ToStrFuncs
<1> QED
  BY <1>6, <1>7

----------------------------------------------------------------------------
(* Lengths depend on the conversions asked for and on nothing else.        *)

\* With the same conversions a number has the same prefix.
LEMMA PrefixedStable ==
    ASSUME NEW v, output_params' = output_params
    PROVE  Tenths(v)' = Tenths(v) /\ PrefixedLen(v)' = PrefixedLen(v)
<1>1. (Binary' <=> Binary) /\ Scale' = Scale
  BY DEF Binary, Scale
<1>2. Units(v)' = Units(v)
  BY <1>1 DEF Units
<1>3. Tenths(v)' = Tenths(v)
  BY <1>1, <1>2 DEF Tenths
<1>4. PrefixedLen(v)' = PrefixedLen(v)
  BY <1>1, <1>3 DEF PrefixedLen
<1> QED
  BY <1>3, <1>4

\* With the same conversions a value has the same length.
LEMMA TextLenStable ==
    ASSUME NEW func, NEW v, output_params' = output_params
    PROVE  TextLen(func, v)' = TextLen(func, v)
<1>0. \A c \in Convs : Raw(c)' <=> Raw(c)
  BY DEF Raw
<1>1. /\ TimestampLen(v)' = TimestampLen(v) /\ TcpFlagsLen(v)' = TcpFlagsLen(v)
      /\ IpProtoLen(v)' = IpProtoLen(v) /\ DurationLen(v)' = DurationLen(v)
      /\ AddrLen(v)' = AddrLen(v)
  BY DEF TimestampLen, TcpFlagsLen, IpProtoLen, DurationLen, AddrLen, Raw
<1>2. VolumeLen(v)' = VolumeLen(v) /\ DoubleVolumeLen(v)' = DoubleVolumeLen(v)
  BY PrefixedStable DEF VolumeLen, DoubleVolumeLen, Raw
<1> QED
  BY <1>1, <1>2 DEF TextLen

\* The lengths of the parts of a basic record.
PartLens(f, v) ==
    f = [k \in DOMAIN BrecParts |-> Max({BrecParts[k][2], TextLen(BrecParts[k][1], v[k])})]

\* The length of a basic record is the sum of the lengths of its parts.
LEMMA BrecSum ==
    ASSUME NEW CONSTANT f, NEW CONSTANT v
    PROVE  PartLens(f, v) => BrecLen(v) = 2 + SumOver(f, 1..10)
<1> SUFFICES ASSUME PartLens(f, v) PROVE BrecLen(v) = 2 + SumOver(f, 1..10)
  OBVIOUS
<1>1. PICK g : g = [k \in DOMAIN BrecParts |->
                       Max({BrecParts[k][2], TextLen(BrecParts[k][1], v[k])})]
  OBVIOUS
<1>2. BrecLen(v) = 2 + SumOver(g, 1..10)
  BY <1>1, BrecPartsType DEF BrecLen, SumOver
<1>3. g = f
  BY <1>1 DEF PartLens
<1> QED
  BY <1>2, <1>3

\* The same for basic records.
LEMMA StrLenStable ==
    ASSUME NEW func, NEW v, output_params' = output_params
    PROVE  StrLen(func, v)' = StrLen(func, v)
<1>1. BrecLen(v)' = BrecLen(v)
  <2>1. PICK f : PartLens(f, v)
    BY DEF PartLens
  <2>2. \A k \in 1..10 : TextLen(BrecParts[k][1], v[k])' = TextLen(BrecParts[k][1], v[k])
    BY TextLenStable
  <2>3. PartLens(f, v)'
    BY <2>1, <2>2, BrecPartsType DEF PartLens
  <2>4. BrecLen(v) = 2 + SumOver(f, 1..10)
    BY <2>1, BrecSum
  <2>5. (PartLens(f, v) => BrecLen(v) = 2 + SumOver(f, 1..10))'
    BY BrecSum, PTL
  <2> QED
    BY <2>3, <2>4, <2>5
<1>2. TextLen(func, v)' = TextLen(func, v)
  BY TextLenStable
<1> QED
  BY <1>1, <1>2 DEF StrLen

\* The same for a field of a record.
LEMMA FieldStrStable ==
    ASSUME NEW record, NEW id, output_params' = output_params
    PROVE  FieldStr(record, id)' = FieldStr(record, id)
<1>1. StrLen(ToStr(id), record[id].val)' = StrLen(ToStr(id), record[id].val)
  BY StrLenStable
<1> QED
  BY <1>1 DEF FieldStr

----------------------------------------------------------------------------
(* Cells.                                                                  *)

\* In the pretty format a cell that is not the last of its line fills its column:
\* its string is short enough, or it is cut.
LEMMA CellFills ==
    ASSUME NEW len \in Nat, NEW width \in Nat, NEW right \in BOOLEAN,
           format = "pretty", output_params.ellipsize \/ len <= width
    PROVE  PrintField(len, width, right, FALSE).width = width + PROTECTIVE_PADDING
<1>1. format # "csv" /\ PROTECTIVE_PADDING \in Nat
  BY OutputAssumption
<1>2. CASE width - len < 0
  BY <1>1, <1>2 DEF PrintField
<1>3. CASE ~(width - len < 0)
  BY <1>1, <1>3 DEF PrintField
<1> QED
  BY <1>2, <1>3

\* Different fields have different offsets.
LEMMA OffsetGrows ==
    ASSUME all \in Seq(Ids), NEW i \in DOMAIN all, NEW k \in DOMAIN all, i < k
    PROVE  Offset(i) # Offset(k)
<1>1. PICK f : f = [x \in DOMAIN all |-> Size[all[x]]]
  OBVIOUS
<1>2. PICK m, n : m = i - 1 /\ n = k - 1
  OBVIOUS
<1>3. /\ DOMAIN all = 1..Len(all) /\ Len(all) \in Nat
      /\ m \in Nat /\ n \in Nat /\ m < n /\ m + 1 = i
      /\ 1..m \subseteq 1..n /\ i \in 1..n /\ 1..n \subseteq DOMAIN all
  BY <1>2, LenProperties
<1>4. \A x \in 1..n : f[x] \in Nat /\ f[x] # 0
  BY <1>1, <1>3, ElementOfSeq, FieldsAssumption
<1>5. Offset(i) = SumOver(f, 1..m) /\ Offset(k) = SumOver(f, 1..n)
  BY <1>1, <1>2 DEF Offset, SizeOf, SumOver
<1>6. PICK g : g = [x \in 1..n |-> IF x <= m THEN f[x] ELSE 0]
  OBVIOUS
<1>7. /\ \A x \in 1..n : g[x] \in Int /\ f[x] \in Int /\ g[x] <= f[x]
      /\ \A x \in (1..n) \ (1..m) : g[x] = 0
      /\ \A x \in 1..m : g[x] \in Int /\ g[x] = f[x]
      /\ g[i] # f[i]
  BY <1>3, <1>4, <1>6
<1>8. IsFiniteSet(1..n) /\ IsFiniteSet(1..m)
  BY <1>3, RangeFinite
<1>9. SumOver(g, 1..n) = SumOver(g, 1..m)
  BY <1>3, <1>7, <1>8, SumSupport
<1>10. SumOver(g, 1..m) = SumOver(f, 1..m)
  BY <1>7, <1>8, SumEqual
<1>11. SumOver(g, 1..n) # SumOver(f, 1..n)
  BY <1>3, <1>7, <1>8, SumLeq
<1> QED
  BY <1>5, <1>9, <1>10, <1>11

\* A field of a record that is sent is read where it has been written.
LEMMA StreamReadsItsField ==
    ASSUME all \in Seq(Ids), NEW record, NEW i \in DOMAIN all
    PROVE  StreamStr(record, i) = [of |-> all[i], len |-> StrLen(ToStr(all[i]), record[all[i]].val)]
<1>1. DOMAIN all \subseteq Nat
  BY LenProperties
<1>2. \A k \in DOMAIN all : Offset(k) = Offset(i) => k = i
  <2> TAKE k \in DOMAIN all
  <2> HAVE Offset(k) = Offset(i)
  <2>1. ~(i < k) /\ ~(k < i)
    BY OffsetGrows
  <2>2. k \in Nat /\ i \in Nat
    BY <1>1
  <2> QED
    BY <2>1, <2>2
<1>3. PICK k : k = CHOOSE j \in DOMAIN all : Offset(j) = Offset(i)
  OBVIOUS
<1>4. k \in DOMAIN all /\ Offset(k) = Offset(i)
  BY <1>3
<1>5. k = i
  BY <1>2, <1>4
<1> QED
  BY <1>3, <1>5 DEF StreamStr

----------------------------------------------------------------------------
(* The header.                                                             *)

Note == {"plain", "key", "key_dir", "dir", "func"}
HeadingSet == [of: [id: Ids, note: Note], len: Nat]

\* The note says what the field is used for.
NoteRight(n, keys, key, outs) ==
    /\ n.note \in {"key", "key_dir"} <=> n.id \in ToSet(keys)
    /\ n.note \in {"dir", "key_dir"} <=> n.id = key
    /\ n.note = "func" <=> n.id \in ToSet(outs)

\* The names are those of the fields, with notes that are right if this is asked for.
Alike(names, fields, rich, keys, key, outs) ==
    /\ names \in Seq(HeadingSet)
    /\ Len(names) = Len(fields)
    /\ \A i \in 1..Len(fields) :
          /\ names[i].of.id = fields[i]
          /\ rich => NoteRight(names[i].of, keys, key, outs)

\* Names are put together like the fields they belong to.
LEMMA AlikeConcat ==
    ASSUME NEW s \in Seq(Ids), NEW t \in Seq(Ids), NEW a, NEW b, NEW rich,
           NEW keys, NEW key, NEW outs,
           Alike(a, s, rich, keys, key, outs), Alike(b, t, rich, keys, key, outs)
    PROVE  Alike(a \o b, s \o t, rich, keys, key, outs)
<1>1. a \in Seq(HeadingSet) /\ b \in Seq(HeadingSet) /\ Len(a) = Len(s) /\ Len(b) = Len(t)
  BY DEF Alike
<1>2. Len(s) \in Nat /\ Len(t) \in Nat
  BY LenProperties
<1>3. /\ a \o b \in Seq(HeadingSet)
      /\ Len(a \o b) = Len(s) + Len(t)
      /\ \A i \in 1..(Len(s) + Len(t)) : (a \o b)[i] = IF i <= Len(s) THEN a[i] ELSE b[i - Len(s)]
  <2>1. /\ a \o b \in Seq(HeadingSet)
        /\ Len(a \o b) = Len(a) + Len(b)
        /\ \A i \in 1..(Len(a) + Len(b)) :
              (a \o b)[i] = IF i <= Len(a) THEN a[i] ELSE b[i - Len(a)]
    BY <1>1, ConcatProperties
  <2> QED
    BY <1>1, <2>1
<1>4. /\ Len(s \o t) = Len(s) + Len(t)
      /\ \A i \in 1..(Len(s) + Len(t)) : (s \o t)[i] = IF i <= Len(s) THEN s[i] ELSE t[i - Len(s)]
  BY ConcatProperties
<1>5. ASSUME NEW i \in 1..(Len(s) + Len(t))
      PROVE  /\ (a \o b)[i].of.id = (s \o t)[i]
             /\ rich => NoteRight((a \o b)[i].of, keys, key, outs)
  <2>1. CASE i <= Len(s)
    <3>1. i \in 1..Len(s)
      BY <1>2, <2>1
    <3> QED
      BY <1>3, <1>4, <2>1, <3>1 DEF Alike
  <2>2. CASE ~(i <= Len(s))
    <3>1. PICK k : k = i - Len(s)
      OBVIOUS
    <3>2. k \in 1..Len(t)
      BY <1>2, <2>2, <3>1
    <3>3. b[k].of.id = t[k] /\ (rich => NoteRight(b[k].of, keys, key, outs))
      BY <3>2 DEF Alike
    <3> QED
      BY <1>3, <1>4, <2>2, <3>1, <3>3
  <2> QED
    BY <2>1, <2>2
<1> QED
  BY <1>3, <1>4, <1>5 DEF Alike

\* One heading with its field.
LEMMA AlikeOne ==
    ASSUME NEW h \in HeadingSet, NEW id, h.of.id = id, NEW rich, NEW keys, NEW key, NEW outs,
           rich => NoteRight(h.of, keys, key, outs)
    PROVE  Alike(<<h>>, <<id>>, rich, keys, key, outs)
  BY DEF Alike

\* A heading is of its field and says what it is told.
LEMMA HeadingType ==
    ASSUME NEW id \in Ids, NEW note \in Note, NEW len \in Nat
    PROVE  /\ Heading(id, note, len) \in HeadingSet
           /\ Heading(id, note, len).of = [id |-> id, note |-> note]
  BY OutputAssumption DEF Heading, HeadingSet

\* Names without notes.
LEMMA PlainNames ==
    ASSUME NEW s \in Seq(Ids), NEW keys, NEW key, NEW outs
    PROVE  Alike([i \in DOMAIN s |-> Heading(s[i], "plain", 0)], s, FALSE, keys, key, outs)
<1>1. PICK n, l : n = [i \in DOMAIN s |-> Heading(s[i], "plain", 0)] /\ l = Len(s)
  OBVIOUS
<1>2. l \in Nat /\ DOMAIN s = 1..l /\ "plain" \in Note /\ 0 \in Nat
  BY <1>1, LenProperties DEF Note
<1>3. \A i \in 1..l : n[i] \in HeadingSet /\ n[i].of.id = s[i]
  <2> TAKE i \in 1..l
  <2>1. s[i] \in Ids
    BY <1>1, ElementOfSeq
  <2>2. /\ Heading(s[i], "plain", 0) \in HeadingSet
        /\ Heading(s[i], "plain", 0).of = [id |-> s[i], note |-> "plain"]
    BY <1>2, <2>1, HeadingType
  <2>3. n[i] = Heading(s[i], "plain", 0)
    BY <1>1, <1>2
  <2> QED
    BY <2>2, <2>3
<1>4. DOMAIN n = 1..l /\ n = [i \in 1..l |-> n[i]]
  BY <1>1, <1>2
<1>5. n \in Seq(HeadingSet) /\ Len(n) = l
  BY <1>2, <1>3, <1>4
<1>6. Alike(n, s, FALSE, keys, key, outs)
  BY <1>1, <1>3, <1>5 DEF Alike
<1> QED
  BY <1>1, <1>6

\* Whatever the header looks like, its names are those of the columns, and a rich
\* header of an aggregation says what each of them is used for.
LEMMA NamesRight ==
    ASSUME FieldsInv, pc = "running"
    PROVE  /\ Alike(NamesOnly, all, FALSE, aggr_keys, sort_key, output_fields)
           /\ Alike(BatchNames, all, output_params.rich_header /\ working_mode = "aggr",
                    aggr_keys, sort_key, output_fields)
<1>0. TypeInv /\ ShapeInv /\ TokensInv /\ ModeInv /\ FieldsConsistent
  BY FieldsConsistentNow DEF FieldsInv
<1>1. /\ all \in Seq(Ids) /\ aggr_keys \in Seq(Ids) /\ output_fields \in Seq(Ids)
      /\ sort_key \in Ids \cup {None}
      /\ Len(all) \in Nat /\ DOMAIN all = 1..Len(all)
      /\ Len(aggr_keys) \in Nat /\ DOMAIN aggr_keys = 1..Len(aggr_keys)
      /\ Len(output_fields) \in Nat /\ DOMAIN output_fields = 1..Len(output_fields)
  BY <1>0, LenProperties DEF TypeInv
<1>2. /\ \A i \in DOMAIN all : all[i] \in Ids
      /\ \A i \in DOMAIN aggr_keys : aggr_keys[i] \in Ids /\ aggr_keys[i] \in ToSet(aggr_keys)
      /\ \A i \in DOMAIN output_fields :
            output_fields[i] \in Ids /\ output_fields[i] \in ToSet(output_fields)
  BY <1>1, ElementOfSeq DEF ToSet
<1>3. /\ ToSet(aggr_keys) \cap ToSet(output_fields) = {} /\ sort_key \notin ToSet(output_fields)
      /\ None \notin Ids
  BY <1>0, FieldsAssumption DEF FieldsConsistent, FieldsCheck
<1>4. DirLen \in Nat
  BY DEF DirLen
<1>5. ASSUME NEW id \in Ids, NEW note \in Note, NEW len \in Nat
      PROVE  /\ Heading(id, note, len) \in HeadingSet
             /\ Heading(id, note, len).of = [id |-> id, note |-> note]
  BY HeadingType
<1>6. Alike(NamesOnly, all, FALSE, aggr_keys, sort_key, output_fields)
  BY <1>1, PlainNames DEF NamesOnly
<1>7. CASE output_params.rich_header /\ aggr_keys # <<>>
  <2> DEFINE A == [i \in DOMAIN aggr_keys |->
                      IF aggr_keys[i] = sort_key THEN Heading(aggr_keys[i], "key_dir", 8 + DirLen)
                      ELSE Heading(aggr_keys[i], "key", 6)]
             B == IF sort_key = None \/ sort_key \in ToSet(aggr_keys) THEN <<>> ELSE SortHeading
             C == [i \in DOMAIN output_fields |->
                      Heading(output_fields[i], "func", 3 + FuncLen[output_fields[i]])]
             S == SortPart(aggr_keys, sort_key)
  <2>1. BatchNames = (A \o B) \o C
    BY <1>7 DEF BatchNames, NamesEnrichedAggr
  <2>2. Alike(A, aggr_keys, TRUE, aggr_keys, sort_key, output_fields)
    <3>1. ASSUME NEW i \in DOMAIN aggr_keys
          PROVE  /\ A[i] \in HeadingSet /\ A[i].of.id = aggr_keys[i]
                 /\ NoteRight(A[i].of, aggr_keys, sort_key, output_fields)
      <4>1. PICK id, note, len : /\ A[i] = Heading(id, note, len) /\ id = aggr_keys[i]
                                 /\ note = IF id = sort_key THEN "key_dir" ELSE "key"
                                 /\ len \in Nat
        BY <1>4
      <4>2. note \in Note /\ id \in Ids /\ id \in ToSet(aggr_keys) /\ id \notin ToSet(output_fields)
        BY <1>2, <1>3, <4>1 DEF Note
      <4>3. A[i] \in HeadingSet /\ A[i].of = [id |-> id, note |-> note]
        BY <1>5, <4>1, <4>2
      <4>4. NoteRight([id |-> id, note |-> note], aggr_keys, sort_key, output_fields)
        BY <4>1, <4>2 DEF NoteRight
      <4> QED
        BY <4>1, <4>3, <4>4
    <3>2. A \in Seq(HeadingSet) /\ Len(A) = Len(aggr_keys)
      <4>1. \A i \in 1..Len(aggr_keys) : A[i] \in HeadingSet
        BY <1>1, <3>1
      <4>2. DOMAIN A = 1..Len(aggr_keys)
        BY <1>1
      <4>3. A = [i \in 1..Len(aggr_keys) |-> A[i]]
        BY <4>2
      <4> HIDE DEF A
      <4> QED
        BY <1>1, <4>1, <4>2, <4>3
    <3> HIDE DEF A
    <3> QED
      BY <1>1, <3>1, <3>2 DEF Alike
  <2>3. Alike(C, output_fields, TRUE, aggr_keys, sort_key, output_fields)
    <3>1. ASSUME NEW i \in DOMAIN output_fields
          PROVE  /\ C[i] \in HeadingSet /\ C[i].of.id = output_fields[i]
                 /\ NoteRight(C[i].of, aggr_keys, sort_key, output_fields)
      <4>1. PICK id, len : /\ C[i] = Heading(id, "func", len) /\ id = output_fields[i]
                           /\ len = 3 + FuncLen[output_fields[i]]
        OBVIOUS
      <4>2. /\ id \in Ids /\ id \notin ToSet(aggr_keys) /\ id \in ToSet(output_fields) /\ id # sort_key
            /\ "func" \in Note
        BY <1>2, <1>3, <4>1 DEF Note
      <4>a. len \in Nat
        BY <4>1, <4>2, OutputAssumption
      <4>3. C[i] \in HeadingSet /\ C[i].of = [id |-> id, note |-> "func"]
        BY <1>5, <4>1, <4>2, <4>a
      <4>4. NoteRight([id |-> id, note |-> "func"], aggr_keys, sort_key, output_fields)
        BY <4>2 DEF NoteRight
      <4> QED
        BY <4>1, <4>3, <4>4
    <3>2. C \in Seq(HeadingSet) /\ Len(C) = Len(output_fields)
      <4>1. \A i \in 1..Len(output_fields) : C[i] \in HeadingSet
        BY <1>1, <3>1
      <4>2. DOMAIN C = 1..Len(output_fields)
        BY <1>1
      <4>3. C = [i \in 1..Len(output_fields) |-> C[i]]
        BY <4>2
      <4> HIDE DEF C
      <4> QED
        BY <1>1, <4>1, <4>2, <4>3
    <3> HIDE DEF C
    <3> QED
      BY <1>1, <3>1, <3>2 DEF Alike
  <2>4. Alike(B, S, TRUE, aggr_keys, sort_key, output_fields)
    <3>1. CASE sort_key = None \/ sort_key \in ToSet(aggr_keys)
      <4>1. B = <<>> /\ S = <<>>
        BY <3>1 DEF SortPart
      <4> HIDE DEF B, S
      <4> QED
        BY <4>1 DEF Alike
    <3>2. CASE ~(sort_key = None \/ sort_key \in ToSet(aggr_keys))
      <4>1. PICK h : h = Heading(sort_key, "dir", 3 + DirLen)
        OBVIOUS
      <4>2. B = <<h>> /\ S = <<sort_key>>
        BY <3>2, <4>1 DEF SortPart, SortHeading
      <4>3. h \in HeadingSet /\ h.of = [id |-> sort_key, note |-> "dir"]
        <5>1. sort_key \in Ids /\ "dir" \in Note /\ 3 + DirLen \in Nat
          BY <1>1, <1>4, <3>2 DEF Note
        <5> QED
          BY <1>5, <4>1, <5>1
      <4>4. NoteRight(h.of, aggr_keys, sort_key, output_fields)
        BY <1>3, <3>2, <4>3 DEF NoteRight
      <4>5. h.of.id = sort_key
        BY <4>3
      <4>6. Alike(<<h>>, <<sort_key>>, TRUE, aggr_keys, sort_key, output_fields)
        BY <4>3, <4>4, <4>5, AlikeOne
      <4> HIDE DEF B, S
      <4> QED
        BY <4>2, <4>6
    <3> QED
      BY <3>1, <3>2
  <2>5. S \in Seq(Ids) /\ all = (aggr_keys \o S) \o output_fields /\ aggr_keys \o S \in Seq(Ids)
    <3>1. S \in Seq(Ids)
      BY <1>0, PartsLength
    <3>2. all = (aggr_keys \o S) \o output_fields
      BY <1>0 DEF ShapeInv
    <3> HIDE DEF S
    <3> QED
      BY <1>1, <3>1, <3>2, ConcatProperties
  <2> HIDE DEF A, B, C, S
  <2>6. Alike(A \o B, aggr_keys \o S, TRUE, aggr_keys, sort_key, output_fields)
    BY <1>1, <2>2, <2>4, <2>5, AlikeConcat
  <2>7. Alike((A \o B) \o C, (aggr_keys \o S) \o output_fields, TRUE, aggr_keys, sort_key, output_fields)
    BY <1>1, <2>3, <2>5, <2>6, AlikeConcat
  <2>8. Alike(BatchNames, all, TRUE, aggr_keys, sort_key, output_fields)
    BY <2>1, <2>5, <2>7
  <2> QED
    BY <1>6, <2>8 DEF Alike
<1>8. CASE ~output_params.rich_header \/ aggr_keys = <<>>
  <2>1. (output_params.rich_header /\ working_mode = "aggr") = FALSE
    <3>1. aggr_keys = <<>> => working_mode # "aggr"
      <4> SUFFICES ASSUME aggr_keys = <<>>, working_mode = "aggr" PROVE FALSE
        OBVIOUS
      <4>1. ToSet(aggr_keys) = {}
        BY ToSetEmpty
      <4>2. opts.aggr # None
        BY <1>0 DEF ModeInv, ModeOf, WithOutput, Known
      <4>3. opts.aggr # <<>> /\ ToSet(aggr_keys) = ToSet(opts.aggr)
        BY <1>0, <4>2 DEF TokensInv, WithKeys, WithSort, WithOutput, Known
      <4>4. opts.aggr \in Seq(Token)
        BY <1>0, <4>2 DEF TypeInv, OptsType
      <4>5. Len(opts.aggr) \in Nat \ {0} /\ DOMAIN opts.aggr = 1..Len(opts.aggr)
        BY <4>3, <4>4, EmptySeq, LenProperties
      <4>6. opts.aggr[1] \in ToSet(opts.aggr)
        BY <4>5 DEF ToSet
      <4> QED
        BY <4>1, <4>3, <4>6
    <3> QED
      BY <1>0, <1>8, <3>1 DEF TypeInv, ParamsType
  <2>2. CASE ~(output_params.rich_header /\ sort_key # None)
    <3>1. BatchNames = NamesOnly
      BY <1>8, <2>2 DEF BatchNames
    <3> QED
      BY <1>6, <2>1, <3>1
  <2>3. CASE output_params.rich_header /\ sort_key # None
    <3> DEFINE C == [i \in DOMAIN output_fields |-> Heading(output_fields[i], "plain", 0)]
    <3>1. BatchNames = SortHeading \o C /\ aggr_keys = <<>>
      BY <1>8, <2>3 DEF BatchNames, NamesEnrichedSort
    <3>2. Alike(C, output_fields, FALSE, aggr_keys, sort_key, output_fields)
      BY <1>1, PlainNames
    <3> HIDE DEF C
    <3>3. PICK h : h = Heading(sort_key, "dir", 3 + DirLen)
      OBVIOUS
    <3>4. h \in HeadingSet /\ h.of = [id |-> sort_key, note |-> "dir"] /\ <<sort_key>> \in Seq(Ids)
      <4>1. sort_key \in Ids /\ "dir" \in Note /\ 3 + DirLen \in Nat
        BY <1>1, <1>4, <2>3 DEF Note
      <4> QED
        BY <1>5, <3>3, <4>1
    <3>a. h.of.id = sort_key
      BY <3>4
    <3>5. Alike(<<h>>, <<sort_key>>, FALSE, aggr_keys, sort_key, output_fields)
      BY <3>4, <3>a, AlikeOne
    <3>6. Alike(<<h>> \o C, <<sort_key>> \o output_fields, FALSE, aggr_keys, sort_key, output_fields)
      BY <1>1, <3>2, <3>4, <3>5, AlikeConcat
    <3>7. all = <<sort_key>> \o output_fields
      <4>1. SortPart(aggr_keys, sort_key) = <<sort_key>>
        BY <2>3, <3>1, ToSetEmpty DEF SortPart
      <4>2. <<>> \o <<sort_key>> = <<sort_key>>
        BY <3>4, ConcatEmptySeq
      <4> QED
        BY <1>0, <3>1, <4>1, <4>2 DEF ShapeInv
    <3> QED
      BY <1>6, <2>1, <3>1, <3>3, <3>6, <3>7 DEF SortHeading
  <2> QED
    BY <2>2, <2>3
<1> QED
  BY <1>7, <1>8

----------------------------------------------------------------------------
(* Lines.                                                                  *)

\* Where columns are to be straight.
Straight == format = "pretty" /\ (working_mode # "list" \/ output_params.ellipsize)

IsSeq(s) == \E S : s \in Seq(S)

\* A function on the first numbers is a sequence.
LEMMA FunctionIsSeq ==
    ASSUME NEW n \in Nat, NEW f, DOMAIN f = 1..n, f = [i \in 1..n |-> f[i]]
    PROVE  IsSeq(f) /\ Len(f) = n
<1>1. PICK S : S = {f[i] : i \in 1..n}
  OBVIOUS
<1>2. \A i \in 1..n : f[i] \in S
  BY <1>1
<1>3. f \in [1..n -> S]
  BY <1>2
<1>4. f \in Seq(S)
  BY <1>3
<1>5. Len(f) = n
  BY <1>3, <1>4
<1> QED
  BY <1>4, <1>5 DEF IsSeq

\* Appending to a sequence.
LEMMA AppendAny ==
    ASSUME NEW s, IsSeq(s), NEW e
    PROVE  /\ IsSeq(Append(s, e)) /\ Append(s, e) # <<>>
           /\ Len(s) \in Nat /\ DOMAIN s = 1..Len(s)
           /\ Len(Append(s, e)) = Len(s) + 1 /\ DOMAIN Append(s, e) = 1..(Len(s) + 1)
           /\ \A i \in 1..Len(s) : Append(s, e)[i] = s[i]
           /\ Append(s, e)[Len(s) + 1] = e
<1>1. PICK T : s \in Seq(T)
  BY DEF IsSeq
<1>2. PICK S : S = T \cup {e}
  OBVIOUS
<1>3. s \in Seq(S) /\ e \in S
  BY <1>1, <1>2, SeqMonotonic
<1>4. /\ Append(s, e) \in Seq(S) /\ Append(s, e) # <<>>
      /\ Len(Append(s, e)) = Len(s) + 1
      /\ \A i \in 1..Len(s) : Append(s, e)[i] = s[i]
      /\ Append(s, e)[Len(s) + 1] = e
  BY <1>3, AppendProperties
<1>5. /\ Len(s) \in Nat /\ DOMAIN s = 1..Len(s)
      /\ DOMAIN Append(s, e) = 1..Len(Append(s, e))
  BY <1>3, <1>4, LenProperties
<1> QED
  BY <1>4, <1>5 DEF IsSeq

\* Texts for the columns; where columns are to be straight they fit or may be cut.
TextsFor(texts, widths) ==
    /\ DOMAIN texts = DOMAIN all /\ Len(texts) = Len(all)
    /\ \A i \in DOMAIN all : texts[i].len \in Nat /\ widths[i] \in Nat
    /\ Straight => \A i \in DOMAIN all : output_params.ellipsize \/ texts[i].len <= widths[i]

\* A line of these texts: the cells stand for what the texts stand for and, where
\* columns are to be straight, fill their columns, but for the last one.
IsLine(line, kind, texts, widths) ==
    /\ line.kind = kind
    /\ Len(line.cells) = Len(all)
    /\ DOMAIN line.cells = DOMAIN all
    /\ \A i \in DOMAIN all :
          /\ line.cells[i].of = texts[i].of
          /\ Straight /\ i < Len(all) =>
                line.cells[i].print.width = widths[i] + PROTECTIVE_PADDING

\* A line has one cell for each text, and where columns are to be straight every
\* cell but the last fills its column.
LEMMA LineGood ==
    ASSUME all \in Seq(Ids), NEW kind, NEW texts, NEW widths, TextsFor(texts, widths)
    PROVE  IsLine(Line(kind, texts, widths), kind, texts, widths)
<1>0. Len(all) \in Nat /\ DOMAIN all = 1..Len(all)
  BY LenProperties
<1>1. PICK c : c = Line(kind, texts, widths).cells
  OBVIOUS
<1>2. /\ DOMAIN c = DOMAIN all /\ c = [i \in DOMAIN all |-> c[i]]
      /\ \A i \in DOMAIN all :
            /\ c[i].of = texts[i].of
            /\ c[i].print = PrintField(texts[i].len, widths[i], RightAligned(ToStr(all[i])), i = Len(all))
  BY <1>1 DEF Line, TextsFor
<1>3. Len(c) = Len(all)
  BY <1>0, <1>2, FunctionIsSeq
<1>4. ASSUME NEW i \in DOMAIN all, Straight, i < Len(all)
      PROVE  c[i].print.width = widths[i] + PROTECTIVE_PADDING
  <2>1. (i = Len(all)) = FALSE
    BY <1>0, <1>4
  <2>2. RightAligned(ToStr(all[i])) \in BOOLEAN
    BY DEF RightAligned
  <2>3. PICK len, width, right : /\ len = texts[i].len /\ width = widths[i]
                                 /\ right = RightAligned(ToStr(all[i]))
    OBVIOUS
  <2>4. c[i].print = PrintField(len, width, right, FALSE)
    BY <1>2, <2>1, <2>3
  <2>5. len \in Nat /\ width \in Nat /\ right \in BOOLEAN
    BY <2>2, <2>3 DEF TextsFor
  <2>6. format = "pretty" /\ (output_params.ellipsize \/ len <= width)
    BY <1>4, <2>3 DEF Straight, TextsFor
  <2>7. PrintField(len, width, right, FALSE).width = width + PROTECTIVE_PADDING
    BY <2>5, <2>6, CellFills
  <2> QED
    BY <2>3, <2>4, <2>7
<1>5. Line(kind, texts, widths).kind = kind
  BY DEF Line
<1> QED
  BY <1>1, <1>2, <1>3, <1>4, <1>5 DEF IsLine

\* A list of numbers, and the numbers that are in it or are the given one.
AreNumbers(f, n) == \A r \in 1..n : f[r] \in Nat
Collects(T, w, f, n) == \A y : y \in T <=> y = w \/ \E r \in 1..n : y = f[r]
NoneGreater(m, f, n) == \A r \in 1..n : f[r] <= m

\* They have a greatest one.
LEMMA MaxOfMany ==
    ASSUME NEW w \in Nat, NEW n \in Nat, NEW f, AreNumbers(f, n), NEW T, Collects(T, w, f, n)
    PROVE  Max(T) \in Nat /\ w <= Max(T) /\ NoneGreater(Max(T), f, n)
<1>0. \A r \in 1..n : f[r] \in Nat
  BY DEF AreNumbers
<1>1. PICK s : s = SumOver(f, 1..n)
  OBVIOUS
<1>2. IsFiniteSet(1..n) /\ \A r \in 1..n : f[r] \in Int
  BY <1>0, RangeFinite
<1>3. s \in Nat
  BY <1>0, <1>1, <1>2, SumNat
<1>4. \A r \in 1..n : f[r] <= s
  <2> TAKE r \in 1..n
  <2>1. SumOver(f, 1..n) = f[r] + SumOver(f, (1..n) \ {r})
    BY <1>2, SumRemove
  <2>2. IsFiniteSet((1..n) \ {r})
    BY <1>2, FS_Subset
  <2>3. SumOver(f, (1..n) \ {r}) \in Nat
    BY <1>0, <2>2, SumNat
  <2> QED
    BY <1>0, <1>1, <2>1, <2>3
<1>5. PICK b : b = s + w
  OBVIOUS
<1>6. b \in Nat /\ w \in 0..b /\ \A r \in 1..n : f[r] \in 0..b
  BY <1>0, <1>3, <1>4, <1>5
<1>7. T \in SUBSET (0..b) /\ T # {} /\ w \in T /\ \A r \in 1..n : f[r] \in T
  BY <1>6 DEF Collects
<1>8. PICK m : m = Max(T)
  OBVIOUS
<1>9. m \in T /\ \A y \in T : m >= y
  BY <1>6, <1>7, <1>8, MaxIn
<1>10. m \in Nat /\ \A y \in T : y \in Nat
  BY <1>6, <1>7, <1>9
<1>11. \A y \in T : y <= m
  BY <1>9, <1>10
<1> QED
  BY <1>7, <1>8, <1>10, <1>11 DEF NoneGreater

\* The text of a field of a record has a length.
LEMMA FieldStrType ==
    ASSUME table \in Tables, NEW r \in DOMAIN table, NEW id \in Ids
    PROVE  /\ FieldStr(table[r], id).of = id
           /\ FieldStr(table[r], id).len \in Nat
           /\ StrLen(ToStr(id), table[r][id].val) \in Nat
<1>1. PICK v : v = table[r][id].val
  OBVIOUS
<1>2. IsValue(ToStr(id), v)
  BY <1>1, ValuesAssumption DEF IsValue
<1>3. StrLen(ToStr(id), v) \in Nat
  BY <1>2, StrLenType
<1> QED
  BY <1>1, <1>3 DEF FieldStr

\* Records are printed up to the limit, and there are so many of them.
LEMMA BatchLimitType ==
    ASSUME rec_limit \in Nat, table \in Tables
    PROVE  /\ BatchLimit \in Nat /\ Len(table) \in Nat
           /\ 1..BatchLimit \subseteq DOMAIN table /\ DOMAIN table = 1..Len(table)
<1>1. Len(table) \in Nat /\ DOMAIN table = 1..Len(table)
  BY OutputAssumption
<1>2. \E x \in {rec_limit, Len(table)} : \A y \in {rec_limit, Len(table)} : x <= y
  BY <1>1
<1>3. /\ Min({rec_limit, Len(table)}) \in {rec_limit, Len(table)}
      /\ Min({rec_limit, Len(table)}) <= Len(table)
  BY <1>2 DEF Min
<1>4. BatchLimit \in Nat /\ BatchLimit <= Len(table)
  BY <1>1, <1>3 DEF BatchLimit
<1> QED
  BY <1>1, <1>4

\* Widths for the columns.
AreWidths(w) == DOMAIN w = DOMAIN all /\ \A i \in DOMAIN all : w[i] \in Nat

\* The texts of the records to be printed fit into their columns.
FitsIn(w) ==
    \A i \in DOMAIN all : \A r \in 1..BatchLimit : FieldStr(table[r], all[i]).len <= w[i]

\* The exact widths are wide enough for all records that will be printed.
LEMMA ExactWide ==
    ASSUME rec_limit \in Nat, table \in Tables, all \in Seq(Ids), NEW w, AreWidths(w)
    PROVE  /\ AreWidths(ExactWidths(w)) /\ FitsIn(ExactWidths(w))
           /\ \A i \in DOMAIN all : w[i] <= ExactWidths(w)[i]
<1>1. PICK n : n = BatchLimit
  OBVIOUS
<1>2. n \in Nat /\ 1..n \subseteq DOMAIN table
  BY <1>1, BatchLimitType
<1>3. ASSUME NEW i \in DOMAIN all
      PROVE  /\ ExactWidths(w)[i] \in Nat /\ w[i] <= ExactWidths(w)[i]
             /\ \A r \in 1..n : FieldStr(table[r], all[i]).len <= ExactWidths(w)[i]
  <2>1. PICK f, v : f = [r \in 1..n |-> FieldStr(table[r], all[i]).len] /\ v = w[i]
    OBVIOUS
  <2>2. all[i] \in Ids
    BY ElementOfSeq, LenProperties
  <2>3. v \in Nat /\ \A r \in 1..n : f[r] \in Nat
    BY <1>2, <2>1, <2>2, FieldStrType DEF AreWidths
  <2>4. PICK T : T = {v} \cup {f[r] : r \in 1..n}
    OBVIOUS
  <2>5. Max(T) \in Nat /\ v <= Max(T) /\ NoneGreater(Max(T), f, n)
    <3>1. Collects(T, v, f, n)
      BY <2>4 DEF Collects
    <3>2. n \in Nat /\ v \in Nat /\ AreNumbers(f, n)
      BY <1>2, <2>3 DEF AreNumbers
    <3> QED
      BY <3>1, <3>2, MaxOfMany
  <2>6. {f[r] : r \in 1..n} = {FieldStr(table[r], all[i]).len : r \in 1..n}
    BY <2>1
  <2>7. ExactWidths(w)[i] = Max(T)
    BY <1>1, <2>1, <2>4, <2>6 DEF ExactWidths, AreWidths
  <2> QED
    BY <2>1, <2>5, <2>7 DEF NoneGreater
<1>4. DOMAIN ExactWidths(w) = DOMAIN all
  BY DEF ExactWidths, AreWidths
<1> QED
  BY <1>1, <1>3, <1>4 DEF AreWidths, FitsIn

\* Names only ever widen columns, and fit into them.
LEMMA WidenedWide ==
    ASSUME NEW w, AreWidths(w), NEW names, \A i \in DOMAIN all : names[i].len \in Nat
    PROVE  /\ AreWidths(Widened(w, names))
           /\ \A i \in DOMAIN all : /\ names[i].len <= Widened(w, names)[i]
                                    /\ w[i] <= Widened(w, names)[i]
<1>1. ASSUME NEW i \in DOMAIN all
      PROVE  /\ Widened(w, names)[i] \in Nat
             /\ names[i].len <= Widened(w, names)[i] /\ w[i] <= Widened(w, names)[i]
  <2>1. PICK a, b : a = w[i] /\ b = names[i].len
    OBVIOUS
  <2>2. a \in Nat /\ b \in Nat
    BY <2>1 DEF AreWidths
  <2>3. Max({a, b}) \in Nat /\ Max({a, b}) >= a /\ Max({a, b}) >= b
    BY <2>2, MaxOfTwo
  <2>4. Widened(w, names)[i] = Max({a, b})
    BY <2>1 DEF Widened, AreWidths
  <2> QED
    BY <2>1, <2>2, <2>3, <2>4
<1>2. DOMAIN Widened(w, names) = DOMAIN all
  BY DEF Widened, AreWidths
<1> QED
  BY <1>1, <1>2 DEF AreWidths

----------------------------------------------------------------------------
(* Items and the empty lines between them.                                 *)

Begins(line) == line.kind \in {"header", "processed", "metadata"}

Separated(s) ==
    \A l \in DOMAIN s :
        /\ l > 1 => (Begins(s[l]) <=> s[l - 1].kind = "blank")
        /\ s[l].kind = "blank" => l \in 2..(Len(s) - 1)

\* What an item prints in front of its own line.
LEMMA ItemLines ==
    ASSUME NEW s, IsSeq(s), NEW e
    PROVE  /\ (s \o <<>>) \o <<e>> = Append(s, e)
           /\ (s \o <<Blank>>) \o <<e>> = Append(Append(s, Blank), e)
<1>1. PICK T : s \in Seq(T)
  BY DEF IsSeq
<1>2. PICK S : S = T \cup {e, Blank}
  OBVIOUS
<1>3. s \in Seq(S) /\ e \in S /\ Blank \in S
  BY <1>1, <1>2, SeqMonotonic
<1>4. s \o <<>> = s
  BY <1>3, ConcatEmptySeq
<1>5. s \o <<e>> = Append(s, e) /\ s \o <<Blank>> = Append(s, Blank)
  BY <1>3, AppendIsConcat
<1>6. Append(s, Blank) \in Seq(S)
  BY <1>3, AppendProperties
<1>7. Append(s, Blank) \o <<e>> = Append(Append(s, Blank), e)
  BY <1>3, <1>6, AppendIsConcat
<1> QED
  BY <1>4, <1>5, <1>7

\* A record follows something that is not an empty line.
LEMMA SeparatedRow ==
    ASSUME NEW s, IsSeq(s), s # <<>>, Separated(s), NEW e, e.kind = "row"
    PROVE  Separated(Append(s, e))
<1>1. PICK n, a : n = Len(s) /\ a = Append(s, e)
  OBVIOUS
<1>2. /\ n \in Nat /\ DOMAIN s = 1..n /\ Len(a) = n + 1 /\ DOMAIN a = 1..(n + 1)
      /\ \A i \in 1..n : a[i] = s[i]
      /\ a[n + 1] = e
  BY <1>1, AppendAny
<1>3. ~Begins(e) /\ e.kind # "blank"
  BY DEF Begins
<1>4. n # 0
  BY <1>1, EmptySeq DEF IsSeq
<1>5. s[n].kind # "blank"
  BY <1>1, <1>2, <1>4 DEF Separated
<1>6. ASSUME NEW l \in 1..(n + 1)
      PROVE  /\ l > 1 => (Begins(a[l]) <=> a[l - 1].kind = "blank")
             /\ a[l].kind = "blank" => l \in 2..n
  <2>1. CASE l = n + 1
    BY <1>2, <1>3, <1>4, <1>5, <2>1
  <2>2. CASE l # n + 1
    <3>1. l \in 1..n /\ (l > 1 => l - 1 \in 1..n)
      BY <1>2, <2>2
    <3>2. /\ l > 1 => (Begins(s[l]) <=> s[l - 1].kind = "blank")
          /\ s[l].kind = "blank" => l \in 2..(n - 1)
      BY <1>1, <1>2, <3>1 DEF Separated
    <3>3. a[l] = s[l] /\ (l > 1 => a[l - 1] = s[l - 1])
      BY <1>2, <3>1
    <3> QED
      BY <1>2, <3>1, <3>2, <3>3
  <2> QED
    BY <2>1, <2>2
<1>7. Separated(a)
  BY <1>2, <1>6 DEF Separated
<1> QED
  BY <1>1, <1>7

\* An item behind others follows exactly one empty line.
LEMMA SeparatedItem ==
    ASSUME NEW s, IsSeq(s), s # <<>>, Separated(s), NEW e, Begins(e)
    PROVE  Separated(Append(Append(s, Blank), e))
<1>1. PICK n, b, a : n = Len(s) /\ b = Append(s, Blank) /\ a = Append(b, e)
  OBVIOUS
<1>2. /\ n \in Nat /\ DOMAIN s = 1..n /\ Len(b) = n + 1
      /\ \A i \in 1..n : b[i] = s[i]
      /\ b[n + 1] = Blank /\ IsSeq(b)
  BY <1>1, AppendAny
<1>3. /\ Len(a) = n + 2 /\ DOMAIN a = 1..(n + 2)
      /\ \A i \in 1..(n + 1) : a[i] = b[i]
      /\ a[n + 2] = e
  BY <1>1, <1>2, AppendAny
<1>4. /\ a[n + 1] = Blank /\ \A i \in 1..n : a[i] = s[i]
  BY <1>2, <1>3
<1>5. e.kind # "blank" /\ Blank.kind = "blank" /\ ~Begins(Blank)
  BY DEF Begins, Blank
<1>6. n # 0
  BY <1>1, EmptySeq DEF IsSeq
<1>7. s[n].kind # "blank"
  BY <1>1, <1>2, <1>6 DEF Separated
<1>8. ASSUME NEW l \in 1..(n + 2)
      PROVE  /\ l > 1 => (Begins(a[l]) <=> a[l - 1].kind = "blank")
             /\ a[l].kind = "blank" => l \in 2..(n + 1)
  <2>1. CASE l = n + 2
    <3>1. l - 1 = n + 1
      BY <1>2, <2>1
    <3> QED
      BY <1>2, <1>3, <1>4, <1>5, <2>1, <3>1
  <2>2. CASE l = n + 1
    <3>1. l - 1 = n /\ n \in 1..n /\ l \in 2..(n + 1)
      BY <1>2, <1>6, <2>2
    <3> QED
      BY <1>2, <1>4, <1>5, <1>7, <2>2, <3>1
  <2>3. CASE l \in 1..n
    <3>1. l > 1 => l - 1 \in 1..n
      BY <1>2, <2>3
    <3>2. /\ l > 1 => (Begins(s[l]) <=> s[l - 1].kind = "blank")
          /\ s[l].kind = "blank" => l \in 2..(n - 1)
      BY <1>1, <1>2, <2>3 DEF Separated
    <3>3. a[l] = s[l] /\ (l > 1 => a[l - 1] = s[l - 1])
      BY <1>4, <2>3, <3>1
    <3> QED
      BY <1>2, <2>3, <3>2, <3>3
  <2> QED
    BY <1>2, <2>1, <2>2, <2>3
<1>9. Separated(a)
  BY <1>2, <1>3, <1>8 DEF Separated
<1> QED
  BY <1>1, <1>9

\* The first item begins without an empty line.
LEMMA SeparatedFirst ==
    ASSUME NEW e, Begins(e)
    PROVE  Separated(Append(<<>>, e))
<1>1. IsSeq(<<>>) /\ Len(<<>>) = 0
  <2>1. <<>> \in Seq({}) /\ Len(<<>>) = 0
    OBVIOUS
  <2> QED
    BY <2>1 DEF IsSeq
<1>2. PICK a : a = Append(<<>>, e)
  OBVIOUS
<1>3. DOMAIN a = 1..1 /\ a[1] = e
  BY <1>1, <1>2, AppendAny
<1>4. e.kind # "blank"
  BY DEF Begins
<1>5. Separated(a)
  BY <1>3, <1>4 DEF Separated
<1> QED
  BY <1>2, <1>5

----------------------------------------------------------------------------
(* The inductive invariant of the output.                                  *)

\* The course of printing: only a command line that has been accepted prints, the
\* first item is still to come as long as nothing is printed, and records are only
\* printed behind their header.
CourseInv ==
    /\ opc \in {"off", "names", "rows", "processed", "metadata", "done"}
    /\ opc # "off" => pc = "running"
    /\ row \in Nat
    /\ IsSeq(lines)
    /\ first_item \in BOOLEAN
    /\ opc \in {"off", "names"} => lines = <<>> /\ row = 0
    /\ opc # "off" => (first_item <=> lines = <<>>)
    /\ opc = "rows" /\ output_params.items["records"] = "yes" => lines # <<>>

\* While there are records to print every column has a width, and once the header
\* is out it is the final one: in batch mode no record that is still to come is
\* too wide, unless it may be cut.
WidthInv ==
    opc \in {"names", "rows"} =>
        /\ working_mode \in {"list", "sort", "aggr"}
        /\ table \in Tables
        /\ AreWidths(column_width)
        /\ opc = "rows" /\ output_params.items["records"] = "yes"
              /\ working_mode # "list" /\ ~output_params.ellipsize => FitsIn(column_width)

\* A line of the table fills the columns.
Filled(cells) ==
    /\ Len(cells) = Len(all)
    /\ DOMAIN cells = DOMAIN all
    /\ Straight => \A i \in DOMAIN all :
          i < Len(all) => cells[i].print.width = column_width[i] + PROTECTIVE_PADDING

HeadingOf(n, id) ==
    /\ n.id = id
    /\ output_params.rich_header /\ working_mode = "aggr" =>
          NoteRight(n, aggr_keys, sort_key, output_fields)

\* Every line is as it should be, for the widths the columns have.
GoodLine(line) ==
    /\ line.kind \in {"header", "row", "blank", "processed", "metadata"}
    /\ line.kind \in {"header", "row"} => Filled(line.cells)
    /\ line.kind = "header" => \A i \in DOMAIN all : HeadingOf(line.cells[i].of, all[i])
    /\ line.kind = "row" => \A i \in DOMAIN all : line.cells[i].of = all[i]

LinesInv == \A l \in DOMAIN lines : GoodLine(lines[l])

SeparatedInv == Separated(lines)

OutputInv == CourseInv /\ WidthInv /\ LinesInv /\ SeparatedInv

\* What the lines are compared with.
layoutVars == <<output_params, working_mode, all, aggr_keys, sort_key, output_fields>>

\* A good line stays good as long as the columns stay what they are.
LEMMA GoodLineStable ==
    ASSUME NEW line, UNCHANGED <<layoutVars, column_width>>
    PROVE  GoodLine(line)' <=> GoodLine(line)
<1>1. Straight' <=> Straight
  BY DEF layoutVars, Straight, format
<1>2. \A cells : Filled(cells)' <=> Filled(cells)
  BY <1>1 DEF layoutVars, Filled
<1>3. \A n, id : HeadingOf(n, id)' <=> HeadingOf(n, id)
  BY DEF layoutVars, HeadingOf
<1> QED
  BY <1>2, <1>3 DEF layoutVars, GoodLine

\* Nothing is printed, and nothing changes that the lines depend on.
LEMMA LinesKept ==
    ASSUME LinesInv, SeparatedInv, UNCHANGED <<layoutVars, column_width, lines>>
    PROVE  LinesInv' /\ SeparatedInv'
  BY GoodLineStable DEF LinesInv, SeparatedInv

\* The texts fit exactly as before.
LEMMA FitsStable ==
    ASSUME NEW w, UNCHANGED <<output_params, rec_limit, table, all>>
    PROVE  /\ AreWidths(w)' <=> AreWidths(w)
           /\ FitsIn(w)' <=> FitsIn(w)
<1>1. BatchLimit' = BatchLimit
  BY DEF BatchLimit
<1>2. \A r, i : FieldStr(table[r], all[i])' = FieldStr(table[r], all[i])
  <2> TAKE r, i
  <2>1. PICK record, id : record = table[r] /\ id = all[i]
    OBVIOUS
  <2>2. FieldStr(record, id)' = FieldStr(record, id)
    BY FieldStrStable
  <2> QED
    BY <2>1, <2>2
<1> QED
  BY <1>1, <1>2 DEF AreWidths, FitsIn

\* An item puts one good line behind what is there.
LEMMA ItemGood ==
    ASSUME CourseInv, opc # "off", SeparatedInv, NEW e, Begins(e), Item(<<e>>)
    PROVE  /\ IsSeq(lines') /\ lines' # <<>>
           /\ Separated(lines')
           /\ \A l \in DOMAIN lines' : \/ lines'[l] = e \/ lines'[l] = Blank
                                       \/ l \in DOMAIN lines /\ lines'[l] = lines[l]
<1>1. IsSeq(lines) /\ (first_item <=> lines = <<>>) /\ first_item \in BOOLEAN
  BY DEF CourseInv
<1>2. CASE first_item
  <2>1. lines = <<>>
    BY <1>1, <1>2
  <2>2. lines' = Append(lines, e)
    BY <1>1, <1>2, ItemLines DEF Item
  <2>3. Separated(lines')
    BY <2>1, <2>2, SeparatedFirst
  <2>4. /\ IsSeq(lines') /\ lines' # <<>> /\ DOMAIN lines = 1..Len(lines) /\ Len(lines) \in Nat
        /\ DOMAIN lines' = 1..(Len(lines) + 1)
        /\ \A i \in 1..Len(lines) : lines'[i] = lines[i]
        /\ lines'[Len(lines) + 1] = e
    BY <1>1, <2>2, AppendAny
  <2> QED
    BY <2>3, <2>4
<1>3. CASE ~first_item
  <2>1. lines # <<>>
    BY <1>1, <1>3
  <2>2. lines' = Append(Append(lines, Blank), e)
    BY <1>1, <1>3, ItemLines DEF Item
  <2>3. Separated(lines')
    BY <1>1, <2>1, <2>2, SeparatedItem DEF SeparatedInv
  <2>4. PICK b, n : b = Append(lines, Blank) /\ n = Len(lines)
    OBVIOUS
  <2>5. /\ IsSeq(b) /\ DOMAIN lines = 1..n /\ n \in Nat /\ Len(b) = n + 1
        /\ \A i \in 1..n : b[i] = lines[i]
        /\ b[n + 1] = Blank
    BY <1>1, <2>4, AppendAny
  <2>6. /\ IsSeq(lines') /\ lines' # <<>> /\ DOMAIN lines' = 1..(n + 2)
        /\ \A i \in 1..(n + 1) : lines'[i] = b[i]
        /\ lines'[n + 2] = e
    BY <2>2, <2>4, <2>5, AppendAny
  <2>7. ASSUME NEW l \in DOMAIN lines'
        PROVE  \/ lines'[l] = e \/ lines'[l] = Blank
               \/ l \in DOMAIN lines /\ lines'[l] = lines[l]
    <3>1. l = n + 2 \/ l = n + 1 \/ l \in 1..n
      BY <2>5, <2>6
    <3> QED
      BY <2>5, <2>6, <3>1
  <2> QED
    BY <2>3, <2>6, <2>7
<1> QED
  BY <1>1, <1>2, <1>3

----------------------------------------------------------------------------
(* Headers and records are good lines.                                     *)

\* What is known when the command line has been accepted.
LEMMA WhenRunning ==
    ASSUME FieldsInv, pc = "running"
    PROVE  /\ all \in Seq(Ids) /\ Len(all) \in Nat /\ DOMAIN all = 1..Len(all)
           /\ \A i \in DOMAIN all : all[i] \in Ids
           /\ rec_limit \in Nat
           /\ working_mode \in {"list", "sort", "aggr", "meta"}
           /\ output_params.ellipsize \in BOOLEAN
<1>1. TypeInv /\ LimitInv /\ ModeInv
  BY DEF FieldsInv
<1>2. all \in Seq(Ids) /\ Len(all) \in Nat /\ DOMAIN all = 1..Len(all)
  BY <1>1, LenProperties DEF TypeInv
<1>3. \A i \in DOMAIN all : all[i] \in Ids
  BY <1>2, ElementOfSeq
<1>4. rec_limit \in Nat
  <2>1. rec_limit = IF opts.limit = None THEN 0 ELSE opts.limit
    BY <1>1 DEF LimitInv, WithOutput, Known
  <2>2. rec_limit \in Nat \cup {None}
    BY <1>1 DEF TypeInv
  <2>3. None \notin Nat
    BY FieldsAssumption
  <2> QED
    BY <2>1, <2>2, <2>3
<1>5. working_mode \in {"list", "sort", "aggr", "meta"}
  BY <1>1 DEF ModeInv, WithOutput, Known, ModeOf
<1>6. output_params.ellipsize \in BOOLEAN
  BY <1>1 DEF TypeInv, ParamsType
<1> QED
  BY <1>2, <1>3, <1>4, <1>5, <1>6

AreHeadings(names) ==
    /\ Len(names) = Len(all) /\ DOMAIN names = DOMAIN all
    /\ \A i \in DOMAIN all : names[i].len \in Nat /\ HeadingOf(names[i].of, all[i])

\* The names that are printed are those of the columns.
LEMMA HeadingsRight ==
    ASSUME FieldsInv, pc = "running"
    PROVE  /\ working_mode = "list" => AreHeadings(NamesOnly)
           /\ AreHeadings(BatchNames)
<1>1. Len(all) \in Nat /\ DOMAIN all = 1..Len(all)
  BY WhenRunning
<1>2. /\ Alike(NamesOnly, all, FALSE, aggr_keys, sort_key, output_fields)
      /\ Alike(BatchNames, all, output_params.rich_header /\ working_mode = "aggr",
               aggr_keys, sort_key, output_fields)
  BY NamesRight
<1>3. ASSUME NEW names \in Seq(HeadingSet), Len(names) = Len(all)
      PROVE  DOMAIN names = DOMAIN all /\ \A i \in DOMAIN all : names[i].len \in Nat
  <2>1. DOMAIN names = 1..Len(names) /\ \A i \in 1..Len(names) : names[i] \in HeadingSet
    BY ElementOfSeq, LenProperties
  <2> QED
    BY <1>1, <1>3, <2>1 DEF HeadingSet
<1>4. ASSUME working_mode = "list" PROVE AreHeadings(NamesOnly)
  <2>1. PICK names : names = NamesOnly
    OBVIOUS
  <2>2. /\ names \in Seq(HeadingSet) /\ Len(names) = Len(all)
        /\ \A i \in DOMAIN all : names[i].of.id = all[i]
    BY <1>1, <1>2, <2>1 DEF Alike
  <2>3. DOMAIN names = DOMAIN all /\ \A i \in DOMAIN all : names[i].len \in Nat
    BY <1>3, <2>2
  <2> QED
    BY <1>4, <2>1, <2>2, <2>3 DEF AreHeadings, HeadingOf
<1>5. AreHeadings(BatchNames)
  <2>1. PICK names : names = BatchNames
    OBVIOUS
  <2>2. /\ names \in Seq(HeadingSet) /\ Len(names) = Len(all)
        /\ \A i \in DOMAIN all : HeadingOf(names[i].of, all[i])
    BY <1>1, <1>2, <2>1 DEF Alike, HeadingOf
  <2>3. DOMAIN names = DOMAIN all /\ \A i \in DOMAIN all : names[i].len \in Nat
    BY <1>3, <2>2
  <2> QED
    BY <2>1, <2>2, <2>3 DEF AreHeadings
<1> QED
  BY <1>4, <1>5

\* A header whose names fit into the columns is a good line, for the widths it is
\* printed with.
LEMMA HeaderGood ==
    ASSUME FieldsInv, pc = "running", NEW names, AreHeadings(names), AreWidths(column_width)',
           \A i \in DOMAIN all : names[i].len <= column_width'[i], UNCHANGED layoutVars,
           NEW line, line = Line("header", names, column_width')
    PROVE  GoodLine(line)' /\ Begins(line)
<1>1. all \in Seq(Ids)
  BY WhenRunning
<1>2. PICK w : w = column_width'
  OBVIOUS
<1>3. line = Line("header", names, w)
  BY <1>2
<1>4. DOMAIN w = DOMAIN all /\ \A i \in DOMAIN all : w[i] \in Nat
  BY <1>2 DEF AreWidths, layoutVars
<1>5. TextsFor(names, w)
  BY <1>2, <1>4 DEF AreHeadings, TextsFor
<1>6. /\ line.kind = "header"
      /\ Len(line.cells) = Len(all)
      /\ DOMAIN line.cells = DOMAIN all
      /\ \A i \in DOMAIN all :
            /\ line.cells[i].of = names[i].of
            /\ Straight /\ i < Len(all) =>
                  line.cells[i].print.width = w[i] + PROTECTIVE_PADDING
  BY <1>1, <1>3, <1>5, LineGood DEF IsLine
<1>7. Straight' <=> Straight
  BY DEF layoutVars, Straight, format
<1>8. Filled(line.cells)'
  BY <1>2, <1>6, <1>7 DEF Filled, layoutVars
<1>9. \A i \in DOMAIN all : HeadingOf(line.cells[i].of, all[i])'
  <2>1. \A i \in DOMAIN all : HeadingOf(line.cells[i].of, all[i])
    BY <1>6 DEF AreHeadings
  <2> QED
    BY <2>1 DEF HeadingOf, layoutVars
<1>10. GoodLine(line)'
  BY <1>6, <1>8, <1>9 DEF GoodLine, layoutVars
<1> QED
  BY <1>6, <1>10 DEF Begins

\* A record that is printed is a good line: one printed from a stream, whatever
\* its width, and one of a batch, because its width has been looked at if it may
\* not be cut.
LEMMA RowGood ==
    ASSUME FieldsInv, CourseInv, WidthInv, opc = "rows", output_params.items["records"] = "yes",
           row < (IF working_mode = "list" THEN Len(table) ELSE BatchLimit),
           NEW texts,
           texts = [i \in DOMAIN all |->
                       IF working_mode = "list" THEN StreamStr(table[row + 1], i)
                       ELSE FieldStr(table[row + 1], all[i])]
    PROVE  /\ GoodLine(Line("row", texts, column_width))
           /\ Line("row", texts, column_width).kind = "row"
<1>1. /\ all \in Seq(Ids) /\ Len(all) \in Nat /\ DOMAIN all = 1..Len(all)
      /\ \A i \in DOMAIN all : all[i] \in Ids
      /\ rec_limit \in Nat
  BY WhenRunning DEF CourseInv
<1>2. /\ row \in Nat /\ table \in Tables
      /\ \A i \in DOMAIN all : column_width[i] \in Nat
      /\ working_mode # "list" /\ ~output_params.ellipsize => FitsIn(column_width)
  BY DEF CourseInv, WidthInv, AreWidths
<1>3. /\ BatchLimit \in Nat /\ Len(table) \in Nat
      /\ 1..BatchLimit \subseteq DOMAIN table /\ DOMAIN table = 1..Len(table)
  BY <1>1, <1>2, BatchLimitType
<1>4. PICK r : r = row + 1
  OBVIOUS
<1>5. r \in DOMAIN table /\ (working_mode # "list" => r \in 1..BatchLimit)
  BY <1>2, <1>3, <1>4
<1>6. ASSUME NEW i \in DOMAIN all
      PROVE  /\ texts[i].of = all[i] /\ texts[i].len \in Nat
             /\ Straight => output_params.ellipsize \/ texts[i].len <= column_width[i]
  <2>1. PICK id, record : id = all[i] /\ record = table[r]
    OBVIOUS
  <2>2. id \in Ids
    BY <1>1, <2>1
  <2>3. /\ FieldStr(table[r], id).of = id /\ FieldStr(table[r], id).len \in Nat
        /\ StrLen(ToStr(id), table[r][id].val) \in Nat
    BY <1>2, <1>5, <2>2, FieldStrType
  <2>4. CASE working_mode = "list"
    <3>1. texts[i] = StreamStr(record, i)
      BY <1>4, <2>1, <2>4
    <3>2. StreamStr(record, i) = [of |-> all[i], len |-> StrLen(ToStr(all[i]), record[all[i]].val)]
      BY <1>1, StreamReadsItsField
    <3>3. texts[i].of = id /\ texts[i].len = StrLen(ToStr(id), table[r][id].val)
      BY <2>1, <3>1, <3>2
    <3>4. Straight => output_params.ellipsize
      BY <2>4 DEF Straight
    <3> QED
      BY <2>1, <2>3, <3>3, <3>4
  <2>5. CASE working_mode # "list"
    <3>1. texts[i] = FieldStr(table[r], id)
      BY <1>4, <2>1, <2>5
    <3>2. ~output_params.ellipsize => FieldStr(table[r], id).len <= column_width[i]
      BY <1>2, <1>5, <2>1, <2>5 DEF FitsIn
    <3> QED
      BY <2>1, <2>3, <3>1, <3>2
  <2> QED
    BY <2>4, <2>5
<1>7. DOMAIN texts = DOMAIN all /\ Len(texts) = Len(all)
  <2>1. DOMAIN texts = 1..Len(all) /\ texts = [i \in 1..Len(all) |-> texts[i]]
    BY <1>1
  <2> QED
    BY <1>1, <2>1, FunctionIsSeq
<1>8. PICK line, w : line = Line("row", texts, w) /\ w = column_width
  OBVIOUS
<1>9. /\ line.kind = "row"
      /\ Len(line.cells) = Len(all)
      /\ DOMAIN line.cells = DOMAIN all
      /\ \A i \in DOMAIN all :
            /\ line.cells[i].of = texts[i].of
            /\ Straight /\ i < Len(all) =>
                  line.cells[i].print.width = w[i] + PROTECTIVE_PADDING
  <2>1. TextsFor(texts, w)
    BY <1>2, <1>6, <1>7, <1>8 DEF TextsFor
  <2>2. all \in Seq(Ids)
    BY <1>1
  <2>3. IsLine(Line("row", texts, w), "row", texts, w)
    BY <2>1, <2>2, LineGood
  <2> QED
    BY <1>8, <2>3 DEF IsLine
<1>10. GoodLine(line)
  BY <1>6, <1>8, <1>9 DEF GoodLine, Filled
<1> QED
  BY <1>8, <1>9, <1>10

\* Whatever is printed, a line without cells is a good one.
LEMMA PlainLinesGood ==
    /\ GoodLine(Blank)
    /\ \A kind \in {"processed", "metadata"} :
          /\ GoodLine([kind |-> kind, cells |-> <<>>])
          /\ Begins([kind |-> kind, cells |-> <<>>])
  BY DEF GoodLine, Blank, Begins

----------------------------------------------------------------------------
(* Printing does not touch the command line.                               *)

\* Every step is one of arg_parse or leaves its variables alone.
LEMMA PrintStepParses == [PrintNext]_outputVars => [Next]_vars
  BY DEF PrintNext, outputVars, Parse, OutputInit, PrintStreamNames, PrintBatchNames, PrintRow,
         PrintProcessedSumm, PrintMetadataSumm

\* Output goes on from arg_parse as it is: whatever is proved of the command line
\* holds while the records are printed.
THEOREM PrintingParses == PrintSpec => Spec
<1>1. PrintInit => Init
  BY DEF PrintInit
<1> QED
  BY <1>1, PrintStepParses, PTL DEF PrintSpec, Spec

\* Printing begins when parsing is over.
LEMMA ParsingOver ==
    ASSUME Next, pc = "running"
    PROVE  UNCHANGED vars
  BY DEF Next, Stopped, NextOption, ChooseMode, AddAggrKey, AggrKeysDone, InvalidDirection,
         SetSortKey, CheckArguments, SetMode, AddOutputField, SetOutputDefaults, DecideTput,
         InitMemory

\* At the beginning nothing is printed.
LEMMA OutputInitial == PrintInit => OutputInv
<1> SUFFICES ASSUME PrintInit PROVE OutputInv
  OBVIOUS
<1>1. IsSeq(<<>>) /\ DOMAIN <<>> = {}
  <2>1. <<>> \in Seq({})
    OBVIOUS
  <2> QED
    BY <2>1 DEF IsSeq
<1> QED
  BY <1>1 DEF PrintInit, OutputInv, CourseInv, WidthInv, LinesInv, SeparatedInv, Separated

----------------------------------------------------------------------------
(* Every step keeps the invariant.                                         *)

\* Parsing: before the first item nothing is printed, afterwards nothing is parsed.
LEMMA ParseKeeps == OutputInv /\ Parse => OutputInv'
<1> SUFFICES ASSUME OutputInv, Parse PROVE OutputInv'
  OBVIOUS
<1>1. CourseInv /\ WidthInv /\ LinesInv /\ SeparatedInv
  BY DEF OutputInv
<1>2. Next /\ UNCHANGED <<opc, table, row, column_width, first_item, lines>>
  BY DEF Parse, printVars
<1>3. CASE opc = "off"
  <2>1. lines = <<>> /\ DOMAIN <<>> = {}
    BY <1>1, <1>3 DEF CourseInv
  <2> QED
    BY <1>1, <1>2, <1>3, <2>1
       DEF OutputInv, CourseInv, WidthInv, LinesInv, SeparatedInv
<1>4. CASE opc # "off"
  <2>1. UNCHANGED vars
    BY <1>1, <1>2, <1>4, ParsingOver DEF CourseInv
  <2>2. UNCHANGED <<layoutVars, rec_limit>>
    BY <2>1 DEF vars, argsVars, fieldsVars, layoutVars
  <2>3. CourseInv'
    BY <1>1, <1>2, <2>1, <2>2 DEF CourseInv, vars, layoutVars
  <2>4. WidthInv'
    BY <1>1, <1>2, <2>2, FitsStable DEF WidthInv, layoutVars
  <2>5. LinesInv' /\ SeparatedInv'
    BY <1>1, <1>2, <2>2, LinesKept
  <2> QED
    BY <2>3, <2>4, <2>5 DEF OutputInv
<1> QED
  BY <1>3, <1>4

\* The context of the output is made.
LEMMA OutputInitKeeps == FieldsInv /\ OutputInv /\ OutputInit => OutputInv'
<1> SUFFICES ASSUME FieldsInv, OutputInv, OutputInit PROVE OutputInv'
  OBVIOUS
<1>1. CourseInv
  BY DEF OutputInv
<1>2. /\ pc = "running" /\ pc' = pc /\ opc = "off"
      /\ table' \in (IF working_mode = "meta" THEN {<<>>} ELSE Tables)
      /\ column_width' = [i \in DOMAIN all |-> WidthEstimate(ToStr(all[i]))]
      /\ first_item' = TRUE
      /\ opc' = IF working_mode = "meta" THEN "processed" ELSE "names"
      /\ all' = all /\ working_mode' = working_mode /\ lines' = lines /\ row' = row
  BY DEF OutputInit, vars, argsVars, fieldsVars
<1>3. lines = <<>> /\ row = 0 /\ DOMAIN <<>> = {}
  BY <1>1, <1>2 DEF CourseInv
<1>4. /\ \A i \in DOMAIN all : all[i] \in Ids
      /\ working_mode \in {"list", "sort", "aggr", "meta"}
  BY <1>2, WhenRunning
<1>5. CourseInv'
  BY <1>1, <1>2, <1>3 DEF CourseInv
<1>6. AreWidths(column_width)'
  <2>1. ASSUME NEW i \in DOMAIN all PROVE column_width'[i] \in Nat
    <3>1. WidthEstimate(ToStr(all[i])) \in Nat
      BY <1>4, WidthType
    <3> QED
      BY <1>2, <3>1
  <2> QED
    BY <1>2, <2>1 DEF AreWidths
<1>7. WidthInv'
  BY <1>2, <1>4, <1>6 DEF WidthInv
<1>8. LinesInv' /\ SeparatedInv'
  BY <1>2, <1>3 DEF LinesInv, SeparatedInv, Separated
<1> QED
  BY <1>5, <1>7, <1>8 DEF OutputInv

\* The first item: a header that is printed with the widths that are stored.
LEMMA HeaderKeeps ==
    ASSUME FieldsInv, OutputInv, opc = "names", opc' = "rows", first_item' = FALSE,
           NEW names, AreHeadings(names),
           AreWidths(column_width)', \A i \in DOMAIN all : names[i].len <= column_width'[i],
           working_mode # "list" /\ ~output_params.ellipsize => FitsIn(column_width)',
           Item(<<Line("header", names, column_width')>>),
           UNCHANGED <<vars, table, row>>
    PROVE  OutputInv'
<1>1. CourseInv /\ WidthInv /\ LinesInv /\ SeparatedInv
  BY DEF OutputInv
<1>2. pc = "running" /\ lines = <<>> /\ DOMAIN <<>> = {} /\ row = 0
  BY <1>1 DEF CourseInv
<1>3. UNCHANGED <<layoutVars, pc, rec_limit>>
  BY DEF vars, argsVars, fieldsVars, layoutVars
<1>4. PICK line : line = Line("header", names, column_width')
  OBVIOUS
<1>5. GoodLine(line)' /\ Begins(line)
  BY <1>2, <1>3, <1>4, HeaderGood
<1>6. Item(<<line>>)
  BY <1>4
<1>7. /\ IsSeq(lines') /\ lines' # <<>>
      /\ Separated(lines')
      /\ \A l \in DOMAIN lines' : \/ lines'[l] = line \/ lines'[l] = Blank
                                  \/ l \in DOMAIN lines /\ lines'[l] = lines[l]
  BY <1>1, <1>5, <1>6, ItemGood
<1>8. GoodLine(Blank)'
  BY DEF GoodLine, Blank
<1>9. LinesInv'
  BY <1>2, <1>5, <1>7, <1>8 DEF LinesInv
<1>10. CourseInv'
  BY <1>1, <1>2, <1>3, <1>7 DEF CourseInv
<1>11. WidthInv'
  BY <1>1, <1>3 DEF WidthInv, layoutVars
<1> QED
  BY <1>7, <1>9, <1>10, <1>11 DEF OutputInv, SeparatedInv

\* A summary behind everything else, or the first thing that is printed.
LEMMA SummaryKeeps ==
    ASSUME OutputInv, opc # "off", opc' \in {"metadata", "done"}, first_item' = FALSE,
           NEW kind \in {"processed", "metadata"}, Item(<<[kind |-> kind, cells |-> <<>>]>>),
           UNCHANGED <<vars, table, row, column_width>>
    PROVE  OutputInv'
<1>1. CourseInv /\ LinesInv /\ SeparatedInv
  BY DEF OutputInv
<1>2. UNCHANGED <<layoutVars, pc, column_width>>
  BY DEF vars, argsVars, fieldsVars, layoutVars
<1>3. PICK line : line = [kind |-> kind, cells |-> <<>>]
  OBVIOUS
<1>4. GoodLine(line) /\ Begins(line) /\ GoodLine(Blank)
  BY <1>3, PlainLinesGood
<1>5. Item(<<line>>)
  BY <1>3
<1>6. /\ IsSeq(lines') /\ lines' # <<>>
      /\ Separated(lines')
      /\ \A l \in DOMAIN lines' : \/ lines'[l] = line \/ lines'[l] = Blank
                                  \/ l \in DOMAIN lines /\ lines'[l] = lines[l]
  BY <1>1, <1>4, <1>5, ItemGood
<1>7. \A l \in DOMAIN lines' : GoodLine(lines'[l])
  BY <1>1, <1>4, <1>6 DEF LinesInv
<1>8. LinesInv'
  <2>1. ASSUME NEW l \in DOMAIN lines' PROVE GoodLine(lines[l])'
    <3>1. PICK x : x = lines'[l]
      OBVIOUS
    <3>2. GoodLine(x)' <=> GoodLine(x)
      BY <1>2, GoodLineStable
    <3>3. GoodLine(x)'
      BY <1>7, <3>1, <3>2
    <3> QED
      BY <3>1, <3>3
  <2> QED
    BY <2>1 DEF LinesInv
<1>9. CourseInv'
  BY <1>1, <1>2, <1>6 DEF CourseInv
<1>10. WidthInv'
  BY DEF WidthInv
<1> QED
  BY <1>6, <1>8, <1>9, <1>10 DEF OutputInv, SeparatedInv

\* Nothing is printed: an item that is left out, or the end of the records.
LEMMA SilentKeeps ==
    ASSUME OutputInv, opc # "off",
           \/ opc' \in {"processed", "metadata", "done"} \/ opc' = opc
           \/ opc' = "rows" /\ opc = "names" /\ output_params.items["records"] # "yes",
           row' \in Nat, opc' = "names" => row' = row,
           UNCHANGED <<vars, table, column_width, first_item, lines>>
    PROVE  OutputInv'
<1>1. CourseInv /\ WidthInv /\ LinesInv /\ SeparatedInv
  BY DEF OutputInv
<1>2. UNCHANGED <<layoutVars, pc, rec_limit>>
  BY DEF vars, argsVars, fieldsVars, layoutVars
<1>3. CourseInv'
  BY <1>1, <1>2 DEF CourseInv, layoutVars
<1>4. WidthInv'
  BY <1>1, <1>2, FitsStable DEF WidthInv, layoutVars
<1>5. LinesInv' /\ SeparatedInv'
  BY <1>1, <1>2, LinesKept
<1> QED
  BY <1>3, <1>4, <1>5 DEF OutputInv

\* The header of a listing.
LEMMA StreamNamesKeep == FieldsInv /\ OutputInv /\ PrintStreamNames => OutputInv'
<1> SUFFICES ASSUME FieldsInv, OutputInv, PrintStreamNames PROVE OutputInv'
  OBVIOUS
<1>1. /\ opc = "names" /\ working_mode = "list" /\ UNCHANGED vars
      /\ pc = "running" /\ AreWidths(column_width) /\ row \in Nat
  BY DEF PrintStreamNames, OutputInv, CourseInv, WidthInv
<1>2. CASE Skip("records", "rows")
  <2>1. /\ output_params.items["records"] # "yes" /\ opc' = "rows"
        /\ UNCHANGED <<table, row, column_width, first_item, lines>>
    BY <1>2 DEF Skip, printVars
  <2> QED
    BY <1>1, <2>1, SilentKeeps
<1>3. CASE /\ column_width' = Widened(column_width, NamesOnly)
           /\ Item(<<Line("header", NamesOnly, column_width')>>)
           /\ first_item' = FALSE
           /\ opc' = "rows"
           /\ UNCHANGED <<table, row>>
  <2>1. PICK names : names = NamesOnly
    OBVIOUS
  <2>2. AreHeadings(names)
    BY <1>1, <2>1, HeadingsRight
  <2>3. PICK w : w = column_width
    OBVIOUS
  <2>4. /\ AreWidths(Widened(w, names))
        /\ \A i \in DOMAIN all : names[i].len <= Widened(w, names)[i]
    <3>1. AreWidths(w) /\ \A i \in DOMAIN all : names[i].len \in Nat
      BY <1>1, <2>2, <2>3 DEF AreHeadings
    <3> QED
      BY <3>1, WidenedWide
  <2>5. column_width' = Widened(w, names)
    BY <1>3, <2>1, <2>3
  <2>6. AreWidths(column_width)' /\ \A i \in DOMAIN all : names[i].len <= column_width'[i]
    BY <1>1, <2>4, <2>5 DEF AreWidths, vars, fieldsVars
  <2>7. Item(<<Line("header", names, column_width')>>)
    BY <1>3, <2>1
  <2> QED
    BY <1>1, <1>3, <2>2, <2>6, <2>7, HeaderKeeps
<1> QED
  BY <1>2, <1>3 DEF PrintStreamNames

\* The header of a batch, behind the search for widths.
LEMMA BatchNamesKeep == FieldsInv /\ OutputInv /\ PrintBatchNames => OutputInv'
<1> SUFFICES ASSUME FieldsInv, OutputInv, PrintBatchNames PROVE OutputInv'
  OBVIOUS
<1>1. /\ opc = "names" /\ working_mode \in {"sort", "aggr"} /\ UNCHANGED vars
      /\ pc = "running" /\ AreWidths(column_width) /\ row \in Nat /\ table \in Tables
  BY DEF PrintBatchNames, OutputInv, CourseInv, WidthInv
<1>2. CASE Skip("records", "processed")
  <2>1. /\ opc' = "processed" /\ UNCHANGED <<table, row, column_width, first_item, lines>>
    BY <1>2 DEF Skip, printVars
  <2> QED
    BY <1>1, <2>1, SilentKeeps
<1>3. CASE /\ column_width' =
                Widened(IF output_params.ellipsize THEN column_width
                        ELSE ExactWidths(column_width), BatchNames)
           /\ Item(<<Line("header", BatchNames, column_width')>>)
           /\ first_item' = FALSE
           /\ opc' = "rows"
           /\ UNCHANGED <<table, row>>
  <2>1. PICK names : names = BatchNames
    OBVIOUS
  <2>2. AreHeadings(names)
    BY <1>1, <2>1, HeadingsRight
  <2>3. PICK w : w = IF output_params.ellipsize THEN column_width ELSE ExactWidths(column_width)
    OBVIOUS
  <2>4. AreWidths(w) /\ (~output_params.ellipsize => FitsIn(w))
    <3>1. PICK c : c = column_width
      OBVIOUS
    <3>2. AreWidths(c) /\ rec_limit \in Nat /\ all \in Seq(Ids)
      BY <1>1, <3>1, WhenRunning
    <3>3. AreWidths(ExactWidths(c)) /\ FitsIn(ExactWidths(c))
      BY <1>1, <3>2, ExactWide
    <3> QED
      BY <2>3, <3>1, <3>2, <3>3
  <2>5. /\ AreWidths(Widened(w, names))
        /\ \A i \in DOMAIN all : /\ names[i].len <= Widened(w, names)[i]
                                 /\ w[i] <= Widened(w, names)[i]
    <3>1. \A i \in DOMAIN all : names[i].len \in Nat
      BY <2>2 DEF AreHeadings
    <3> QED
      BY <2>4, <3>1, WidenedWide
  <2>6. PICK v : v = Widened(w, names)
    OBVIOUS
  <2>7. column_width' = v
    BY <1>3, <2>1, <2>3, <2>6
  <2>8. AreWidths(column_width)' /\ \A i \in DOMAIN all : names[i].len <= column_width'[i]
    BY <1>1, <2>5, <2>6, <2>7 DEF AreWidths, vars, fieldsVars
  <2>9. ~output_params.ellipsize => FitsIn(column_width)'
    <3> SUFFICES ASSUME ~output_params.ellipsize PROVE FitsIn(column_width)'
      OBVIOUS
    <3>1. FitsIn(v)
      <4> SUFFICES ASSUME NEW i \in DOMAIN all, NEW r \in 1..BatchLimit
                   PROVE  FieldStr(table[r], all[i]).len <= v[i]
        BY DEF FitsIn
      <4>1. FieldStr(table[r], all[i]).len <= w[i] /\ w[i] <= v[i]
        BY <2>4, <2>5, <2>6 DEF FitsIn
      <4>2. w[i] \in Nat /\ v[i] \in Nat
        BY <2>4, <2>5, <2>6 DEF AreWidths
      <4>3. r \in DOMAIN table /\ all[i] \in Ids
        BY <1>1, BatchLimitType, WhenRunning
      <4>4. FieldStr(table[r], all[i]).len \in Nat
        BY <1>1, <4>3, FieldStrType
      <4> QED
        BY <4>1, <4>2, <4>4
    <3>2. UNCHANGED <<output_params, rec_limit, table, all>>
      BY <1>1, <1>3 DEF vars, argsVars, fieldsVars
    <3>3. FitsIn(v)'
      BY <3>1, <3>2, FitsStable
    <3> QED
      BY <2>7, <3>3 DEF FitsIn
  <2>10. Item(<<Line("header", names, column_width')>>)
    BY <1>3, <2>1
  <2> QED
    BY <1>1, <1>3, <2>2, <2>8, <2>9, <2>10, HeaderKeeps
<1> QED
  BY <1>2, <1>3 DEF PrintBatchNames

\* One more record.
LEMMA RowKeeps == FieldsInv /\ OutputInv /\ PrintRow => OutputInv'
<1> SUFFICES ASSUME FieldsInv, OutputInv, PrintRow PROVE OutputInv'
  OBVIOUS
<1>1. CourseInv /\ WidthInv /\ LinesInv /\ SeparatedInv
  BY DEF OutputInv
<1>2. PICK rows, texts :
         /\ rows = IF working_mode = "list" THEN Len(table) ELSE BatchLimit
         /\ texts = [i \in DOMAIN all |->
                        IF working_mode = "list" THEN StreamStr(table[row + 1], i)
                        ELSE FieldStr(table[row + 1], all[i])]
  OBVIOUS
<1>3. /\ opc = "rows" /\ row \in Nat /\ UNCHANGED <<vars, table, column_width, first_item>>
      /\ \/ /\ row < rows
            /\ row' = row + 1
            /\ lines' = IF output_params.items["records"] = "yes"
                        THEN Append(lines, Line("row", texts, column_width)) ELSE lines
            /\ opc' = opc
         \/ row = rows /\ opc' = "processed" /\ UNCHANGED <<row, lines>>
  BY <1>1, <1>2 DEF PrintRow, CourseInv
<1>4. CASE lines' = lines
  BY <1>3, <1>4, SilentKeeps
<1>5. CASE lines' # lines
  <2>1. /\ row < rows /\ row' = row + 1 /\ opc' = "rows"
        /\ output_params.items["records"] = "yes"
        /\ lines' = Append(lines, Line("row", texts, column_width))
    BY <1>3, <1>5
  <2>2. PICK line : line = Line("row", texts, column_width)
    OBVIOUS
  <2>3. GoodLine(line) /\ line.kind = "row"
    <3>1. row < (IF working_mode = "list" THEN Len(table) ELSE BatchLimit)
      BY <1>2, <2>1
    <3> QED
      BY <1>1, <1>2, <1>3, <2>1, <2>2, <3>1, RowGood
  <2>4. /\ IsSeq(lines) /\ lines # <<>> /\ first_item \in BOOLEAN /\ ~first_item
        /\ pc = "running"
    BY <1>1, <1>3, <2>1 DEF CourseInv
  <2>5. /\ lines' = Append(lines, line) /\ IsSeq(lines') /\ lines' # <<>>
        /\ Len(lines) \in Nat /\ DOMAIN lines = 1..Len(lines)
        /\ DOMAIN lines' = 1..(Len(lines) + 1)
        /\ \A l \in 1..Len(lines) : lines'[l] = lines[l]
        /\ lines'[Len(lines) + 1] = line
    BY <2>1, <2>2, <2>4, AppendAny
  <2>6. UNCHANGED <<layoutVars, pc, rec_limit>>
    BY <1>3 DEF vars, argsVars, fieldsVars, layoutVars
  <2>7. SeparatedInv'
    <3>1. Separated(Append(lines, line))
      BY <1>1, <2>3, <2>4, SeparatedRow DEF SeparatedInv
    <3> QED
      BY <2>5, <3>1 DEF SeparatedInv
  <2>8. LinesInv'
    <3>1. ASSUME NEW l \in DOMAIN lines' PROVE GoodLine(lines[l])'
      <4>1. PICK x : x = lines'[l]
        OBVIOUS
      <4>2. l \in 1..Len(lines) \/ l = Len(lines) + 1
        BY <2>5
      <4>3. GoodLine(x)
        BY <1>1, <2>3, <2>5, <4>1, <4>2 DEF LinesInv
      <4>4. GoodLine(x)' <=> GoodLine(x)
        BY <1>3, <2>6, GoodLineStable
      <4>5. GoodLine(x)'
        BY <4>3, <4>4
      <4> QED
        BY <4>1, <4>5
    <3> QED
      BY <3>1 DEF LinesInv
  <2>9. CourseInv'
    BY <1>1, <1>3, <2>1, <2>4, <2>5, <2>6 DEF CourseInv
  <2>10. WidthInv'
    BY <1>1, <1>3, <2>1, <2>6, FitsStable DEF WidthInv, layoutVars
  <2> QED
    BY <2>7, <2>8, <2>9, <2>10 DEF OutputInv
<1> QED
  BY <1>4, <1>5

\* The summaries.
LEMMA SummariesKeep ==
    OutputInv /\ (PrintProcessedSumm \/ PrintMetadataSumm) => OutputInv'
<1> SUFFICES ASSUME OutputInv, PrintProcessedSumm \/ PrintMetadataSumm PROVE OutputInv'
  OBVIOUS
<1>1. row \in Nat
  BY DEF OutputInv, CourseInv
<1>2. CASE PrintProcessedSumm
  <2>1. opc = "processed" /\ UNCHANGED vars
    BY <1>2 DEF PrintProcessedSumm
  <2>2. CASE Skip("processed_summ", "metadata")
    BY <1>1, <2>1, <2>2, SilentKeeps DEF Skip, printVars
  <2>3. CASE ~Skip("processed_summ", "metadata")
    <3>1. /\ Item(<<[kind |-> "processed", cells |-> <<>>]>>)
          /\ first_item' = FALSE
          /\ opc' = "metadata"
          /\ UNCHANGED <<table, row, column_width>>
      BY <1>2, <2>3 DEF PrintProcessedSumm
    <3> QED
      BY <2>1, <3>1, SummaryKeeps
  <2> QED
    BY <2>2, <2>3
<1>3. CASE PrintMetadataSumm
  <2>1. opc = "metadata" /\ UNCHANGED vars
    BY <1>3 DEF PrintMetadataSumm
  <2>2. CASE Skip("metadata_summ", "done")
    BY <1>1, <2>1, <2>2, SilentKeeps DEF Skip, printVars
  <2>3. CASE ~Skip("metadata_summ", "done")
    <3>1. /\ Item(<<[kind |-> "metadata", cells |-> <<>>]>>)
          /\ first_item' = FALSE
          /\ opc' = "done"
          /\ UNCHANGED <<table, row, column_width>>
      BY <1>3, <2>3 DEF PrintMetadataSumm
    <3> QED
      BY <2>1, <3>1, SummaryKeeps
  <2> QED
    BY <2>2, <2>3
<1> QED
  BY <1>2, <1>3

\* Every step of the master keeps the invariant.
LEMMA OutputStep == FieldsInv /\ OutputInv /\ [PrintNext]_outputVars => OutputInv'
<1> SUFFICES ASSUME FieldsInv, OutputInv, [PrintNext]_outputVars PROVE OutputInv'
  OBVIOUS
<1>1. CASE PrintNext
  BY <1>1, ParseKeeps, OutputInitKeeps, StreamNamesKeep, BatchNamesKeep, RowKeeps, SummariesKeep
     DEF PrintNext
<1>2. CASE UNCHANGED outputVars
  <2>1. CASE opc = "off"
    <3>1. lines = <<>> /\ DOMAIN <<>> = {}
      BY <2>1 DEF OutputInv, CourseInv
    <3> QED
      BY <1>2, <2>1, <3>1 DEF outputVars, printVars, OutputInv, CourseInv, WidthInv, LinesInv,
         SeparatedInv, vars
  <2>2. CASE opc # "off"
    <3>1. row \in Nat
      BY DEF OutputInv, CourseInv
    <3> QED
      BY <1>2, <2>2, <3>1, SilentKeeps DEF outputVars, printVars
  <2> QED
    BY <2>1, <2>2
<1> QED
  BY <1>1, <1>2

\* The invariant of the command line holds while records are printed, too.
LEMMA FieldsWhilePrinting == PrintSpec => []FieldsInv
  BY PrintingParses, FieldsInvariant, PTL

\* The invariant of the output holds for every command line and every result.
THEOREM OutputInvariant == PrintSpec => []OutputInv
  BY OutputInitial, OutputStep, FieldsWhilePrinting, PTL DEF PrintSpec

\* Lines that fill the same columns have their cells at the same places, and the
\* items are set apart.
LEMMA RegularNow == FieldsInv /\ OutputInv => LayoutRegular
<1> SUFFICES ASSUME FieldsInv, OutputInv PROVE LayoutRegular
  OBVIOUS
<1>1. CourseInv /\ LinesInv /\ SeparatedInv
  BY DEF OutputInv
<1>2. all \in Seq(Ids)
  BY DEF FieldsInv, TypeInv
<1>3. Len(all) \in Nat /\ DOMAIN all = 1..Len(all)
  BY <1>2, LenProperties
<1>4. ASSUME Straight, NEW k \in Grid, NEW l \in Grid, NEW i \in 1..(Len(all) - 1)
      PROVE  lines[k].cells[i].print.width = lines[l].cells[i].print.width
  <2>1. Filled(lines[k].cells) /\ Filled(lines[l].cells)
    BY <1>1 DEF Grid, LinesInv, GoodLine
  <2>2. i \in DOMAIN all /\ i < Len(all)
    BY <1>3
  <2> QED
    BY <1>4, <2>1, <2>2 DEF Filled
<1>5. ColumnsStraight
  BY <1>4 DEF ColumnsStraight, Straight
<1>6. ItemsSeparated
  BY <1>1 DEF ItemsSeparated, SeparatedInv, Separated, Begins
<1> QED
  BY <1>5, <1>6 DEF LayoutRegular

\* Good lines name the columns.
LEMMA NamedNow == FieldsInv /\ OutputInv => ColumnsNamed
<1> SUFFICES ASSUME FieldsInv, OutputInv, NEW k \in Grid, NEW l \in Grid,
                    lines[k].kind = "header"
             PROVE  LET names == lines[k].cells IN
                    /\ Len(names) = Len(all)
                    /\ lines[l].kind = "row" =>
                          \A i \in DOMAIN all : lines[l].cells[i].of = names[i].of.id
                    /\ output_params.rich_header /\ working_mode = "aggr" =>
                          \A i \in DOMAIN names : LET n == names[i].of IN
                             /\ n.note \in {"key", "key_dir"} <=> n.id \in ToSet(aggr_keys)
                             /\ n.note \in {"dir", "key_dir"} <=> n.id = sort_key
                             /\ n.note = "func" <=> n.id \in ToSet(output_fields)
  BY DEF ColumnsNamed
<1>1. GoodLine(lines[k]) /\ GoodLine(lines[l])
  BY DEF OutputInv, LinesInv, Grid
<1>2. /\ Filled(lines[k].cells)
      /\ \A i \in DOMAIN all : HeadingOf(lines[k].cells[i].of, all[i])
      /\ lines[l].kind = "row" => \A i \in DOMAIN all : lines[l].cells[i].of = all[i]
  BY <1>1 DEF GoodLine
<1>3. PICK names : names = lines[k].cells
  OBVIOUS
<1>4. Len(names) = Len(all) /\ DOMAIN names = DOMAIN all
  BY <1>2, <1>3 DEF Filled
<1>5. lines[l].kind = "row" => \A i \in DOMAIN all : lines[l].cells[i].of = names[i].of.id
  BY <1>2, <1>3 DEF HeadingOf
<1>6. output_params.rich_header /\ working_mode = "aggr" =>
         \A i \in DOMAIN names : NoteRight(names[i].of, aggr_keys, sort_key, output_fields)
  BY <1>2, <1>3, <1>4 DEF HeadingOf
<1> QED
  BY <1>3, <1>4, <1>5, <1>6 DEF NoteRight

\* In the pretty format the columns are straight: print_batch looks for the widths
\* before it prints the header and neither the header nor a record is wider; and
\* print_batch, print_stream_names and the summaries put exactly one empty line
\* between the items.
THEOREM OutputLayoutRegular == PrintSpec => []LayoutRegular
  BY OutputInvariant, FieldsWhilePrinting, RegularNow, PTL

\* The header that print_names_* prints names the columns of the records, in their
\* order, and a rich header says what each field is used for.
THEOREM OutputColumnsNamed == PrintSpec => []ColumnsNamed
  BY OutputInvariant, FieldsWhilePrinting, NamedNow, PTL

----------------------------------------------------------------------------
(* Texts that are too long for their columns.                              *)

\* A number divided by u, and rounded to tenths.
InTenths(v, u) == 10 * (v \div u) + (20 * (v % u) + u) \div (2 * u)

\* It is not rounded beyond n.
LEMMA TenthsBound ==
    ASSUME NEW u \in {1, 1000, 1024, 1000000, 1048576}, NEW v \in Nat, NEW n \in Nat,
           v <= n * u
    PROVE  InTenths(v, u) \in 0..(10 * n)
<1>1. PICK q, r : q = v \div u /\ r = v % u
  OBVIOUS
<1>2. q \in Nat /\ r \in 0..(u - 1) /\ v = u * q + r
  BY <1>1
<1>3. q <= n
  BY <1>2
<1>4. q = n => r = 0
  BY <1>2
<1>5. (20 * r + u) \div (2 * u) \in 0..10
  BY <1>2
<1>6. r = 0 => (20 * r + u) \div (2 * u) = 0
  BY <1>2
<1> QED
  BY <1>1, <1>2, <1>3, <1>4, <1>5, <1>6 DEF InTenths

\* A volume is divided until not more than one thousand, or 1024, is left.
LEMMA TenthsLeft ==
    ASSUME NEW v \in Nat, v <= MaxVolume
    PROVE  Tenths(v) \in Nat /\ Tenths(v) <= IF Binary THEN 10240 ELSE 10000
<1>1. PICK t : t = IF Binary THEN 1024 ELSE 1000
  OBVIOUS
<1>2. /\ t \in {1000, 1024} /\ v \in Nat /\ v <= 1000000000
      /\ Scale[1] = t /\ Scale[2] = t * t
  <2>1. v \in Nat /\ v <= 1000000000
    BY DEF MaxVolume
  <2>2. CASE Binary
    <3>1. t = 1024 /\ t * t = 1048576
      BY <1>1, <2>2
    <3>2. Scale[1] = 1024 /\ Scale[2] = 1048576
      BY <2>2 DEF Scale
    <3> QED
      BY <2>1, <3>1, <3>2
  <2>3. CASE ~Binary
    <3>1. t = 1000 /\ t * t = 1000000
      BY <1>1, <2>3
    <3>2. Scale[1] = 1000 /\ Scale[2] = 1000000
      BY <2>3 DEF Scale
    <3> QED
      BY <2>1, <3>1, <3>2
  <2> QED
    BY <2>2, <2>3
<1>3. PICK D : D = {k \in 1..2 : v > Scale[k]}
  OBVIOUS
<1>4. Units(v) = Cardinality(D)
  BY <1>3 DEF Units, MaxUnits
<1>5. PICK u : u = IF Units(v) = 0 THEN 1 ELSE Scale[Units(v)]
  OBVIOUS
<1>6. Tenths(v) = InTenths(v, u)
  BY <1>5 DEF Tenths, InTenths
<1>7. u \in {1, 1000, 1024, 1000000, 1048576} /\ v <= t * u
  <2>1. CASE v <= t
    <3>1. D = {}
      BY <1>2, <1>3, <2>1
    <3>2. Units(v) = 0
      BY <1>4, <3>1, FS_EmptySet
    <3> QED
      BY <1>2, <1>5, <2>1, <3>2
  <2>2. CASE v > t /\ v <= t * t
    <3>1. D = 1..1
      BY <1>2, <1>3, <2>2
    <3>2. Units(v) = 1
      BY <1>4, <3>1, FirstNumbers
    <3> QED
      BY <1>2, <1>5, <2>2, <3>2
  <2>3. CASE v > t * t
    <3>1. D = 1..2
      BY <1>2, <1>3, <2>3
    <3>2. Units(v) = 2
      BY <1>4, <3>1, FirstNumbers
    <3> QED
      BY <1>2, <1>5, <2>3, <3>2
  <2> QED
    BY <1>2, <2>1, <2>2, <2>3
<1>8. InTenths(v, u) \in 0..(10 * t)
  <2>1. t \in Nat /\ v \in Nat
    BY <1>2
  <2> QED
    BY <1>7, <2>1, TenthsBound
<1> QED
  BY <1>1, <1>6, <1>8

\* A prefixed volume fits, unless it is rounded to 1000.0.
LEMMA PrefixedFits ==
    ASSUME NEW v \in Nat, v <= MaxVolume
    PROVE  PrefixedLen(v) <= PrefixedWidth \/ (~Binary /\ Tenths(v) = 10000)
<1>1. PICK t, d : t = Tenths(v) /\ d = Digits(t \div 10)
  OBVIOUS
<1>2. t \in Nat /\ d \in Nat /\ t <= IF Binary THEN 10240 ELSE 10000
  BY <1>1, TenthsLeft, DigitsType
<1>3. PrefixedLen(v) = d + 3 + (IF Binary THEN 2 ELSE 1)
  BY <1>1 DEF PrefixedLen
<1>4. CASE Binary
  <2>1. t \div 10 \in Nat /\ t \div 10 < Power10[4]
    BY <1>2, <1>4 DEF Power10
  <2>2. d <= 4
    BY <1>1, <2>1, DigitsBound
  <2> QED
    BY <1>2, <1>3, <1>4, <2>2 DEF PrefixedWidth
<1>5. CASE ~Binary /\ t # 10000
  <2>1. t \div 10 \in Nat /\ t \div 10 < Power10[3]
    BY <1>2, <1>5 DEF Power10
  <2>2. d <= 3
    BY <1>1, <2>1, DigitsBound
  <2> QED
    BY <1>2, <1>3, <1>5, <2>2 DEF PrefixedWidth
<1> QED
  BY <1>1, <1>4, <1>5

Usual == {"addr", "ip_proto", "duration", "string", "brec"}

\* A text fits into the width that is reserved for values of its kind, unless that
\* is the usual width only or the text is that of a rounded volume.
LEMMA TextFits ==
    ASSUME NEW func \in ToStrFuncs \ Usual, NEW v, IsPlain(func, v)
    PROVE  \/ TextLen(func, v) <= WidthEstimate(func)
           \/ /\ func \in {"volume", "double_volume"}
              /\ ~Raw("volume") /\ ~Binary /\ Tenths(v) = 10000
<1>1. Digits(v) \in 1..10
  BY DigitsBound
<1>2. CASE func = "timestamp"
  BY <1>1, <1>2 DEF TextLen, WidthEstimate, TimestampLen, TimestampWidth
<1>3. CASE func \in {"volume", "double_volume"}
  <2>1. v \in Nat /\ v <= MaxVolume
    BY <1>3 DEF IsPlain
  <2>2. PrefixedLen(v) <= PrefixedWidth \/ (~Binary /\ Tenths(v) = 10000)
    BY <2>1, PrefixedFits
  <2>3. /\ TextLen(func, v) = IF func = "volume" THEN VolumeLen(v) ELSE DoubleVolumeLen(v)
        /\ WidthEstimate(func) = IF func = "volume" THEN VolumeWidth ELSE DoubleVolumeWidth
    BY <1>3 DEF TextLen, WidthEstimate
  <2> QED
    BY <1>1, <1>3, <2>2, <2>3 DEF VolumeLen, VolumeWidth, DoubleVolumeLen, DoubleVolumeWidth
<1>4. CASE func \in {"uint8", "tcp_flags"}
  <2>1. v \in Nat /\ v < Power10[3]
    BY <1>4 DEF IsPlain, Power10
  <2>2. Digits(v) <= 3
    BY <2>1, DigitsBound
  <2> QED
    BY <1>1, <1>4, <2>2 DEF TextLen, WidthEstimate, TcpFlagsLen, TcpFlagsWidth
<1>5. CASE func = "uint16"
  <2>1. v \in Nat /\ v < Power10[5]
    BY <1>5 DEF IsPlain, Power10
  <2>2. Digits(v) <= 5
    BY <2>1, DigitsBound
  <2> QED
    BY <1>1, <1>5, <2>2 DEF TextLen, WidthEstimate
<1>6. CASE func \in {"mac", "uint32", "uint64", "double"}
  BY <1>1, <1>6 DEF TextLen, WidthEstimate
<1> QED
  BY <1>2, <1>3, <1>4, <1>5, <1>6 DEF ToStrFuncs, Usual

\* Where the estimated width is too small the value may be cut.
LEMMA CellMeant ==
    ASSUME table \in Tables, NEW r \in DOMAIN table, NEW id \in Ids,
           output_params.conv["volume"] \in {"none", "readable", "binary"},
           NEW len,
           \/ len = FieldStr(table[r], id).len
           \/ len = StrLen(ToStr(id), table[r][id].val),
           WidthEstimate(ToStr(id)) < len
    PROVE  MayBeCut(table[r], id)
<1>1. PICK func, v, ret : func = ToStr(id) /\ v = table[r][id].val /\ ret = table[r][id].ret
  OBVIOUS
<1>2. func \in ToStrFuncs
  BY <1>1, OutputAssumption DEF ToStr
<1>3. CASE func \in Usual
  BY <1>1, <1>3 DEF MayBeCut, Usual
<1>4. CASE func \notin Usual
  <2>1. IsPlain(func, v)
    BY <1>1, <1>4, ValuesAssumption DEF Usual
  <2>2. StrLen(func, v) = TextLen(func, v)
    BY <1>4 DEF StrLen, Usual
  <2>3. len = TextLen(func, v) \/ len = 3 \/ (len = 6 /\ ret = "NOTSET")
    BY <1>1, <2>2 DEF FieldStr
  <2>4. /\ WidthEstimate(func) >= 3
        /\ func \notin {"uint8", "uint16", "tcp_flags"} => WidthEstimate(func) >= 6
    BY <1>2, <1>4 DEF WidthEstimate, ToStrFuncs, Usual, TimestampWidth, VolumeWidth,
       DoubleVolumeWidth, PrefixedWidth, TcpFlagsWidth
  <2>5. WidthEstimate(func) \in Nat
    BY <1>1, WidthType
  <2>6. CASE len = TextLen(func, v)
    <3>1. TextLen(func, v) \in Nat
      BY <2>1, TextLenType
    <3>2. /\ func \in {"volume", "double_volume"}
          /\ ~Raw("volume") /\ ~Binary /\ Tenths(v) = 10000
      BY <1>1, <1>2, <1>4, <2>1, <2>5, <2>6, <3>1, TextFits
    <3> QED
      BY <1>1, <3>2 DEF MayBeCut, Raw, Binary
  <2>7. CASE len = 3
    BY <1>1, <2>4, <2>5, <2>7
  <2>8. CASE len = 6 /\ ret = "NOTSET"
    BY <1>1, <2>4, <2>5, <2>8 DEF MayBeCut
  <2> QED
    BY <2>3, <2>6, <2>7, <2>8
<1> QED
  BY <1>3, <1>4

\* A string is cut only if it is longer than its column is wide.
LEMMA CutTooLong ==
    ASSUME NEW len \in Nat, NEW width \in Nat, NEW right \in BOOLEAN, NEW last \in BOOLEAN,
           PrintField(len, width, right, last).cut
    PROVE  width < len
<1>1. CASE format # "csv" /\ width - len < 0 /\ output_params.ellipsize
  BY <1>1
<1>2. CASE ~(format # "csv" /\ width - len < 0 /\ output_params.ellipsize)
  <2>1. PrintField(len, width, right, last).cut = FALSE
    BY <1>2 DEF PrintField
  <2> QED
    BY <2>1
<1> QED
  BY <1>1, <1>2

\* The same for the cells of a line.
LEMMA LineCut ==
    ASSUME NEW kind, NEW texts, NEW widths, NEW i \in DOMAIN texts,
           texts[i].len \in Nat, widths[i] \in Nat,
           Line(kind, texts, widths).cells[i].print.cut
    PROVE  widths[i] < texts[i].len
<1>1. PICK len, width, right, last :
         /\ len = texts[i].len /\ width = widths[i]
         /\ right = RightAligned(ToStr(all[i])) /\ last = (i = Len(texts))
  OBVIOUS
<1>2. Line(kind, texts, widths).cells[i].print = PrintField(len, width, right, last)
  BY <1>1 DEF Line
<1>3. len \in Nat /\ width \in Nat /\ right \in BOOLEAN /\ last \in BOOLEAN
  BY <1>1 DEF RightAligned
<1>4. width < len
  BY <1>2, <1>3, CutTooLong
<1> QED
  BY <1>1, <1>4

----------------------------------------------------------------------------
(* Where strings are cut.                                                  *)

\* In the line at place l only the record that is printed there may be cut.
LineMeant(line, l) ==
    line.kind \in {"header", "row"} =>
        \A i \in DOMAIN line.cells :
            line.cells[i].print.cut => line.kind = "row" /\ MayBeCut(table[l - 1], all[i])

MeantInv == \A l \in DOMAIN lines : LineMeant(lines[l], l)

\* Every kind of value has a conversion when the command line is accepted.
ConvInv == pc \in Known => \A c \in Convs : output_params.conv[c] # "unset"

\* While records are printed the columns are as wide as was estimated, or wider,
\* and each record has the line behind its predecessor's, below the header.
EstimateInv ==
    /\ opc \in {"names", "rows"} => \A i \in DOMAIN all : WidthEstimate(ToStr(all[i])) <= column_width[i]
    /\ opc = "rows" /\ output_params.items["records"] = "yes" => Len(lines) = row + 1

CutInv == MeantInv /\ ConvInv /\ EstimateInv

\* Defaults are filled in before the command line is accepted.
LEMMA ConvStep == FieldsInv /\ ConvInv /\ [Next]_vars => ConvInv'
<1> SUFFICES ASSUME FieldsInv, ConvInv, [Next]_vars PROVE ConvInv'
  OBVIOUS
<1>0. TypeInv
  BY DEF FieldsInv
<1>1. CASE SetOutputDefaults
  <2>1. PICK f : \A c \in Convs : output_params'.conv[c] =
            IF output_params.conv[c] = "unset" THEN IF f = "pretty" THEN "readable" ELSE "none"
            ELSE output_params.conv[c]
    BY <1>0, <1>1 DEF SetOutputDefaults, TypeInv, ParamsType
  <2> QED
    BY <2>1 DEF ConvInv
<1>2. CASE DecideTput \/ InitMemory \/ Stopped \/ UNCHANGED vars
  BY <1>2 DEF DecideTput, InitMemory, Stopped, vars, argsVars, Known, ConvInv
<1>3. CASE NextOption \/ ChooseMode \/ AddAggrKey \/ AggrKeysDone \/ InvalidDirection
           \/ SetSortKey \/ CheckArguments \/ SetMode \/ AddOutputField
  <2>1. pc' \notin Known
    BY <1>3 DEF NextOption, ChooseMode, AddAggrKey, AggrKeysDone, InvalidDirection, SetSortKey,
       CheckArguments, SetMode, AddOutputField, Reject, Known
  <2> QED
    BY <2>1 DEF ConvInv
<1> QED
  BY <1>1, <1>2, <1>3 DEF Next

\* What is cut, and how wide a column must be, depends on the conversions only.
LEMMA MeantStable ==
    ASSUME NEW line, NEW l, UNCHANGED <<output_params, all, table>>
    PROVE  LineMeant(line, l)' <=> LineMeant(line, l)
<1>1. \A v : Tenths(v)' = Tenths(v)
  BY PrefixedStable
<1>2. \A record, id : MayBeCut(record, id)' <=> MayBeCut(record, id)
  BY <1>1 DEF MayBeCut
<1> QED
  BY <1>2 DEF LineMeant

LEMMA EstimateStable ==
    ASSUME NEW func, output_params' = output_params
    PROVE  WidthEstimate(func)' = WidthEstimate(func)
<1>1. \A c \in Convs : Raw(c)' <=> Raw(c)
  BY DEF Raw
<1>2. /\ TimestampWidth' = TimestampWidth /\ VolumeWidth' = VolumeWidth
      /\ DoubleVolumeWidth' = DoubleVolumeWidth /\ TcpFlagsWidth' = TcpFlagsWidth
      /\ IpProtoWidth' = IpProtoWidth /\ DurationWidth' = DurationWidth /\ AddrWidth' = AddrWidth
  BY DEF TimestampWidth, VolumeWidth, DoubleVolumeWidth, PrefixedWidth, TcpFlagsWidth,
         IpProtoWidth, DurationWidth, AddrWidth, Raw, Binary
<1> QED
  BY <1>2 DEF WidthEstimate

LEMMA ColumnsEstimated ==
    ASSUME UNCHANGED <<output_params, all>>
    PROVE  \A i : WidthEstimate(ToStr(all[i]))' = WidthEstimate(ToStr(all[i]))
<1> TAKE i
<1>1. PICK func : func = ToStr(all[i])
  OBVIOUS
<1>2. WidthEstimate(func)' = WidthEstimate(func)
  BY EstimateStable
<1> QED
  BY <1>1, <1>2 DEF ToStr

\* Lines that stay where they are, and new ones that are meant.
LEMMA LinesMeant ==
    ASSUME MeantInv, UNCHANGED <<output_params, all, table>>,
           \A l \in DOMAIN lines' : \/ LineMeant(lines'[l], l)
                                    \/ l \in DOMAIN lines /\ lines'[l] = lines[l]
    PROVE  MeantInv'
<1>1. ASSUME NEW l \in DOMAIN lines' PROVE LineMeant(lines[l], l)'
  <2>1. PICK x : x = lines'[l]
    OBVIOUS
  <2>2. LineMeant(x, l)
    BY <2>1 DEF MeantInv
  <2>3. LineMeant(x, l)' <=> LineMeant(x, l)
    BY MeantStable
  <2>4. LineMeant(x, l)'
    BY <2>2, <2>3
  <2> QED
    BY <2>1, <2>4
<1> QED
  BY <1>1 DEF MeantInv

\* Nothing is printed but perhaps a line without cells, and no more records follow.
LEMMA PlainMeant ==
    ASSUME OutputInv, CutInv, opc # "off", UNCHANGED <<vars, table>>,
           opc' \notin {"names", "rows"},
           \/ lines' = lines
           \/ \E kind \in {"processed", "metadata"} : Item(<<[kind |-> kind, cells |-> <<>>]>>)
    PROVE  CutInv'
<1>1. CourseInv /\ SeparatedInv /\ MeantInv /\ ConvInv
  BY DEF OutputInv, CutInv
<1>2. UNCHANGED <<output_params, all, pc>>
  BY DEF vars, argsVars, fieldsVars
<1>3. MeantInv'
  <2>1. CASE lines' = lines
    BY <1>1, <1>2, <2>1, LinesMeant
  <2>2. CASE lines' # lines
    <3>1. PICK kind \in {"processed", "metadata"} : Item(<<[kind |-> kind, cells |-> <<>>]>>)
      BY <2>2
    <3>2. PICK line : line = [kind |-> kind, cells |-> <<>>]
      OBVIOUS
    <3>3. Begins(line) /\ Item(<<line>>)
      BY <3>1, <3>2 DEF Begins
    <3>4. \A l \in DOMAIN lines' : \/ lines'[l] = line \/ lines'[l] = Blank
                                   \/ l \in DOMAIN lines /\ lines'[l] = lines[l]
      BY <1>1, <3>3, ItemGood
    <3>5. \A l : LineMeant(line, l) /\ LineMeant(Blank, l)
      BY <3>2 DEF LineMeant, Blank
    <3>6. \A l \in DOMAIN lines' : \/ LineMeant(lines'[l], l)
                                   \/ l \in DOMAIN lines /\ lines'[l] = lines[l]
      BY <3>4, <3>5
    <3> QED
      BY <1>1, <1>2, <3>6, LinesMeant
  <2> QED
    BY <2>1, <2>2
<1>4. ConvInv' /\ EstimateInv'
  BY <1>1, <1>2 DEF ConvInv, EstimateInv
<1> QED
  BY <1>3, <1>4 DEF CutInv

\* The header is the first line, and no name in it is cut.
LEMMA HeaderMeant ==
    ASSUME FieldsInv, OutputInv, CutInv, opc = "names", opc' = "rows",
           NEW names, AreHeadings(names), AreWidths(column_width)',
           \A i \in DOMAIN all : /\ names[i].len <= column_width'[i]
                                 /\ column_width[i] <= column_width'[i],
           Item(<<Line("header", names, column_width')>>),
           UNCHANGED <<vars, table, row>>
    PROVE  CutInv'
<1>1. /\ CourseInv /\ SeparatedInv /\ AreWidths(column_width)
      /\ MeantInv /\ ConvInv /\ EstimateInv
  BY DEF OutputInv, WidthInv, CutInv
<1>2. /\ pc = "running" /\ lines = <<>> /\ DOMAIN <<>> = {} /\ Len(<<>>) = 0 /\ row = 0
      /\ first_item
  BY <1>1 DEF CourseInv
<1>3. UNCHANGED <<output_params, all, pc>>
  BY DEF vars, argsVars, fieldsVars
<1>4. PICK w, line : w = column_width' /\ line = Line("header", names, w)
  OBVIOUS
<1>5. DOMAIN line.cells = DOMAIN all /\ line.kind = "header"
  BY <1>4 DEF Line, AreHeadings
<1>6. ASSUME NEW i \in DOMAIN all PROVE ~line.cells[i].print.cut
  <2>1. names[i].len \in Nat /\ w[i] \in Nat /\ names[i].len <= w[i] /\ i \in DOMAIN names
    BY <1>3, <1>4 DEF AreHeadings, AreWidths
  <2>2. line.cells[i].print.cut => w[i] < names[i].len
    BY <1>4, <2>1, LineCut
  <2> QED
    BY <2>1, <2>2
<1>7. \A l : LineMeant(line, l)
  BY <1>5, <1>6 DEF LineMeant
<1>8. lines' = Append(<<>>, line)
  <2>1. Item(<<line>>)
    BY <1>4
  <2>2. IsSeq(lines)
    BY <1>1 DEF CourseInv
  <2> QED
    BY <1>2, <2>1, <2>2, ItemLines DEF Item
<1>9. DOMAIN lines' = 1..1 /\ lines'[1] = line /\ Len(lines') = 1
  <2>1. IsSeq(lines)
    BY <1>1 DEF CourseInv
  <2> QED
    BY <1>2, <1>8, <2>1, AppendAny
<1>10. MeantInv'
  BY <1>1, <1>3, <1>7, <1>9, LinesMeant
<1>11. EstimateInv'
  <2>1. ASSUME NEW i \in DOMAIN all PROVE WidthEstimate(ToStr(all[i]))' <= column_width'[i]
    <3>1. WidthEstimate(ToStr(all[i])) \in Nat
      BY <1>2, WhenRunning, WidthType
    <3>2. WidthEstimate(ToStr(all[i])) <= column_width[i] /\ column_width[i] <= column_width'[i]
      BY <1>1 DEF EstimateInv
    <3>3. column_width[i] \in Nat /\ column_width'[i] \in Nat
      BY <1>1, <1>3 DEF AreWidths
    <3>4. WidthEstimate(ToStr(all[i])) <= column_width'[i]
      BY <3>1, <3>2, <3>3
    <3> QED
      BY <1>3, <3>4, ColumnsEstimated
  <2> QED
    BY <1>2, <1>3, <1>9, <2>1 DEF EstimateInv
<1>12. ConvInv'
  BY <1>1, <1>3 DEF ConvInv
<1> QED
  BY <1>10, <1>11, <1>12 DEF CutInv

\* A record that is printed is cut only where it may be.
LEMMA RowMeant ==
    ASSUME FieldsInv, OutputInv, CutInv, opc = "rows", output_params.items["records"] = "yes",
           row < (IF working_mode = "list" THEN Len(table) ELSE BatchLimit),
           NEW texts,
           texts = [i \in DOMAIN all |->
                       IF working_mode = "list" THEN StreamStr(table[row + 1], i)
                       ELSE FieldStr(table[row + 1], all[i])]
    PROVE  LineMeant(Line("row", texts, column_width), row + 2)
<1>1. /\ pc = "running" /\ row \in Nat /\ table \in Tables /\ ConvInv /\ EstimateInv
      /\ \A i \in DOMAIN all : column_width[i] \in Nat
  BY DEF OutputInv, CutInv, CourseInv, WidthInv, AreWidths
<1>2. all \in Seq(Ids) /\ rec_limit \in Nat /\ \A i \in DOMAIN all : all[i] \in Ids
  BY <1>1, WhenRunning
<1>3. /\ BatchLimit \in Nat /\ Len(table) \in Nat
      /\ 1..BatchLimit \subseteq DOMAIN table /\ DOMAIN table = 1..Len(table)
  BY <1>1, <1>2, BatchLimitType
<1>4. PICK r, line : r = row + 1 /\ line = Line("row", texts, column_width)
  OBVIOUS
<1>5. r \in DOMAIN table
  BY <1>1, <1>3, <1>4
<1>6. output_params.conv["volume"] \in {"none", "readable", "binary"}
  <2>1. output_params.conv["volume"] \in {"unset", "none", "readable", "binary"}
    BY DEF FieldsInv, TypeInv, ParamsType, Convs
  <2>2. output_params.conv["volume"] # "unset"
    BY <1>1 DEF ConvInv, Known, Convs
  <2> QED
    BY <2>1, <2>2
<1>7. ASSUME NEW i \in DOMAIN all, line.cells[i].print.cut
      PROVE  MayBeCut(table[r], all[i])
  <2>1. PICK id, record, len : id = all[i] /\ record = table[r] /\ len = texts[i].len
    OBVIOUS
  <2>2. id \in Ids /\ i \in DOMAIN texts
    BY <1>2, <2>1
  <2>3. \/ len = FieldStr(table[r], id).len
        \/ len = StrLen(ToStr(id), table[r][id].val)
    <3>1. CASE working_mode = "list"
      <4>1. texts[i] = StreamStr(record, i)
        BY <1>4, <2>1, <3>1
      <4>2. StreamStr(record, i) = [of |-> all[i], len |-> StrLen(ToStr(all[i]), record[all[i]].val)]
        BY <1>2, StreamReadsItsField
      <4> QED
        BY <2>1, <4>1, <4>2
    <3>2. CASE working_mode # "list"
      BY <1>4, <2>1, <3>2
    <3> QED
      BY <3>1, <3>2
  <2>4. len \in Nat
    <3>1. FieldStr(table[r], id).len \in Nat /\ StrLen(ToStr(id), table[r][id].val) \in Nat
      BY <1>1, <1>5, <2>2, FieldStrType
    <3> QED
      BY <2>3, <3>1
  <2>5. column_width[i] < len
    <3>1. texts[i].len \in Nat /\ column_width[i] \in Nat
      BY <1>1, <2>1, <2>4
    <3>2. column_width[i] < texts[i].len
      BY <1>4, <1>7, <2>2, <3>1, LineCut
    <3> QED
      BY <2>1, <3>2
  <2>6. WidthEstimate(ToStr(id)) <= column_width[i] /\ WidthEstimate(ToStr(id)) \in Nat
    BY <1>1, <2>1, <2>2, WidthType DEF EstimateInv
  <2>7. WidthEstimate(ToStr(id)) < len
    BY <1>1, <2>4, <2>5, <2>6
  <2>8. MayBeCut(table[r], id)
    BY <1>1, <1>5, <1>6, <2>2, <2>3, <2>7, CellMeant
  <2> QED
    BY <2>1, <2>8
<1>8. DOMAIN line.cells = DOMAIN all /\ line.kind = "row"
  BY <1>4 DEF Line
<1>9. PICK l : l = row + 2 /\ l - 1 = r
  BY <1>1, <1>4
<1>10. LineMeant(line, l)
  BY <1>7, <1>8, <1>9 DEF LineMeant
<1> QED
  BY <1>4, <1>9, <1>10

----------------------------------------------------------------------------
(* Every step keeps to it.                                                 *)

\* Nothing is printed before the command line is accepted, nothing parsed then.
LEMMA ParseCuts == FieldsInv /\ OutputInv /\ CutInv /\ Parse => CutInv'
<1> SUFFICES ASSUME FieldsInv, OutputInv, CutInv, Parse PROVE CutInv'
  OBVIOUS
<1>1. CourseInv /\ MeantInv /\ ConvInv /\ EstimateInv
  BY DEF OutputInv, CutInv
<1>2. Next /\ UNCHANGED <<opc, table, row, column_width, first_item, lines>>
  BY DEF Parse, printVars
<1>3. ConvInv'
  BY <1>1, <1>2, ConvStep
<1>4. CASE opc = "off"
  <2>1. lines = <<>> /\ DOMAIN <<>> = {}
    BY <1>1, <1>4 DEF CourseInv
  <2> QED
    BY <1>2, <1>3, <1>4, <2>1 DEF CutInv, MeantInv, EstimateInv
<1>5. CASE opc # "off"
  <2>1. UNCHANGED <<output_params, all>>
    BY <1>1, <1>2, <1>5, ParsingOver DEF CourseInv, vars, argsVars, fieldsVars
  <2>2. MeantInv'
    BY <1>1, <1>2, <2>1, LinesMeant
  <2>3. \A i : WidthEstimate(ToStr(all[i]))' = WidthEstimate(ToStr(all[i]))
    BY <2>1, ColumnsEstimated
  <2>4. EstimateInv'
    BY <1>1, <1>2, <2>1, <2>3 DEF EstimateInv
  <2> QED
    BY <1>3, <2>2, <2>4 DEF CutInv
<1> QED
  BY <1>4, <1>5

\* The widths are first as estimated.
LEMMA OutputInitCuts == FieldsInv /\ OutputInv /\ CutInv /\ OutputInit => CutInv'
<1> SUFFICES ASSUME FieldsInv, OutputInv, CutInv, OutputInit PROVE CutInv'
  OBVIOUS
<1>1. CourseInv /\ ConvInv
  BY DEF OutputInv, CutInv
<1>2. /\ pc = "running" /\ opc = "off"
      /\ column_width' = [i \in DOMAIN all |-> WidthEstimate(ToStr(all[i]))]
      /\ opc' = IF working_mode = "meta" THEN "processed" ELSE "names"
      /\ UNCHANGED <<pc, output_params, all, lines>>
  BY DEF OutputInit, vars, argsVars, fieldsVars
<1>3. lines = <<>> /\ DOMAIN <<>> = {}
  BY <1>1, <1>2 DEF CourseInv
<1>4. ASSUME NEW i \in DOMAIN all PROVE WidthEstimate(ToStr(all[i]))' <= column_width'[i]
  <2>1. WidthEstimate(ToStr(all[i])) \in Nat
    BY <1>2, WhenRunning, WidthType
  <2>2. WidthEstimate(ToStr(all[i])) <= column_width'[i]
    BY <1>2, <2>1
  <2> QED
    BY <1>2, <2>2, ColumnsEstimated
<1>5. EstimateInv'
  BY <1>2, <1>4 DEF EstimateInv
<1>6. MeantInv'
  BY <1>2, <1>3 DEF MeantInv
<1>7. ConvInv'
  BY <1>1, <1>2 DEF ConvInv
<1> QED
  BY <1>5, <1>6, <1>7 DEF CutInv

\* An item that is left out.
LEMMA SkipCuts ==
    ASSUME OutputInv, CutInv, opc # "off", UNCHANGED vars,
           NEW item, NEW next, Skip(item, next),
           \/ next \notin {"names", "rows"}
           \/ opc = "names" /\ next = "rows" /\ item = "records"
    PROVE  CutInv'
<1>1. opc' = next /\ output_params.items[item] # "yes" /\ UNCHANGED <<table, row, column_width, lines>>
  BY DEF Skip, printVars
<1>2. CASE next \notin {"names", "rows"}
  BY <1>1, <1>2, PlainMeant
<1>3. CASE opc = "names" /\ next = "rows" /\ item = "records"
  <2>1. UNCHANGED <<output_params, all, pc>>
    BY DEF vars, argsVars, fieldsVars
  <2>2. MeantInv /\ ConvInv /\ EstimateInv
    BY DEF CutInv
  <2>3. MeantInv'
    BY <1>1, <2>1, <2>2, LinesMeant
  <2>4. \A i : WidthEstimate(ToStr(all[i]))' = WidthEstimate(ToStr(all[i]))
    BY <2>1, ColumnsEstimated
  <2>5. EstimateInv'
    BY <1>1, <1>3, <2>1, <2>2, <2>4 DEF EstimateInv
  <2>6. ConvInv'
    BY <2>1, <2>2 DEF ConvInv
  <2> QED
    BY <2>3, <2>5, <2>6 DEF CutInv
<1> QED
  BY <1>2, <1>3

\* The header of a listing.
LEMMA StreamNamesCut == FieldsInv /\ OutputInv /\ CutInv /\ PrintStreamNames => CutInv'
<1> SUFFICES ASSUME FieldsInv, OutputInv, CutInv, PrintStreamNames PROVE CutInv'
  OBVIOUS
<1>1. /\ opc = "names" /\ working_mode = "list" /\ UNCHANGED vars
      /\ pc = "running" /\ AreWidths(column_width)
  BY DEF PrintStreamNames, OutputInv, CourseInv, WidthInv
<1>2. CASE Skip("records", "rows")
  <2>1. opc # "off"
    BY <1>1
  <2> QED
    BY <1>1, <1>2, <2>1, SkipCuts
<1>3. CASE /\ column_width' = Widened(column_width, NamesOnly)
           /\ Item(<<Line("header", NamesOnly, column_width')>>)
           /\ opc' = "rows"
           /\ UNCHANGED <<table, row>>
  <2>1. PICK names, w : names = NamesOnly /\ w = column_width
    OBVIOUS
  <2>2. AreHeadings(names)
    BY <1>1, <2>1, HeadingsRight
  <2>3. /\ AreWidths(Widened(w, names))
        /\ \A i \in DOMAIN all : /\ names[i].len <= Widened(w, names)[i]
                                 /\ w[i] <= Widened(w, names)[i]
    <3>1. AreWidths(w) /\ \A i \in DOMAIN all : names[i].len \in Nat
      BY <1>1, <2>1, <2>2 DEF AreHeadings
    <3> QED
      BY <3>1, WidenedWide
  <2>4. column_width' = Widened(w, names)
    BY <1>3, <2>1
  <2>5. /\ AreWidths(column_width)'
        /\ \A i \in DOMAIN all : /\ names[i].len <= column_width'[i]
                                 /\ column_width[i] <= column_width'[i]
    BY <1>1, <2>1, <2>3, <2>4 DEF AreWidths, vars, fieldsVars
  <2>6. Item(<<Line("header", names, column_width')>>)
    BY <1>3, <2>1
  <2> QED
    BY <1>1, <1>3, <2>2, <2>5, <2>6, HeaderMeant
<1> QED
  BY <1>2, <1>3 DEF PrintStreamNames

\* The header of a batch.
LEMMA BatchNamesCut == FieldsInv /\ OutputInv /\ CutInv /\ PrintBatchNames => CutInv'
<1> SUFFICES ASSUME FieldsInv, OutputInv, CutInv, PrintBatchNames PROVE CutInv'
  OBVIOUS
<1>1. /\ opc = "names" /\ working_mode \in {"sort", "aggr"} /\ UNCHANGED vars
      /\ pc = "running" /\ AreWidths(column_width) /\ table \in Tables
  BY DEF PrintBatchNames, OutputInv, CourseInv, WidthInv
<1>2. CASE Skip("records", "processed")
  <2>1. opc # "off"
    BY <1>1
  <2> QED
    BY <1>1, <1>2, <2>1, SkipCuts
<1>3. CASE /\ column_width' =
                Widened(IF output_params.ellipsize THEN column_width
                        ELSE ExactWidths(column_width), BatchNames)
           /\ Item(<<Line("header", BatchNames, column_width')>>)
           /\ opc' = "rows"
           /\ UNCHANGED <<table, row>>
  <2>1. PICK names, c, w :
           /\ names = BatchNames /\ c = column_width
           /\ w = IF output_params.ellipsize THEN column_width ELSE ExactWidths(column_width)
    OBVIOUS
  <2>2. AreHeadings(names)
    BY <1>1, <2>1, HeadingsRight
  <2>3. AreWidths(w) /\ \A i \in DOMAIN all : c[i] <= w[i]
    <3>1. AreWidths(c) /\ rec_limit \in Nat /\ all \in Seq(Ids)
      BY <1>1, <2>1, WhenRunning
    <3>2. AreWidths(ExactWidths(c)) /\ \A i \in DOMAIN all : c[i] <= ExactWidths(c)[i]
      BY <1>1, <3>1, ExactWide
    <3>3. \A i \in DOMAIN all : c[i] <= c[i]
      BY <3>1 DEF AreWidths
    <3> QED
      BY <2>1, <3>1, <3>2, <3>3
  <2>4. /\ AreWidths(Widened(w, names))
        /\ \A i \in DOMAIN all : /\ names[i].len <= Widened(w, names)[i]
                                 /\ w[i] <= Widened(w, names)[i]
    <3>1. \A i \in DOMAIN all : names[i].len \in Nat
      BY <2>2 DEF AreHeadings
    <3> QED
      BY <2>3, <3>1, WidenedWide
  <2>5. PICK v : v = Widened(w, names)
    OBVIOUS
  <2>6. column_width' = v
    BY <1>3, <2>1, <2>5
  <2>7. ASSUME NEW i \in DOMAIN all PROVE names[i].len <= v[i] /\ c[i] <= v[i]
    <3>1. names[i].len <= v[i] /\ w[i] <= v[i] /\ c[i] <= w[i]
      BY <2>3, <2>4, <2>5
    <3>2. c[i] \in Nat /\ w[i] \in Nat /\ v[i] \in Nat
      BY <1>1, <2>1, <2>3, <2>4, <2>5 DEF AreWidths
    <3> QED
      BY <3>1, <3>2
  <2>8. /\ AreWidths(column_width)'
        /\ \A i \in DOMAIN all : /\ names[i].len <= column_width'[i]
                                 /\ column_width[i] <= column_width'[i]
    BY <1>1, <2>1, <2>4, <2>5, <2>6, <2>7 DEF AreWidths, vars, fieldsVars
  <2>9. Item(<<Line("header", names, column_width')>>)
    BY <1>3, <2>1
  <2> QED
    BY <1>1, <1>3, <2>2, <2>8, <2>9, HeaderMeant
<1> QED
  BY <1>2, <1>3 DEF PrintBatchNames

\* One more record.
LEMMA RowCuts == FieldsInv /\ OutputInv /\ CutInv /\ PrintRow => CutInv'
<1> SUFFICES ASSUME FieldsInv, OutputInv, CutInv, PrintRow PROVE CutInv'
  OBVIOUS
<1>1. CourseInv /\ MeantInv /\ ConvInv /\ EstimateInv
  BY DEF OutputInv, CutInv
<1>2. PICK rows, texts :
         /\ rows = IF working_mode = "list" THEN Len(table) ELSE BatchLimit
         /\ texts = [i \in DOMAIN all |->
                        IF working_mode = "list" THEN StreamStr(table[row + 1], i)
                        ELSE FieldStr(table[row + 1], all[i])]
  OBVIOUS
<1>3. /\ opc = "rows" /\ row \in Nat /\ UNCHANGED <<vars, table, column_width>>
      /\ \/ /\ row < rows
            /\ row' = row + 1
            /\ lines' = IF output_params.items["records"] = "yes"
                        THEN Append(lines, Line("row", texts, column_width)) ELSE lines
            /\ opc' = opc
         \/ row = rows /\ opc' = "processed" /\ UNCHANGED <<row, lines>>
  BY <1>1, <1>2 DEF PrintRow, CourseInv
<1>4. UNCHANGED <<output_params, all, pc>>
  BY <1>3 DEF vars, argsVars, fieldsVars
<1>5. CASE opc' = "processed"
  BY <1>3, <1>5, PlainMeant
<1>6. CASE opc' = "rows"
  <2>1. /\ row < rows /\ row' = row + 1
        /\ lines' = IF output_params.items["records"] = "yes"
                    THEN Append(lines, Line("row", texts, column_width)) ELSE lines
    BY <1>3, <1>6
  <2>2. PICK line, n : line = Line("row", texts, column_width) /\ n = Len(lines)
    OBVIOUS
  <2>3. /\ output_params.items["records"] = "yes" => Len(lines') = row' + 1
        /\ \A l \in DOMAIN lines' : \/ LineMeant(lines'[l], l)
                                    \/ l \in DOMAIN lines /\ lines'[l] = lines[l]
    <3>1. CASE output_params.items["records"] = "yes"
      <4>1. n = row + 1
        BY <1>1, <1>3, <2>2, <3>1 DEF EstimateInv
      <4>2. IsSeq(lines) /\ lines' = Append(lines, line)
        BY <1>1, <2>1, <2>2, <3>1 DEF CourseInv
      <4>3. /\ DOMAIN lines = 1..n /\ n \in Nat /\ Len(lines') = n + 1
            /\ DOMAIN lines' = 1..(n + 1)
            /\ \A l \in 1..n : lines'[l] = lines[l]
            /\ lines'[n + 1] = line
        BY <2>2, <4>2, AppendAny
      <4>4. LineMeant(line, row + 2)
        <5>1. row < (IF working_mode = "list" THEN Len(table) ELSE BatchLimit)
          BY <1>2, <2>1
        <5> QED
          BY <1>2, <1>3, <2>2, <3>1, <5>1, RowMeant
      <4>5. n + 1 = row + 2
        BY <1>3, <4>1
      <4>6. LineMeant(line, n + 1)
        BY <4>4, <4>5
      <4>7. \A l \in DOMAIN lines' : \/ LineMeant(lines'[l], l)
                                     \/ l \in DOMAIN lines /\ lines'[l] = lines[l]
        <5> TAKE l \in DOMAIN lines'
        <5>1. l \in 1..n \/ l = n + 1
          BY <4>3
        <5> QED
          BY <4>3, <4>6, <5>1
      <4>8. Len(lines') = row' + 1
        BY <1>3, <2>1, <4>1, <4>3
      <4> QED
        BY <4>7, <4>8
    <3>2. CASE output_params.items["records"] # "yes"
      BY <2>1, <3>2
    <3> QED
      BY <3>1, <3>2
  <2>4. MeantInv'
    BY <1>1, <1>3, <1>4, <2>3, LinesMeant
  <2>5. \A i : WidthEstimate(ToStr(all[i]))' = WidthEstimate(ToStr(all[i]))
    BY <1>4, ColumnsEstimated
  <2>6. EstimateInv'
    BY <1>1, <1>3, <1>4, <1>6, <2>3, <2>5 DEF EstimateInv
  <2>7. ConvInv'
    BY <1>1, <1>4 DEF ConvInv
  <2> QED
    BY <2>4, <2>6, <2>7 DEF CutInv
<1> QED
  BY <1>3, <1>5, <1>6

\* The summaries.
LEMMA SummariesCut == OutputInv /\ CutInv /\ (PrintProcessedSumm \/ PrintMetadataSumm) => CutInv'
<1> SUFFICES ASSUME OutputInv, CutInv, PrintProcessedSumm \/ PrintMetadataSumm PROVE CutInv'
  OBVIOUS
<1>1. CASE PrintProcessedSumm
  <2>1. opc # "off" /\ UNCHANGED vars
    BY <1>1 DEF PrintProcessedSumm
  <2>2. CASE Skip("processed_summ", "metadata")
    BY <2>1, <2>2, SkipCuts
  <2>3. CASE ~Skip("processed_summ", "metadata")
    <3>1. /\ Item(<<[kind |-> "processed", cells |-> <<>>]>>)
          /\ opc' = "metadata" /\ UNCHANGED table
      BY <1>1, <2>3 DEF PrintProcessedSumm
    <3> QED
      BY <2>1, <3>1, PlainMeant
  <2> QED
    BY <2>2, <2>3
<1>2. CASE PrintMetadataSumm
  <2>1. opc # "off" /\ UNCHANGED vars
    BY <1>2 DEF PrintMetadataSumm
  <2>2. CASE Skip("metadata_summ", "done")
    BY <2>1, <2>2, SkipCuts
  <2>3. CASE ~Skip("metadata_summ", "done")
    <3>1. /\ Item(<<[kind |-> "metadata", cells |-> <<>>]>>)
          /\ opc' = "done" /\ UNCHANGED table
      BY <1>2, <2>3 DEF PrintMetadataSumm
    <3> QED
      BY <2>1, <3>1, PlainMeant
  <2> QED
    BY <2>2, <2>3
<1> QED
  BY <1>1, <1>2

\* Every step of the master keeps to it.
LEMMA CutStep == FieldsInv /\ OutputInv /\ CutInv /\ [PrintNext]_outputVars => CutInv'
<1> SUFFICES ASSUME FieldsInv, OutputInv, CutInv, [PrintNext]_outputVars PROVE CutInv'
  OBVIOUS
<1>1. CASE PrintNext
  BY <1>1, ParseCuts, OutputInitCuts, StreamNamesCut, BatchNamesCut, RowCuts, SummariesCut
     DEF PrintNext
<1>2. CASE UNCHANGED outputVars
  <2>1. /\ MeantInv /\ ConvInv /\ EstimateInv
        /\ UNCHANGED <<output_params, all, pc, table, opc, row, column_width, lines>>
    BY <1>2 DEF CutInv, outputVars, printVars, vars, argsVars, fieldsVars
  <2>2. MeantInv'
    BY <2>1, LinesMeant
  <2>3. \A i : WidthEstimate(ToStr(all[i]))' = WidthEstimate(ToStr(all[i]))
    BY <2>1, ColumnsEstimated
  <2>4. EstimateInv'
    BY <2>1, <2>3 DEF EstimateInv
  <2>5. ConvInv'
    BY <2>1 DEF ConvInv
  <2> QED
    BY <2>2, <2>4, <2>5 DEF CutInv
<1> QED
  BY <1>1, <1>2

\* At first nothing is printed.
LEMMA CutInitial == PrintInit => CutInv
<1> SUFFICES ASSUME PrintInit PROVE CutInv
  OBVIOUS
<1>1. lines = <<>> /\ DOMAIN <<>> = {} /\ opc = "off" /\ pc = "getopt"
  BY DEF PrintInit, Init
<1> QED
  BY <1>1 DEF CutInv, MeantInv, ConvInv, EstimateInv, Known

\* print_field never cuts a column's name, and a value only where
\* get_column_width_estimate leaves no room for all values of its type: the widths
\* are at least the estimated ones, and volume_to_str, which leaves at most one
\* thousand, or 1024, of a unit, makes no longer text unless it rounds to 1000.0.
THEOREM OutputCutOnlyWhereMeant == PrintSpec => []CutOnlyWhereMeant
<1>1. CutInv => CutOnlyWhereMeant
  BY DEF CutInv, MeantInv, LineMeant, CutOnlyWhereMeant, Grid
<1>2. PrintSpec => []CutInv
  BY CutInitial, CutStep, FieldsWhilePrinting, OutputInvariant, PTL DEF PrintSpec
<1> QED
  BY <1>1, <1>2, PTL

============================================================================
