# fdistdump in TLA+

fdistdump answers queries over files of IP flow records with MPI and OpenMP.
Process 0 is the *master*; every other process is a *slave* that reads the flow
files of its node with a team of OpenMP threads and sends records to the master,
which merges and prints them. This directory holds TLA+ models of the program,
TLC configurations that check them, and proofs checked by TLAPS.

## Inventory

| Part | State | Operations | Interacts with |
|---|---|---|---|
| Listing path (`slave.c` `ff_read_and_send`, `send_terminator`; `master.c` `recv_loop`) | per thread two record buffers, a send request, counters; per slave the shared counter and the limit flag; on the master two receive buffers and the number of active sources | read, store, send a full buffer, count, check the limit, send the rest, terminate; receive data or a terminator, print | MPI point-to-point messages, OpenMP shared counters |
| Sort, aggregation, TPUT (`slave.c`, `master.c` `tput_*`, `print_batch`) | a libnf memory per thread and on the master; threshold and record buffer shared by a team | send first N / threshold / looked-up records; find the bottom, broadcast threshold and keys, merge, print | broadcasts inside `omp single`, barriers |
| Transport of libnf memories (`send_raw_mem`, `recv_loop`, `mem_write_raw_callback`) | two send buffers per thread with offset and count, two receive buffers, active sources | pack a record behind its size, send a full buffer, send the rest, terminate; receive, unpack, write | MPI messages, the rounds of TPUT |
| Start, course and end of a query (`main`, `slave_main`, `master_main`, `progress_bar_thread`, `mpi_comm_*`) | control of processes, teams, the two threads of the master; progress counts and what the bar shows; metadata counters | parse arguments, duplicate communicators, gather file counts, reduce thread counts, fork, process files, report progress, join, reduce summaries, release, finalise | three communicators, one for each thread of the master |
| Bloom filter indexes (`bfindex.c`) | static error code and address count, a tree per thread | build, prune, look up | the record filter, flow files |
| Command line and fields (`arg_parse.c`, `fields.c`, `libnf_mem_init_*`) | option arguments, working mode, limit, output parameters; `struct fields`: all fields, aggregation keys, sort key, output fields | take an option, choose the mode, add a key, set the sort key, add an output field, set defaults, check, initialise a memory | libnf |
| Time options (`arg_parse.c`, `tm_diff`, `mktime_utc`) | begin and end of the range | complete, convert, align, check | current time |
| Path array (`path_array.c`) | growing array of names | preprocess, search a time range, walk a directory | file system, time range |
| Output (`output.c`) | `o_ctx`: widths, alignments, offsets and callbacks of the columns, `first_item` | initialise, print names, print a record, print a batch, print the summaries | fields, output parameters, records, summaries |
| Errors and messages (`errwarn.c`) | - | - | not modelled, see below |

What is hard: threads of a team share a counter and a flag that decide which
records are dropped; buffers are reused while MPI reads them; messages of many
sources interleave and only empty messages separate phases; collectives are
called from inside thread teams and from two threads of the master; TPUT prunes
on the strength of arithmetic; static variables are shared by threads without
synchronisation; sizes are unsigned and wrap around; several arrays have fixed
limits; column widths are estimated from types before values are known. `PROJECT.json` lists every
such place with its line under `hazards`, with the properties that cover it.

## Modules

| Module | Models | State and actions |
|---|---|---|
| `ListQuery` | the listing path with MPI messages, one action per statement that other threads can observe | variables carry the C names; the labels of `pc` are the places of `ff_read_and_send`, those of `mpc` the places of `recv_loop` |
| `Listing` | what a listing promises: matching records, each once, min(limit, matches) of them, then the end | abstract specification that `ListQuery` implements (`ImplementsListing`, mapping: expected records, limit, printed records, end of `recv_loop`) |
| `BatchQuery` | sorting, aggregation and TPUT after the files are read | memories are functions from keys to values; what a thread sends in a phase is one message; labels of `pc` are the phases |
| `RawMem` | the bytes of these messages: framing, buffers and terminators through one or three rounds | a buffer is a function from offsets to units; the space left is computed modulo `SIZE_MAX + 1` and converted to `int` as in the call of libnf; one action per pass of a loop |
| `Gathering` | what the transport promises: each round gathers exactly the records due, then the next one starts | abstract specification that `RawMem` implements (`ImplementsGathering`, mapping: records due by limit, round of the master, its memory as a bag, end of the last `recv_loop`) |
| `Query` | the order of collectives, messages and barriers from `MPI_Init_thread` to `MPI_Finalize`; metadata summary; progress bar | `ppc`, `spc`, `tpc`, `mpc`, `main`, `prog` are the places of `main`, slaves, worker threads, master and its two threads; `colls` records the collectives each process entered on each communicator; a file is one step, a phase one message |
| `BfIndex` | concurrent construction and use of index trees | filters and trees are sequences of nodes, operands before operators; one action per filter node, the racy increment in two steps |
| `Fields` | from the command line to `struct fields`, output parameters and columns | one action per option, then one per token of an option |
| `Output` | from `struct fields`, output parameters and records to the lines printed; extends `Fields` | a string is its length, a line its cells; one action per item or record |
| `Calendar` | broken-down times, `mktime_utc`, `tm_diff` | operators |
| `TimeRange` | time options | one action per second of the alignment loops |
| `PathArray` | from paths to flow files | one action per path, interval or directory entry |
| `FileSelection` | `TimeRange` followed by `PathArray`, as a slave runs them | `PathArrayGen` hands the range over |
| `ListQuery_proofs`, `BatchQuery_proofs`, `RawMem_proofs`, `Query_proofs`, `BfIndex_proofs` | proofs about these modules | |
| `Output_proofs` | proofs about `Fields` and about `Output`, which extends it | |
| `FileSelection_proofs` | proofs about `Calendar`, `TimeRange`, `PathArray` and `FileSelection` | |
| `SumTheorems` | sums over finite sets, for the proofs | |
| `MC*` | instances for TLC | |

The modules meet at their interfaces. `FileSelection` composes time options and
path array, and `Output` composes command line and printing. The file list is a
constant of `ListQuery` and `Query`; `Fields` yields mode and TPUT flag, inputs
of `BatchQuery` and `Query`; `ListQuery` assumes of indexes what `BfIndex`
establishes (`NoMatchSkipped`, for filters that are `Indexable`); `BatchQuery` assumes of messages what `RawMem`
establishes (`ImplementsGathering`: each thread's records of a phase arrive once
and before the next phase), and `Query` replaces the contents of messages
altogether. Where several checks answer one question the run checks their
conjunction (`TputClaims`, `TimeOptionsMeant`, ...), whose parts have names and
comments of their own. Operators whose comment begins with "Mistake:" are altered copies of the definition after them; they are not used by any
specification and exist to show that a property notices the mistake.

MPI, libnf, OpenMP, the calendar and the file system are external and modelled
as the code uses them. In `ListQuery` and `RawMem` a nonblocking send leaves its
data in the sender's buffer until MPI copies it (`Transfer`, under no fairness, so both
eager and rendezvous behaviour are covered) or a receive matches it. In `Query`
a collective may return early where MPI allows it, and is certain to return only
when everybody has entered it; a blocking send may be buffered or synchronous.

## Runs

| Run | Instance | Checks |
|---|---|---|
| `ListRace` | one slave, two threads, one-record buffers, limits 0, 1, 3; files with matching and other records, unreadable, pruned, damaged ones | types and ranges, buffers, decisions about the limit (flag, warnings), nothing left in MPI, output accounted for (no record twice, summary), refinement of `Listing`, termination |
| `TputTeams` | three threads on two slaves, seven memories with zeros, ties and absent keys in every combination; TPUT descending with limits 1 and 2, sorting and plain aggregation in both directions with limits 0 to 2 | exact result; the two claims of the algorithm about bottom and candidates; shared buffer alive, termination |
| `RawRounds` | two threads, buffers of eight units with headers of two and records of two, five or six; full, small and empty memories; one round, or three with thresholds and look-ups that find nothing or something | offsets stay within the buffers although the space left wraps around; buffers not shared; an empty message is a terminator; sizes are read where they were written; rounds apart; refinement of `Gathering`, whose fairness includes that the last round ends |
| `QueryCourse` | two slaves with two and one threads, a master with two threads, zero to four files, some unreadable; help, listing, TPUT, metadata; every type of bar on a stream, in a file and in one that cannot be opened | collectives agree on all communicators and never overlap, progress and the end of the bar, no remains in the progress file, metadata counters, no message lost, termination |
| `BfPlain` | two threads, eleven filters in which no disjunction loses just one operand, limit 4 | no file with a match is skipped; index in use below the limit |
| `OutputLayout` | all short lists of five fields with room for two keys and three output fields, pairs and some triples of options, and every layout (format, conversions, rich header, ellipsis, limit) of results with values at and beyond the width of their columns | array bounds, `fields_check` at every moment, nothing lost, columns, metadata mode; straight and rightly named columns, empty lines, nothing cut that should fit |
| `FilesByTime` | 18 current times around ends of months, years, 2000 and 2100, every kind of specification, a time zone off UTC; two slaves, lists of up to three paths | the right interval, the covering range, the latest date, `tm_diff`; every file as often as asked for, array bounds; time options select exactly the files of the intervals they touch; the search ends |
| `TputAscending`, `BfDisjunction`, `FieldsSort`, `FieldsLimit`, `PathLong` | smallest instances | disagreements, see Findings |

Bounds. A buffer of one record and files of up to three suffice for every branch of
`ff_read_and_send`: room, full, switch, rest. Two threads of one slave are needed for a
limit reached by *another* thread, and they send more than the limit, so that the master
has to cut. Limits applied on several slaves separately, slaves without files and larger
buffers are left to the theorem `ListingImplemented`, which holds for any of them; that
several slaves come to their end is checked in `QueryCourse`. Three
keys are the fewest with which phase 1 of TPUT misses a key of the result (an
empty memory stands for a thread that does not matter); three threads on two
slaves make a team whose members are in different phases, next to another team.
The array limits of `Fields` are 2 and 3, below the length of the option lists. `Mantissa` is the
precision of a double, 24 in the runs, which no value comes near. The runs
thus say nothing about totals above 2^53.

The sizes of `RawRounds` give each relation of record and buffer its case: two
records of length two fill a buffer exactly, one of five leaves less than a
header (the difference wraps around), one of six (`LNF_MAX_RAW_LEN`) fills a
buffer alone. `SizeRange` and `IntRange` stand for 2^64 and 2^32; the assumption
`RawSizesAssumption` is what the argument needs of them. Three records make both
buffers be used twice. `MaxUnits`, two, is enough for volumes up to
`MaxVolume`, 10^9; a further unit behaves like the second. `Digits` counts up to ten digits,
which is `DOUBLE_PRINT_MAX` and the longest `uint32_t`; longer integers only
occur in columns of twenty. Doubles beyond `DOUBLE_PRINT_MAX` are left out: their columns are
not made for them.
`MaxIntervals`, four, bounds the ranges that `FileSelection` searches; longer ones
are only checked as ranges. The rotation interval is 8 seconds, so that alignment
takes up to seven steps; calendar times count from 2050 to stay within TLC's
integers. The files of `QueryCourse` are the fewest for idle slaves, a thread with
two files and one that cannot be opened, and a percentage that grows from one digit to
three. One of the three groups of metadata counters is modelled, as the
code treats flows, packets and bytes alike.

Fairness. Every thread, the master and its progress thread keep running (weak
fairness of their steps: the operating system schedules all of them). MPI
eventually matches a posted receive with some message, not with one of a given
sender. In `Query` there is one condition for each thread of control (the initial
thread of a process, the worker threads, the progress thread), and it covers only
steps nothing can hold back: collectives everybody has entered and sends that have
been received. No fairness is assumed of `Transfer`. In `PathArray` and
`FileSelection` the slave runs on. `BfIndex`, `Fields`, `Output` and
`TimeRange` claim safety only.

Mode `MODE_META` receives nothing; sort and aggregation take the same course as
a listing in `Query`, so `QueryCourse` leaves them out.

## Proofs

TLAPS checks the theorems below for every value of the constants. Their assumptions
are the named `ASSUME`s of the modules, which TLC evaluates in every run; each run's
invariants that a theorem states are marked in `PROJECT.json`. None of the
properties is inductive. Each has an invariant of its own. In the proofs every action has a step, and under it
there is one for each part of the invariant that it can disturb.

### Listing (`ListQuery`)

Assumptions: `ThreadsAssumption`, `TeamsAssumption` (an OpenMP team has a thread),
`BoundsAssumption`, `FlowFilesAssumption`.

- `TypeCorrect`, `BuffersSafe` (`BuffersNotShared`), `RecvLoopDrains`
  (`NothingLeftBehind`) follow from `Inv`. `SenderInv`: an incomplete message in a
  thread's buffer lies in the buffer its request names, and where a thread fills a
  buffer this is the other one, or none; this is why waiting before each
  send, rather than before each refill, is enough. `TerminatorLast` and
  `TerminatorsCounted`: an empty message is the last of its thread, and
  `active_sources` counts the threads whose terminator no receive has matched, plus
  one while a matched one has not been counted; a count of zero then means empty
  channels.
- `LimitSound` (`LimitDecisionsSound`) follows from `LimitInv`. The shared counter
  `proc_rec_cntr` is the number of *distinct* records that have been sent and
  counted (`CountInv`), because no two threads have the same file (`PathInv`), a
  buffer holds records of one file in ascending order (`HeldInv`) and what has been
  sent of that file is before them (`FileSentInv`).
- `OutputCounted` (`OutputAccounted`) and `ListingImplemented` (`Spec =>
  Listed!Safety`, the step simulation of `Listing`) follow from `OutputInv`. A
  record is in one place at a time: a message, the completed receive, the message
  being processed, the output (`Apart`). Nothing sent is lost before the master has
  printed enough (`Arrives`), and a matching record of a file that was taken is
  sent, pending with one thread, or the limit is reached (`NoneMissed`). The
  summary needs a partition of the records between the slave's counter and the
  private ones of its threads (`SummaryInv`).

### Transport (`RawMem`)

Assumptions: `RawThreadsAssumption`, `RawSizesAssumption` (the assertion at the head of
`send_raw_mem`, and of the integer types only that `UINT_MAX + 1` is even, larger
than two buffers and a divisor of `SIZE_MAX + 1`), `RawJobsAssumption`.

- `RawTypeCorrect` (`TypeOK`), `RawBuffersSafe`, `MessagesSound`
  (`MessagesWellFormed`), `RoundsKeptApart` (`RoundsApart`). The lemma `FitsMeans`:
  the test for space is exact, although the difference wraps around modulo
  `SIZE_MAX + 1` and is then converted to `int`. `Framed`: the units of a buffer
  up to its offset are records behind their sizes, which is carried through sending,
  transfer and reception to `recv_loop` (`FrameInv`, `RecvFrames`). `RoundInv`: a thread is at most
  one round behind the master, and then silent.
- `GatheringImplemented` (`Spec => Gathered!Safety`, the step simulation of
  `Gathering`). `GatherInv` says where the records due in a round are: still ahead of
  the cursor of their thread, framed in one of its two buffers or in a message, in the
  receive buffer that is being unpacked (`RecvPackInv`), or in the memory of the
  master, which as a bag holds exactly those that are in none of the other places
  (`BagInv`). Empty channels at the end of a round then leave only the memory.

### Sorting, aggregation, TPUT (`BatchQuery`)

Assumptions: `ThreadsAssumption`, `InputAssumption`, `SentinelAssumption` (the markers
for "not set" and "freed" are neither numbers nor sets of keys).

- `BufferKept` (`BufferAlive`) follows from `BatchInv`, which also says what each
  message holds (`Content`) and what the master has gathered from the threads it
  has heard: complete sums (`SumsGathered`), parts of sums for enough keys
  (`PartsGathered`), everything above the threshold (`KeysGathered`), or all but
  records preceded by `rec_limit` others (`SortGathered`).
- `TputSound` (`TputClaims`) and `TopPrinted` (`TopRecordsPrinted`) need two
  hypotheses, for TPUT only. `DescendingTput`: TPUT sorts in descending order; in
  ascending order the claim is false (run `TputAscending`). `ThresholdFits(top)`:
  no value is above `top`, and for bottoms up to `top` times the number of threads
  the threshold that comes out of the `double` arithmetic is less than one above
  the exact quotient. TLC evaluates both on the instance of `TputTeams`
  (`ExactConditions`). `SmallTotalsFit` proves the second one whenever the greatest
  value times the number of threads is below 2^`Mantissa` (2^53 in the code): doubles
  are integers there, so the threshold is the ceiling of the quotient
  (`SmallThreshold`). `SmallTopPrinted` is `TopPrinted` without it. The argument: a key
  that no thread found worth sending has a total of at most n * (threshold - 1),
  which is below the bottom (`PrunedBelow`), and the bottom is reached by
  `rec_limit` keys unless all keys reach it (`BottomFound`), so `rec_limit`
  candidates beat it (`PrunedBeaten`). `TopOfSome`: when every record left out is
  preceded by n of the others, the first n of the others are the first n of all.
  It serves sorting and TPUT alike.

### Course of a query (`Query`)

Assumption: `QueryAssumption`.

- `CollectivesOrdered` (`CollectivesAgree`) and `CollectivesOneByOne`
  (`OneCollectiveAtATime`) follow from `ControlInv`: what a process has called on a
  communicator is a prefix of one course that depends on the mode only, of a length
  given by where its threads are (`OnCourse`).
- `ProgressCounted` (`ProgressExact`), `NothingRemains` (`NoRemains`),
  `SummaryCounted` (`SummaryComplete`), `NoMessagesLost` (`NoMessageLost`): each has
  an invariant on top of `ControlInv`. `Reports`: a file taken from the loop is
  counted by the master or its report is under way. `Counted`: shared and private
  counters together count the files taken that could be opened. `Heard`: the master
  waits for as many messages as there are announced threads it has not heard in
  the round.

### Bloom filter indexes (`BfIndex`)

Assumption: `BfAssumption` (each filter is a sequence of nodes that belong together).

- `FilesSkippedRightly` (`NoMatchSkipped`) and `IndexUsed` (`IndexInUse`) follow from
  `BfInvariant`. `NoMatchSkipped` is false for some filters (run `BfDisjunction`), so
  the theorem has the hypothesis `Indexable` of all filters. Either no node resets the
  error code; then a lost operand stays recorded, and no thread that lost one uses its
  tree, however many addresses there are (`LostInv`). Or the addresses stay within
  the limit, so that exactly the plain addresses become nodes, and the operands of
  each disjunction both need an address or both do not; conjunctions may lose
  operands. The run states (`PlainFiltersIndexable`, `MixedFiltersNot`) on which side
  its filters are. `CountInv`: `ip_cnt`, and what a thread has loaded of it, is at most
  the number of addresses that all threads have visited, since a lost increment only
  makes it smaller.
- `Value` evaluates filters and trees along the sequence of nodes. `ValueMeans` shows
  that its recursive function exists and satisfies its equations, and
  `TreeKeepsMatches` is the induction over the nodes: what is left in a balanced
  tree is implied by the filter node it stands for.

### Command line, fields and output (`Fields`, `Output`)

Assumptions: `FieldsAssumption` (the table of fields, the capacities and the lists of
options are of the right kinds), `OutputAssumption`, `ValuesAssumption` (values are in
the range of their types, volumes up to `MaxVolume`).

- `FieldsTypeCorrect`, `FieldsAlwaysConsistent`, `FieldsNothingLost`,
  `FieldsColumnsExact`, `FieldsMetadataMeant` follow from `FieldsInvariant`. The array of
  all fields is at every stage the keys, the sort key unless it is a key, and the
  output fields, one behind the other and without repetition (`ShapeInv`,
  `TokensInv`), and mode and limit are what the options looked at so far say
  (`ModeInv`, `LimitInv`).
- `FieldsLimitDocumented` (`LimitAsDocumented`) has the hypothesis `StatisticsFirst`: no
  command line has a `--statistic` behind a `--limit`. Without it the manual's claim is
  false (run `FieldsLimit`).
- `PrintingParses` (`PrintSpec => Spec`): every behaviour of `Output` is one of
  `Fields`, so all this holds while lines are printed.
- `OutputLayoutRegular` (`LayoutRegular`) and `OutputColumnsNamed` (`ColumnsNamed`)
  follow from `OutputInvariant`: widths are settled before the header is printed
  (`WidthInv`), every line printed so far fills them (`LinesInv`), and items are set
  apart (`SeparatedInv`).
- `OutputCutOnlyWhereMeant` (`CutOnlyWhereMeant`) follows from `CutInv` on top of it:
  every kind of value has a conversion once the command line is accepted, columns are
  at least as wide as estimated, and each record is printed on the line of its number.
  What remains is arithmetic: a number below a power of ten has at most that many
  digits (`DigitsBound`), a divided volume has at most the digits of its threshold
  (`TenthsLeft`), hence texts fit (`TextFits`) unless `MayBeCut` says so.

### Time options and path array (`TimeRange`, `PathArray`, `FileSelection`)

Assumptions: `CalendarAssumption` (the rotation interval divides a day),
`TimeAssumption`, `PathAssumption` (the file system is a tree, the entries of a
directory differ, and no path is too long, see finding 4), `SelectionAssumption`.

- `SelectionDurationExact` (`DurationExact`): `tm_diff` is the difference of calendar
  times for all dates, over all integers; the run has 18. It rests on lemmas about
  leap years, months and `mktime_utc`.
- `SelectionTimesMeant` (`TimeOptionsMeant`) follows from `TimesInvariant`: while
  begin and end are aligned second by second they do not leave the interval that
  contains what was asked for, and an accepted range is not empty (`AlignInv`).
- `SelectionTypeCorrect` (`TypeOK`): the array is enlarged in time.
- `ArrayFilesExact`, `SelectionFilesExact` (`FilesExact`) and `SelectionTimesSelect`
  (`TimeSelectsFiles`) follow from `ListInv`: a file is listed once for each earlier
  path that asks for it, and once more if the path in work has come by it
  (`PathInWork`); no file is below two names that are still to be visited, because
  the entries of a directory differ (`WalkInv`). Hypothesis: `TimesNamed`, different
  times have different names. `FLOW_FILE_FORMAT` prints all of a time down to the
  second, so the code justifies it.
- `TimeSelectsFiles` is about names below one path of the command line and below no
  other. If one directory is given inside another, a file of the inner one can have
  a name that only the outer one asks for, with directories in the place of times.

### Lemmas

The library's induction theorems take an operator as a parameter, which no installed
prover can instantiate. `SumTheorems` derives induction over numbers and finite sets
in first-order form (a set that contains zero and is closed under successors, a
family of sets closed under adding an element) from the least element of a nonempty
set of numbers, and with it the laws of `MapThenSumSet` that the counting arguments
use (adding a term, bounds, support, equal terms).

### Only model-checked

- `Termination`, `SelectionEnds`, and the fairness halves of `ImplementsListing` and
  `ImplementsGathering`: liveness is out of reach of the prover.
- Nothing is claimed of TPUT for totals of 2^53 and more without the hypothesis
  `ThresholdFits`: it is needed, see Findings.

## Findings

Each has a run that exhibits it; `PROJECT.json` quotes the lines.

1. TPUT in ascending order does not give the Top-N (`TputAscending`).
2. Pruning an operand of OR that is no address skips files with matches
   (`BfDisjunction`).
3. An invalid sort direction is accepted (`FieldsSort`).
4. A time range below a very long directory name never ends (`PathLong`).
5. A `--limit` before `--statistic` is replaced by the default limit 10 (`FieldsLimit`),
   although the manual lets an explicit limit change the default
   (`doc/man/fdistdump.1.in:213`) and has `-l 3 -s bytes` print three records.

Met while modelling, and without a run of their own:

- A thread without a record at the TPUT threshold sends all of them, because a
  count of zero means "all" to `send_raw_mem` (`slave.c:809`). `Phase2` does the
  same; the result is not affected.
- The threshold of TPUT is computed in `double` (`master.c:545`). Above 2^53 the bottom
  can be rounded up so far that threads withhold records of the Top-N, also in descending
  order. `Threshold` models this: with `Mantissa = 3`, a mantissa of three bits, two
  threads that both hold values 13 and 11 and a limit of two, the bottom 22 becomes 24, the
  threshold 12, and one record is printed; `TopRecordsPrinted` fails.
- `--output-ts-conv` takes no notice of an unknown argument.
- The announced number of threads is an upper bound of the team's size
  (`slave.c:1067`). With `FullTeams = FALSE` the master waits for ever in `Query`.
- If OpenMP gives the master a team of one (`master.c:759`), its main part runs
  before the progress part and waits for slaves that are still waiting in the
  gathering of file counts: `Termination` fails with `MasterTeam = 1`.
- A volume of exactly 1000, or one that is rounded to 1000.0, is not divided
  further (`output.c:448`) and has one character more than its column is made for:
  with ellipsis its unit is cut off. `MayBeCut` names the case.
- A value that is not set is printed as "absent" (`output.c:1249`) in columns of every
  type; those of `uint8` and `uint16` values and of raw TCP flags are made for three and
  five characters, so that with ellipsis the word is cut. `MayBeCut` names this case too.
- The drawing above `print_field` (`output.c:1037`) shows a string that is too long
  using up the protective padding; the code always puts one space behind it, because
  a negative remainder is always at most the padding. `PrintField` does the same.
- `XCHG_BUFF_SIZE` is 1 MiB; its comment says 1 KiB (`common.h:38`). Nothing depends
  on the comment.
- The error code of the tree construction is reset by later nodes
  (`bfindex.c:321`), and its address limit counts the trees of all threads
  together (`bfindex.c:131`). `BfIndex` does the same: a filter with a network
  below OR, followed by a node that is left out, violates `NoMatchSkipped`.

## Not modelled

- `ABORT` paths: an error that ends all processes by `MPI_Abort`, among them
  arguments that `arg_parse` refuses. Failing allocations, and `malloc(0)`.
- The characters of converted values (`output.c`; only lengths are modelled) and
  messages (`errwarn.c`).
- Numbers from strings, names of time zones and of progress bar types, daylight
  saving time, netmasks of address keys.
- Index paths (`bfindex_flow_to_index_path`), string work; files in `BfIndex` have
  their index.
- The column order of fast aggregation, decided inside libnf; what libnf leaves in
  a field that is not set.
- `tm_diff` beyond 68 years, where its `int` overflows.
- `nanosleep` interrupted by a signal in `mpi_wait_poll` (`common.c:193`): it
  returns early and both callers go on; the program installs no handler, and the
  waits of the models complete.
- Clocks: every process completes a time without date from its own.
- The array in which `print_field` builds a cell (`output.c:1074`). It has the width of
  the column plus `PROTECTIVE_PADDING`; a cell that is not the last one fills all of it,
  and its terminating NUL is written one byte behind it. With `--output-no-ellipsize` a
  string longer than that array is copied to it as a whole. Either is undefined behaviour
  in C. `PrintField` only counts the characters printed and assumes that they come out.
- Lines of the progress bar and of the records mixed on one terminal.

## What is left

Everything the program does by itself is modelled to the extent above, and every
invariant and action property a passing run checks is stated by a theorem; where a
theorem has hypotheses, they are named above. Liveness stays with TLC. The parts under
"Not modelled" that would say most if they were added are the characters of converted
values and the numbers read from option arguments.
