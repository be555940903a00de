------------------------------- MODULE Query -------------------------------
(***************************************************************************)
(* The course of one query over all processes, from MPI_Init_thread to     *)
(* MPI_Finalize: which collective operation, message and barrier each      *)
(* process and thread waits for, and when; the summaries the slaves add up *)
(* and the progress bar the master shows meanwhile.  What                  *)
(* the messages carry is the subject of ListQuery and BatchQuery; here a   *)
(* worker thread sends one message per round, and a round is over for the  *)
(* master when it has heard all threads.                                   *)
(*                                                                         *)
(* A collective operation may return early on some processes (the root of  *)
(* a broadcast, the senders of a reduction) or hold everybody until all    *)
(* have entered it; a blocking send may return at once or when it is       *)
(* received.  Both are allowed; only the late return is certain.           *)
(***************************************************************************)
EXTENDS Integers, Sequences, FiniteSets, FiniteSetsExt

CONSTANTS
    Slaves,      \* slave processes; the master process is Master
    Master,
    MaxThreads,  \* MaxThreads[s]: omp_get_max_threads() at the start of slave s
    Queries,     \* possible queries, see Query
    FullTeams,   \* TRUE if the OpenMP runtime provides all threads asked for;
                 \* OMP_DYNAMIC and OMP_THREAD_LIMIT allow it not to
    MasterTeam   \* size of the team of the master, 1 or 2 of the 2 asked for

\* The counters of struct metadata_summ: a total and one for each group of
\* protocols.  There are three such groups of counters in the code, for flows,
\* packets and bytes, all treated alike; one is modelled.
Counters == {"all", "tcp", "udp", "icmp", "other"}

\* A flow file: whether it can be opened, and the metadata in its header.
FlowFile == [opens: BOOLEAN, info: [Counters -> Nat]]

\* A query: the outcome of arg_parse ("help" or the working mode, the same on
\* all processes), the flow files of every slave, type and destination of the
\* progress bar ("unwritable": a file that cannot be opened).
Query ==
    [mode: {"help", "list", "sort", "aggr", "tput", "meta"},
     files: [Slaves -> Seq(FlowFile)],
     type: {"none", "total", "perslave", "json"},
     dest: {"stream", "file", "unwritable"}]

ASSUME QueryAssumption ==
    /\ Master \notin Slaves
    /\ IsFiniteSet(Slaves)
    /\ Slaves # {}
    /\ MaxThreads \in [Slaves -> Nat \ {0}]
    /\ Queries \subseteq Query
    /\ FullTeams \in BOOLEAN
    /\ MasterTeam \in {1, 2}

Processes == Slaves \cup {Master}

\* Worker threads are numbered within their slave.
Threads == UNION {{s} \X (1..MaxThreads[s]) : s \in Slaves}

VARIABLES
    query,             \* fixed once chosen
    ppc,               \* main() of every process
    colls,             \* colls[p][c]: collectives process p has entered on
                       \* communicator c, a sequence of their names
    \* slaves: control, OpenMP loop counter, slave_ctx.metadata_summ, threads
    \* announced, threads forked, omp singles entered
    spc, next, metadata_summ, num_threads_used, team, singles,
    \* worker threads: control, private metadata_summ, data message under way,
    \* progress messages under way
    tpc, private, box, reports,
    \* master: control of the process, of its main thread and of its progress
    \* thread; slave_threads_cnt; messages awaited in this round; files counted
    \* and expected by the progress bar, and what it shows; the reduced summary
    mpc, main, prog, slave_threads_cnt, awaited, files_cnt, files_cnt_goal, shown,
    summary

outerVars  == <<query, ppc>>
slaveVars  == <<spc, next, metadata_summ, num_threads_used, team, singles>>
threadVars == <<tpc, private, box, reports>>
mainVars   == <<main, slave_threads_cnt, awaited>>
progVars   == <<prog, files_cnt, files_cnt_goal, shown>>
masterVars == <<mpc, mainVars, progVars, summary>>
vars       == <<outerVars, colls, slaveVars, threadVars, masterVars>>

mode == query.mode
files == query.files

Team(s) == {t \in Threads : t[1] = s /\ t[2] <= team[s]}

Sum(f) == MapThenSumSet(LAMBDA s : f[s], DOMAIN f)

----------------------------------------------------------------------------
(* Collective operations (external).                                       *)

\* Process p enters operation op on communicator c.
Enter(p, c, op) == colls' = [colls EXCEPT ![p][c] = Append(@, op)]

\* All processes have entered the operation p has entered last on c.
AllIn(p, c) == \A q \in Processes : Len(colls[q][c]) >= Len(colls[p][c])

\* The operation can return on p: the root of a gathering operation needs
\* everybody, the receivers of a broadcast need the root, everybody needs
\* everybody to agree on a new communicator, and the others need nobody.
CanReturn(p, c) ==
    LET op == colls[p][c][Len(colls[p][c])]
        root == Len(colls[Master][c]) >= Len(colls[p][c]) IN
    CASE op \in {"Bcast_threshold", "Bcast_info", "Bcast_records"} ->
            p = Master \/ root
      [] op \in {"Comm_dup_main", "Comm_dup_progress"} -> AllIn(p, c)
      [] op \in {"Comm_free", "Finalize"} -> TRUE
      [] OTHER -> p # Master \/ AllIn(p, c)

----------------------------------------------------------------------------
(* struct metadata_summ                                                    *)

NoMetadata == [k \in Counters |-> 0]

Plus(a, b) == [k \in Counters |-> a[k] + b[k]]

\* metadata_summ_update, for a file that can be opened.  A total that is not
\* the sum of its parts is warned about and added all the same.
Updated(summ, f) == IF f.opens THEN Plus(summ, f.info) ELSE summ

----------------------------------------------------------------------------

Init ==
    /\ query \in Queries
    /\ ppc = [p \in Processes |-> "init"]
    /\ colls = [p \in Processes |-> [world |-> <<>>, main |-> <<>>, progress |-> <<>>]]
    /\ spc = [s \in Slaves |-> "start"]
    /\ next = [s \in Slaves |-> 1]
    /\ metadata_summ = [s \in Slaves |-> NoMetadata]
    /\ num_threads_used = [s \in Slaves |-> 0]
    /\ team = [s \in Slaves |-> 0]
    /\ singles = [s \in Slaves |-> 0]
    /\ tpc = [t \in Threads |-> "idle"]
    /\ private = [t \in Threads |-> NoMetadata]
    /\ box = [t \in Threads |-> FALSE]
    /\ reports = [t \in Threads |-> 0]
    /\ mpc = "parallel"
    /\ main = "start"
    /\ prog = "start"
    /\ slave_threads_cnt = 0
    /\ awaited = 0
    /\ files_cnt = [s \in Slaves |-> 0]
    /\ files_cnt_goal = [s \in Slaves |-> 0]
    /\ shown = [length |-> 0, filesize |-> 0, done |-> 0]
    /\ summary = NoMetadata

----------------------------------------------------------------------------
(* main(), the same on all processes.                                      *)

ProcGoTo(p, label) == ppc' = [ppc EXCEPT ![p] = label]

\* The role of the process, master_main or slave_main, has returned.
RoleOver(p) == IF p = Master THEN mpc = "done" ELSE spc[p] = "done"

\* Behind arg_parse: help was asked for, or mpi_comm_init starts.
ParseArgs(p) ==
    /\ ppc[p] = "init"
    /\ IF mode = "help"
       THEN Enter(p, "world", "Finalize") /\ ProcGoTo(p, "finalize")
       ELSE Enter(p, "world", "Comm_dup_main") /\ ProcGoTo(p, "dup1")
    /\ UNCHANGED <<query, slaveVars, threadVars, masterVars>>

CommInit(p) ==
    /\ ppc[p] = "dup1"
    /\ CanReturn(p, "world")
    /\ Enter(p, "world", "Comm_dup_progress")
    /\ ProcGoTo(p, "dup2")
    /\ UNCHANGED <<query, slaveVars, threadVars, masterVars>>

\* Master and slaves part.
Split(p) ==
    /\ ppc[p] = "dup2"
    /\ CanReturn(p, "world")
    /\ ProcGoTo(p, "role")
    /\ UNCHANGED <<query, colls, slaveVars, threadVars, masterVars>>

\* mpi_comm_free, first the one and then the other communicator.
CommFree(p) ==
    /\ ppc[p] = "role"
    /\ RoleOver(p)
    /\ Enter(p, "main", "Comm_free")
    /\ ProcGoTo(p, "free1")
    /\ UNCHANGED <<query, slaveVars, threadVars, masterVars>>

CommFreeProgress(p) ==
    /\ ppc[p] = "free1"
    /\ CanReturn(p, "main")
    /\ Enter(p, "progress", "Comm_free")
    /\ ProcGoTo(p, "free2")
    /\ UNCHANGED <<query, slaveVars, threadVars, masterVars>>

Finalize(p) ==
    /\ ppc[p] = "free2"
    /\ CanReturn(p, "progress")
    /\ Enter(p, "world", "Finalize")
    /\ ProcGoTo(p, "finalize")
    /\ UNCHANGED <<query, slaveVars, threadVars, masterVars>>

Exit(p) ==
    /\ ppc[p] = "finalize"
    /\ CanReturn(p, "world")
    /\ ProcGoTo(p, "exit")
    /\ UNCHANGED <<query, colls, slaveVars, threadVars, masterVars>>

ProcStep(p) ==
    \/ ParseArgs(p) \/ CommInit(p) \/ Split(p)
    \/ CommFree(p) \/ CommFreeProgress(p) \/ Finalize(p) \/ Exit(p)

----------------------------------------------------------------------------
(* slave_main outside the parallel region.                                 *)

SlaveGoTo(s, label) == spc' = [spc EXCEPT ![s] = label]

\* progress_report_init
SlaveGather(s) ==
    /\ ppc[s] = "role"
    /\ spc[s] = "start"
    /\ Enter(s, "progress", "Gather_files")
    /\ SlaveGoTo(s, "gather")
    /\ UNCHANGED <<outerVars, next, metadata_summ, num_threads_used, team, singles, threadVars,
                   masterVars>>

\* omp_get_max_threads() after omp_set_num_threads(): at most one thread per
\* file, and one when there are no files.
TeamSize(s) == Max({1, Min({Len(files[s]), MaxThreads[s]})})

\* The number of threads is settled and reported.
SlaveThreads(s) ==
    /\ spc[s] = "gather"
    /\ CanReturn(s, "progress")
    /\ num_threads_used' = [num_threads_used EXCEPT ![s] = TeamSize(s)]
    /\ Enter(s, "main", "Reduce_threads")
    /\ SlaveGoTo(s, "threads")
    /\ UNCHANGED <<outerVars, next, metadata_summ, team, singles, threadVars,
                   masterVars>>

\* The parallel region starts.
Fork(s) ==
    /\ spc[s] = "threads"
    /\ CanReturn(s, "main")
    /\ \E n \in 1..num_threads_used[s] :
          /\ FullTeams => n = num_threads_used[s]
          /\ team' = [team EXCEPT ![s] = n]
          /\ tpc' = [t \in Threads |->
                       IF t[1] = s /\ t[2] <= n THEN "for" ELSE tpc[t]]
    /\ SlaveGoTo(s, "parallel")
    /\ UNCHANGED <<outerVars, colls, next, metadata_summ, num_threads_used,
                   singles, private, box, reports, masterVars>>

\* Mistake: the two summaries are reduced in the other order.
JoinSwapped(s) ==
    /\ spc[s] = "parallel"
    /\ \A t \in Team(s) : tpc[t] = "join"
    /\ Enter(s, "main", "Reduce_metadata")
    /\ SlaveGoTo(s, "processed")
    /\ UNCHANGED <<outerVars, next, metadata_summ, num_threads_used, team, singles, threadVars,
                   masterVars>>

\* The barrier that ends the parallel region, and the first reduction.
Join(s) ==
    /\ spc[s] = "parallel"
    /\ \A t \in Team(s) : tpc[t] = "join"
    /\ Enter(s, "main", "Reduce_processed")
    /\ SlaveGoTo(s, "processed")
    /\ UNCHANGED <<outerVars, next, metadata_summ, num_threads_used, team, singles, threadVars,
                   masterVars>>

SlaveMetadata(s) ==
    /\ spc[s] = "processed"
    /\ CanReturn(s, "main")
    /\ Enter(s, "main", "Reduce_metadata")
    /\ SlaveGoTo(s, "metadata")
    /\ UNCHANGED <<outerVars, next, metadata_summ, num_threads_used, team, singles, threadVars,
                   masterVars>>

SlaveEnd(s) ==
    /\ spc[s] = "metadata"
    /\ CanReturn(s, "main")
    /\ SlaveGoTo(s, "done")
    /\ UNCHANGED <<outerVars, colls, next, metadata_summ, num_threads_used, team, singles,
                   threadVars, masterVars>>

SlaveStep(s) ==
    \/ SlaveGather(s) \/ SlaveThreads(s) \/ Fork(s)
    \/ Join(s) \/ SlaveMetadata(s) \/ SlaveEnd(s)

----------------------------------------------------------------------------
(* A worker thread.                                                        *)

GoTo(t, label) == tpc' = [tpc EXCEPT ![t] = label]

\* Mistake: only files that could be opened are reported.
ProcessFileSilent(t) ==
    LET s == t[1] IN
    /\ tpc[t] = "for"
    /\ next[s] <= Len(files[s])
    /\ next' = [next EXCEPT ![s] = @ + 1]
    /\ private' = [private EXCEPT ![t] = Updated(@, files[s][next[s]])]
    /\ reports' = [reports EXCEPT ![t] = @ + IF files[s][next[s]].opens THEN 1 ELSE 0]
    /\ GoTo(t, "report")
    /\ UNCHANGED <<outerVars, colls, spc, metadata_summ, num_threads_used, team, singles, box,
                   masterVars>>

\* One iteration of the loop over files: process_file_mt, which counts the
\* metadata of a file that can be opened, and progress_report_next.
ProcessFile(t) ==
    LET s == t[1] IN
    /\ tpc[t] = "for"
    /\ next[s] <= Len(files[s])
    /\ next' = [next EXCEPT ![s] = @ + 1]
    /\ private' = [private EXCEPT ![t] = Updated(@, files[s][next[s]])]
    /\ reports' = [reports EXCEPT ![t] = @ + 1]
    /\ GoTo(t, "report")
    /\ UNCHANGED <<outerVars, colls, spc, metadata_summ, num_threads_used, team, singles, box,
                   masterVars>>

\* The send of the report returns, at once or after it has been received.
Reported(t) ==
    /\ tpc[t] = "report"
    /\ GoTo(t, "for")
    /\ UNCHANGED <<outerVars, colls, slaveVars, private, box, reports, masterVars>>

\* Mistake: the shared counter is overwritten instead of incremented.
ShareOverwriting(t) ==
    LET s == t[1] IN
    /\ tpc[t] = "for"
    /\ next[s] > Len(files[s])
    /\ metadata_summ' = [metadata_summ EXCEPT ![s] = private[t]]
    /\ box' = [box EXCEPT ![t] = mode # "meta"]
    /\ GoTo(t, IF mode = "meta" THEN "join"
               ELSE IF mode = "tput" THEN "single1" ELSE "sent")
    /\ UNCHANGED <<outerVars, colls, spc, next, num_threads_used, team, singles, private, reports,
                   masterVars>>

\* metadata_summ_share, and the first send of postprocess_mt; there is none
\* in MODE_META.
Share(t) ==
    LET s == t[1] IN
    /\ tpc[t] = "for"
    /\ next[s] > Len(files[s])
    /\ metadata_summ' = [metadata_summ EXCEPT ![s] = Plus(@, private[t])]
    /\ box' = [box EXCEPT ![t] = mode # "meta"]
    /\ GoTo(t, IF mode = "meta" THEN "join"
               ELSE IF mode = "tput" THEN "single1" ELSE "sent")
    /\ UNCHANGED <<outerVars, colls, spc, next, num_threads_used, team, singles, private, reports,
                   masterVars>>

\* The last send of the thread returns.
SentAll(t) ==
    /\ tpc[t] = "sent"
    /\ GoTo(t, "join")
    /\ UNCHANGED <<outerVars, colls, slaveVars, private, box, reports, masterVars>>

\* TPUT: the first thread that comes to an omp single construct executes the
\* broadcast in it, the others go to the barrier at its end.
SingleNo(label) == IF label = "single1" THEN 1 ELSE 2

\* Mistake: every thread executes the broadcast.
EnterSingleAll(t) ==
    LET s == t[1]
        n == SingleNo(tpc[t]) IN
    /\ tpc[t] \in {"single1", "single2"}
    /\ singles' = [singles EXCEPT ![s] = n]
    /\ Enter(s, "main", IF n = 1 THEN "Bcast_threshold" ELSE "Bcast_info")
    /\ GoTo(t, IF n = 1 THEN "bcast1" ELSE "bcast2")
    /\ UNCHANGED <<outerVars, spc, next, metadata_summ, num_threads_used, team, private, box,
                   reports, masterVars>>

EnterSingle(t) ==
    LET s == t[1]
        n == SingleNo(tpc[t]) IN
    /\ tpc[t] \in {"single1", "single2"}
    /\ IF singles[s] < n
       THEN /\ singles' = [singles EXCEPT ![s] = n]
            /\ Enter(s, "main", IF n = 1 THEN "Bcast_threshold" ELSE "Bcast_info")
            /\ GoTo(t, IF n = 1 THEN "bcast1" ELSE "bcast2")
       ELSE /\ GoTo(t, IF n = 1 THEN "barrier1" ELSE "barrier2")
            /\ UNCHANGED <<colls, singles>>
    /\ UNCHANGED <<outerVars, spc, next, metadata_summ, num_threads_used, team, private, box,
                   reports, masterVars>>

\* The broadcast returns; the second single construct holds two of them.
Broadcast(t) ==
    LET s == t[1] IN
    /\ tpc[t] \in {"bcast1", "bcast2", "bcast3"}
    /\ CanReturn(s, "main")
    /\ IF tpc[t] = "bcast2"
       THEN GoTo(t, "bcast3") /\ Enter(s, "main", "Bcast_records")
       ELSE GoTo(t, IF tpc[t] = "bcast1" THEN "barrier1" ELSE "barrier2")
            /\ UNCHANGED colls
    /\ UNCHANGED <<outerVars, slaveVars, private, box, reports, masterVars>>

Before(n) == IF n = 1 THEN {"for", "report", "single1", "bcast1"}
             ELSE {"barrier1", "single2", "bcast2", "bcast3"}

\* Behind the barrier the thread sends the records of the next phase.
LeaveSingle(t) ==
    /\ \E n \in {1, 2} :
          /\ tpc[t] = IF n = 1 THEN "barrier1" ELSE "barrier2"
          /\ \A u \in Team(t[1]) : tpc[u] \notin Before(n)
          /\ GoTo(t, IF n = 1 THEN "single2" ELSE "barrier3")
    /\ box' = [box EXCEPT ![t] = TRUE]
    /\ UNCHANGED <<outerVars, colls, slaveVars, private, reports, masterVars>>

\* The barrier before the buffer is freed, and the single construct after it.
LeaveTput(t) ==
    /\ tpc[t] = "barrier3"
    /\ \A u \in Team(t[1]) : tpc[u] \in {"barrier3", "join"}
    /\ GoTo(t, "join")
    /\ UNCHANGED <<outerVars, colls, slaveVars, private, box, reports, masterVars>>

ThreadStep(t) ==
    \/ ProcessFile(t) \/ Reported(t) \/ Share(t) \/ SentAll(t)
    \/ EnterSingle(t) \/ Broadcast(t) \/ LeaveSingle(t) \/ LeaveTput(t)

----------------------------------------------------------------------------
(* The master: main thread.                                                *)

\* The number of sources is the sum over the slaves.
MainStart ==
    /\ ppc[Master] = "role"
    /\ main = "start"
    /\ Enter(Master, "main", "Reduce_threads")
    /\ main' = "threads"
    /\ UNCHANGED <<outerVars, slaveVars, threadVars, mpc, slave_threads_cnt,
                   awaited, progVars, summary>>

\* Mistake: one terminator per slave is expected instead of one per thread.
MainModeSlaves ==
    /\ main = "threads"
    /\ CanReturn(Master, "main")
    /\ slave_threads_cnt' = Cardinality(Slaves)
    /\ awaited' = IF mode = "meta" THEN 0 ELSE slave_threads_cnt'
    /\ main' = IF mode = "meta" THEN "join" ELSE "recv1"
    /\ UNCHANGED <<outerVars, colls, slaveVars, threadVars, mpc, progVars, summary>>

\* list_main, sort_main or aggr_main starts to receive; nothing is received in
\* MODE_META.
MainMode ==
    /\ main = "threads"
    /\ CanReturn(Master, "main")
    /\ slave_threads_cnt' = Sum(num_threads_used)
    /\ awaited' = IF mode = "meta" THEN 0 ELSE slave_threads_cnt'
    /\ main' = IF mode = "meta" THEN "join" ELSE "recv1"
    /\ UNCHANGED <<outerVars, colls, slaveVars, threadVars, mpc, progVars, summary>>

Receiving == main \in {"recv1", "recv2", "recv3"}

\* recv_loop: the terminator of one more thread.
MainReceive(t) ==
    /\ Receiving
    /\ awaited > 0
    /\ box[t]
    /\ box' = [box EXCEPT ![t] = FALSE]
    /\ awaited' = awaited - 1
    /\ UNCHANGED <<outerVars, colls, slaveVars, tpc, private, reports, mpc, main,
                   slave_threads_cnt, progVars, summary>>

\* All threads have been heard: the next phase of TPUT, or the end.
MainBroadcast ==
    /\ main \in {"recv1", "recv2"}
    /\ mode = "tput"
    /\ awaited = 0
    /\ Enter(Master, "main", IF main = "recv1" THEN "Bcast_threshold" ELSE "Bcast_info")
    /\ main' = IF main = "recv1" THEN "bcast1" ELSE "bcast2"
    /\ UNCHANGED <<outerVars, slaveVars, threadVars, mpc, slave_threads_cnt,
                   awaited, progVars, summary>>

MainBroadcast2 ==
    /\ main = "bcast2"
    /\ CanReturn(Master, "main")
    /\ Enter(Master, "main", "Bcast_records")
    /\ main' = "bcast3"
    /\ UNCHANGED <<outerVars, slaveVars, threadVars, mpc, slave_threads_cnt,
                   awaited, progVars, summary>>

MainNextRound ==
    /\ main \in {"bcast1", "bcast3"}
    /\ CanReturn(Master, "main")
    /\ awaited' = slave_threads_cnt
    /\ main' = IF main = "bcast1" THEN "recv2" ELSE "recv3"
    /\ UNCHANGED <<outerVars, colls, slaveVars, threadVars, mpc,
                   slave_threads_cnt, progVars, summary>>

MainEnd ==
    /\ main = IF mode = "tput" THEN "recv3" ELSE "recv1"
    /\ awaited = 0
    /\ main' = "join"
    /\ UNCHANGED <<outerVars, colls, slaveVars, threadVars, mpc,
                   slave_threads_cnt, awaited, progVars, summary>>

----------------------------------------------------------------------------
(* The master: progress bar thread.                                        *)

\* The thread that is not in the omp master construct executes the single
\* construct with the progress bar; in a team of one it comes after the other.
ProgStart ==
    /\ ppc[Master] = "role"
    /\ prog = "start"
    /\ MasterTeam = 2 \/ main = "join"
    /\ Enter(Master, "progress", "Gather_files")
    /\ prog' = "gather"
    /\ UNCHANGED <<outerVars, slaveVars, threadVars, mpc, mainVars, files_cnt,
                   files_cnt_goal, shown, summary>>

\* The bar is disabled when its file cannot be opened.
BarType == IF query.dest = "unwritable" THEN "none" ELSE query.type

\* Mistake: what is left to do is shown.
PercentageLeft(c, goal) == IF goal = 0 THEN 0 ELSE (100 * (goal - c)) \div goal

\* c / goal as a percentage, cut off.  In double arithmetic the result may be
\* one less for goals beyond the ones of the instances.
Percentage(c, goal) == IF goal = 0 THEN 100 ELSE (100 * c) \div goal

Digits(n) == CASE n < 10 -> 1 [] n \in 10..99 -> 2 [] OTHER -> 3

\* PROGRESS_BAR_FMT: the two numbers and the percentage; the length of the
\* text around them never changes.
FmtLength(c, goal) == Digits(c) + Digits(goal) + Digits(Percentage(c, goal))

LineLength(cnt, goal) ==
    LET total == Sum(cnt)
        totalGoal == Sum(goal) IN
    CASE BarType = "total" -> FmtLength(total, totalGoal)
      [] BarType = "perslave" ->
            FmtLength(total, totalGoal)
            + Sum([s \in Slaves |-> FmtLength(cnt[s], goal[s])])
      [] BarType = "json" ->
            Digits(Percentage(total, totalGoal))
            + Sum([s \in Slaves |-> Digits(Percentage(cnt[s], goal[s]))])

\* progress_bar_print.  On a stream the line is closed with DONE when all files
\* are counted and overwritten otherwise; a file is overwritten from its start,
\* and never gets shorter.
ProgressBarPrint(cnt, goal) ==
    shown' = IF BarType = "none" THEN shown
             ELSE [length |-> LineLength(cnt, goal),
                   filesize |-> Max({shown.filesize, LineLength(cnt, goal)}),
                   done |-> shown.done + IF Sum(cnt) = Sum(goal) THEN 1 ELSE 0]

\* The goals are there, and the bar is shown for the first time.
ProgGoals ==
    /\ prog = "gather"
    /\ CanReturn(Master, "progress")
    /\ files_cnt_goal' = [s \in Slaves |-> Len(files[s])]
    /\ ProgressBarPrint(files_cnt, files_cnt_goal')
    /\ prog' = "recv"
    /\ UNCHANGED <<outerVars, colls, slaveVars, threadVars, mpc, mainVars,
                   files_cnt, summary>>

\* Mistake: the loop makes one pass too few.
ProgMore == Sum(files_cnt) + 1 < Sum(files_cnt_goal)

\* The loop over the sum of the goals has passes left.
ProgExpects == Sum(files_cnt) < Sum(files_cnt_goal)

ProgReceive(t) ==
    /\ prog = "recv"
    /\ ProgExpects
    /\ reports[t] > 0
    /\ reports' = [reports EXCEPT ![t] = @ - 1]
    /\ files_cnt' = [files_cnt EXCEPT ![t[1]] = @ + 1]
    /\ ProgressBarPrint(files_cnt', files_cnt_goal)
    /\ UNCHANGED <<outerVars, colls, slaveVars, tpc, private, box, mpc, mainVars,
                   prog, files_cnt_goal, summary>>

ProgEnd ==
    /\ prog = "recv"
    /\ ~ProgExpects
    /\ prog' = "join"
    /\ UNCHANGED <<outerVars, colls, slaveVars, threadVars, mpc, mainVars,
                   files_cnt, files_cnt_goal, shown, summary>>

----------------------------------------------------------------------------
(* The master: the process.                                                *)

\* Both threads have reached the end of the parallel region.
MasterJoin ==
    /\ mpc = "parallel"
    /\ main = "join"
    /\ prog = "join"
    /\ Enter(Master, "main", "Reduce_processed")
    /\ mpc' = "processed"
    /\ UNCHANGED <<outerVars, slaveVars, threadVars, mainVars, progVars, summary>>

MasterMetadata ==
    /\ mpc = "processed"
    /\ CanReturn(Master, "main")
    /\ Enter(Master, "main", "Reduce_metadata")
    /\ mpc' = "metadata"
    /\ UNCHANGED <<outerVars, slaveVars, threadVars, mainVars, progVars, summary>>

MasterEnd ==
    /\ mpc = "metadata"
    /\ CanReturn(Master, "main")
    /\ summary' = [k \in Counters |-> Sum([s \in Slaves |-> metadata_summ[s][k]])]
    /\ mpc' = "done"
    /\ UNCHANGED <<outerVars, colls, slaveVars, threadVars, mainVars, progVars>>

MainStep ==
    \/ MainStart \/ MainMode \/ MainBroadcast \/ MainBroadcast2
    \/ MainNextRound \/ MainEnd
    \/ \E t \in Threads : MainReceive(t)

ProgStep ==
    \/ ProgStart \/ ProgGoals \/ ProgEnd
    \/ \E t \in Threads : ProgReceive(t)

MasterStep == MasterJoin \/ MasterMetadata \/ MasterEnd

----------------------------------------------------------------------------

Terminated == \A p \in Processes : ppc[p] = "exit"

\* The query is over; not a step of the program.
Finished == Terminated /\ UNCHANGED vars

Next ==
    \/ \E p \in Processes : ProcStep(p)
    \/ \E s \in Slaves : SlaveStep(s)
    \/ \E t \in Threads : ThreadStep(t)
    \/ MainStep \/ ProgStep \/ MasterStep
    \/ Finished

Spec == Init /\ [][Next]_vars

(***************************************************************************)
(* A process is certain to go on only when nothing can hold it back: a     *)
(* collective operation that everybody has entered, a send that has been   *)
(* received.  There is one condition for each thread of control: the       *)
(* initial thread of every process runs main() and, on the master, the     *)
(* main thread's part of the parallel region.                              *)
(***************************************************************************)
Certain(p, c) == colls[p][c] = <<>> \/ AllIn(p, c)

ProcCertain(p) ==
    /\ ppc[p] = "free1" => Certain(p, "main")
    /\ ppc[p] = "free2" => Certain(p, "progress")
    /\ ppc[p] = "finalize" => Certain(p, "world")

ThreadCertain(t) ==
    /\ tpc[t] = "report" => reports[t] = 0
    /\ tpc[t] \in {"sent", "single1", "single2", "barrier3"} => ~box[t]
    /\ tpc[t] \in {"bcast1", "bcast2", "bcast3"} => Certain(t[1], "main")

SlaveCertain(s) ==
    /\ spc[s] = "gather" => Certain(s, "progress")
    /\ spc[s] \in {"threads", "processed", "metadata"} => Certain(s, "main")

MainCertain == main \in {"bcast1", "bcast2", "bcast3"} => Certain(Master, "main")

SlaveRuns(s) ==
    \/ ProcCertain(s) /\ ProcStep(s)
    \/ SlaveCertain(s) /\ SlaveStep(s)

MasterRuns ==
    \/ ProcCertain(Master) /\ ProcStep(Master)
    \/ MainCertain /\ MainStep
    \/ MasterStep

Fairness ==
    /\ \A s \in Slaves : WF_vars(SlaveRuns(s))
    /\ \A t \in Threads : WF_vars(ThreadCertain(t) /\ ThreadStep(t))
    /\ WF_vars(MasterRuns)
    /\ WF_vars(ProgStep)

FairSpec == Spec /\ Fairness

----------------------------------------------------------------------------
(* Properties                                                              *)

InOrder(x, y) == SubSeq(x, 1, Min({Len(x), Len(y)})) = SubSeq(y, 1, Min({Len(x), Len(y)}))

\* All processes call the same collective operations in the same order on each
\* communicator, although threads of the slaves and two threads of the master
\* call them.
CollectivesAgree ==
    \A p, q \in Processes : \A c \in {"world", "main", "progress"} :
        InOrder(colls[p][c], colls[q][c])

\* "It is incorrect to start multiple collective communications on the same
\* communicator in same time": on a slave one thread at a time is inside one,
\* and the process itself is outside then.
OneCollectiveAtATime ==
    \A s \in Slaves :
        LET inside == {t \in Team(s) : tpc[t] \in {"bcast1", "bcast2", "bcast3"}} IN
        /\ Cardinality(inside) <= 1
        /\ inside # {} => spc[s] = "parallel"

\* The progress bar never counts more files for a slave than the slave has
\* announced (an assertion of progress_bar_print), and ends with exactly these,
\* files that could not be opened included.  If it is shown at all, the line with
\* all files counted is then printed once, also without files; on a stream it is
\* the one that says DONE.
ProgressExact ==
    /\ prog \in {"recv", "join"} =>
          \A s \in Slaves : files_cnt[s] <= files_cnt_goal[s]
    /\ prog = "join" =>
          /\ files_cnt = files_cnt_goal
          /\ BarType # "none" => shown.done = 1

\* Who watches the progress file always finds exactly the last state in it:
\* progress_bar_print starts over from the beginning of the file without
\* cutting it, so that no line may be shorter than an earlier one.
NoRemains == shown.filesize = shown.length

\* Every counter of the reduced summary counts every file that could be opened
\* exactly once, whichever threads of whichever slaves have read the files.
SummaryComplete ==
    mpc = "done" =>
        summary = [k \in Counters |->
                     Sum([s \in Slaves |->
                            Sum([i \in {j \in 1..Len(files[s]) : files[s][j].opens} |->
                                   files[s][i].info[k]])])]

\* The processes do not part with a message still under way.
NoMessageLost ==
    mpc # "parallel" => \A t \in Threads : ~box[t] /\ reports[t] = 0

\* Every process comes to its end: nobody is left waiting in a collective, at a
\* barrier, for a send or for a message, in any mode.
Termination == <>Terminated

============================================================================
