----------------------------- MODULE ListQuery -----------------------------
(***************************************************************************)
(* The data path of a listing query (MODE_LIST) from the flow files to the *)
(* output: the worker threads of every slave read flow files, pack the     *)
(* matching records into two alternating buffers and hand full buffers to  *)
(* MPI (ff_read_and_send), until the files are exhausted or the record     *)
(* limit is reached; each thread then sends one empty message, its         *)
(* terminator; the master receives from any source into two buffers of its *)
(* own and prints the records (recv_loop).                                 *)
(*                                                                         *)
(* MPI is external.  It is modelled by what the MPI standard lets the code *)
(* rely on: messages one thread sends with one tag arrive in order,        *)
(* messages of different threads in any order; a nonblocking send leaves   *)
(* the data in the sender's buffer until the library copies it away        *)
(* (Transfer, which may never happen) or a receive matches it (Deliver),   *)
(* and only then is its request complete.                                  *)
(***************************************************************************)
EXTENDS Naturals, Sequences, FiniteSets

CONSTANTS
    Slaves,     \* slave processes
    Threads,    \* OpenMP worker threads of all slaves
    SlaveOf,    \* SlaveOf[t]: the slave process of a thread
    FlowFiles,  \* the possible work lists: functions from slaves to the
                \* sequence path_array_gen returns on that slave
    RecLimits,  \* possible values of args->rec_limit, 0 meaning no limit
    BuffRecs    \* number of records that fit in XCHG_BUFF_SIZE bytes

(***************************************************************************)
(* What process_file_mt can find behind a path: a file that cannot be      *)
(* opened, one that its Bloom filter index rules out, or one that is read. *)
(* recs[i] says whether the filter matches the i-th record, and eof        *)
(* whether the reader ends with LNF_EOF or with an error.                  *)
(***************************************************************************)
FlowFile ==
    {f \in [state: {"ok", "unopenable", "pruned"},
            recs: Seq(BOOLEAN), eof: BOOLEAN] :
       \* the index rules out no file that holds a matching record; BfIndex is
       \* about the filters for which this is so
       f.state = "pruned" => \A i \in 1..Len(f.recs) : ~f.recs[i]}

ThreadsOf(s) == {t \in Threads : SlaveOf[t] = s}

ASSUME ThreadsAssumption ==
    /\ SlaveOf \in [Threads -> Slaves]
    /\ IsFiniteSet(Threads)
    /\ Threads # {}

\* The team of a parallel region has at least one thread.
ASSUME TeamsAssumption == \A s \in Slaves : ThreadsOf(s) # {}

ASSUME BoundsAssumption == BuffRecs \in Nat \ {0} /\ RecLimits \subseteq Nat

ASSUME FlowFilesAssumption == FlowFiles \subseteq [Slaves -> Seq(FlowFile)]

----------------------------------------------------------------------------

VARIABLES
    ff_paths,   \* ff_paths[s]: the flow files of slave s
    rec_limit,  \* args->rec_limit
    \* one per slave: the OpenMP loop counter and struct slave_ctx
    next_path, proc_rec_cntr, rec_limit_reached, summ,
    \* one per thread: control, position in the loop over the files and in the
    \* file, struct thread_ctx and the locals of ff_read_and_send
    pc, path, off, lnf_ret, buff, buff_idx, buff_rec_cntr, request,
    thread_summ,
    \* MPI: messages of a thread that no receive has matched yet
    chan,
    \* the master: control, rec_buff, the receive request with the size of the
    \* message that completed it, and the locals of recv_loop
    mpc, rec_buff, rbuff_idx, rrequest, msg_size, rec_ptr, msg_end,
    rec_cntr, limit_exceeded, active_sources,
    \* the output, and history: records handed to MPI, files warned about
    printed, sent, warned

jobVars    == <<ff_paths, rec_limit>>
slaveVars  == <<next_path, proc_rec_cntr, rec_limit_reached, summ>>
fileVars   == <<path, off, lnf_ret>>
buffVars   == <<buff, buff_idx, buff_rec_cntr>>
threadVars == <<pc, fileVars, buffVars, request, thread_summ>>
recvVars   == <<rec_buff, rbuff_idx, rrequest, msg_size>>
masterVars == <<mpc, recvVars, rec_ptr, msg_end, rec_cntr, limit_exceeded,
                active_sources, printed>>
histVars   == <<sent, warned>>
vars       == <<jobVars, slaveVars, threadVars, chan, masterVars, histVars>>

----------------------------------------------------------------------------

\* A record is named by its slave, the position of its file and its own
\* position in the file.
Rec == Slaves \X Nat \X Nat
NoRec == <<>>

Buffer == [1..BuffRecs -> Rec \cup {NoRec}]
BlankBuffer == [i \in 1..BuffRecs |-> NoRec]

\* Where the bytes of a message are: in buffer 0 or 1 of its sender, or in the
\* MPI library.
InMpi == 2
NoRequest == 3
Msg == [at: {0, 1, InMpi}, len: 0..BuffRecs, data: Buffer]

File(t) == ff_paths[SlaveOf[t]][path[t]]

\* args->rec_limit && proc_rec_cntr >= args->rec_limit
LimitReached(s) == rec_limit # 0 /\ proc_rec_cntr[s] >= rec_limit

\* MPI_Wait(&request) can return.
SendComplete(t) ==
    \A i \in 1..Len(chan[t]) : chan[t][i].at # request[t]

\* MPI_Isend of the first len records of the buffer in use.
Isend(t, len) ==
    /\ chan' = [chan EXCEPT ![t] =
                  Append(@, [at |-> buff_idx[t], len |-> len,
                             data |-> BlankBuffer])]
    /\ request' = [request EXCEPT ![t] = buff_idx[t]]
    /\ sent' = sent \cup {buff[t][buff_idx[t]][i] : i \in 1..len}

\* The record just read goes behind the ones already in the buffer in use.
WriteRecord(t, rec) ==
    /\ buff' = [buff EXCEPT ![t][buff_idx[t]][buff_rec_cntr[t] + 1] = rec]
    /\ buff_rec_cntr' = [buff_rec_cntr EXCEPT ![t] = @ + 1]
    /\ thread_summ' = [thread_summ EXCEPT ![t] = @ + 1]

GoTo(t, label) == pc' = [pc EXCEPT ![t] = label]

----------------------------------------------------------------------------

Init ==
    /\ ff_paths \in FlowFiles
    /\ rec_limit \in RecLimits
    /\ next_path = [s \in Slaves |-> 1]
    /\ proc_rec_cntr = [s \in Slaves |-> 0]
    /\ rec_limit_reached = [s \in Slaves |-> FALSE]
    /\ summ = [s \in Slaves |-> 0]
    /\ pc = [t \in Threads |-> "for"]
    /\ path = [t \in Threads |-> 0]
    /\ off = [t \in Threads |-> 0]
    /\ lnf_ret = [t \in Threads |-> "ok"]
    /\ buff = [t \in Threads |-> [i \in {0, 1} |-> BlankBuffer]]
    /\ buff_idx = [t \in Threads |-> 0]
    /\ buff_rec_cntr = [t \in Threads |-> 0]
    /\ request = [t \in Threads |-> NoRequest]
    /\ thread_summ = [t \in Threads |-> 0]
    /\ chan = [t \in Threads |-> <<>>]
    /\ mpc = "wait"
    /\ rec_buff = [i \in {0, 1} |-> BlankBuffer]
    /\ rbuff_idx = 0
    /\ rrequest = "posted"
    /\ msg_size = 0
    /\ rec_ptr = [buff |-> 0, pos |-> 0]
    /\ msg_end = 0
    /\ rec_cntr = 0
    /\ limit_exceeded = FALSE
    /\ active_sources = Cardinality(Threads)
    /\ printed = {}
    /\ sent = {}
    /\ warned = {}

----------------------------------------------------------------------------
(* The loop over the files: omp for schedule(dynamic) nowait.              *)

\* The scheduler hands the thread the next file nobody has taken.
TakeFile(t) ==
    LET s == SlaveOf[t] IN
    /\ pc[t] = "for"
    /\ next_path[s] <= Len(ff_paths[s])
    /\ path' = [path EXCEPT ![t] = next_path[s]]
    /\ next_path' = [next_path EXCEPT ![s] = @ + 1]
    /\ GoTo(t, "open")
    /\ UNCHANGED <<jobVars, proc_rec_cntr, rec_limit_reached, summ, off,
                   lnf_ret, buffVars, request, thread_summ, chan, masterVars,
                   histVars>>

\* Mistake: the shared counter is overwritten instead of incremented.
LeaveLoopOverwriting(t) ==
    LET s == SlaveOf[t] IN
    /\ pc[t] = "for"
    /\ next_path[s] > Len(ff_paths[s])
    /\ summ' = [summ EXCEPT ![s] = thread_summ[t]]
    /\ GoTo(t, "post")
    /\ UNCHANGED <<jobVars, next_path, proc_rec_cntr, rec_limit_reached,
                   fileVars, buffVars, request, thread_summ, chan, masterVars,
                   histVars>>

\* No file is left: the private counters are added to the shared ones
\* (processed_summ_share).
LeaveLoop(t) ==
    LET s == SlaveOf[t] IN
    /\ pc[t] = "for"
    /\ next_path[s] > Len(ff_paths[s])
    /\ summ' = [summ EXCEPT ![s] = @ + thread_summ[t]]
    /\ GoTo(t, "post")
    /\ UNCHANGED <<jobVars, next_path, proc_rec_cntr, rec_limit_reached,
                   fileVars, buffVars, request, thread_summ, chan, masterVars,
                   histVars>>

\* process_file_mt up to the mode switch: the file is passed over when it
\* cannot be opened, when its index rules it out, or when the limit has been
\* reached; otherwise ff_read_and_send starts with fresh locals.
OpenFile(t) ==
    /\ pc[t] = "open"
    /\ IF File(t).state = "ok" /\ ~rec_limit_reached[SlaveOf[t]]
       THEN /\ GoTo(t, "read")
            /\ off' = [off EXCEPT ![t] = 0]
            /\ buff_idx' = [buff_idx EXCEPT ![t] = 0]
            /\ buff_rec_cntr' = [buff_rec_cntr EXCEPT ![t] = 0]
       ELSE /\ GoTo(t, "for")
            /\ UNCHANGED <<off, buff_idx, buff_rec_cntr>>
    /\ UNCHANGED <<jobVars, slaveVars, path, lnf_ret, buff, request,
                   thread_summ, chan, masterVars, histVars>>

----------------------------------------------------------------------------
(* ff_read_and_send                                                        *)

\* Mistake: room for one more record is assumed.
ReadRecordOffByOne(t) ==
    /\ pc[t] = "read"
    /\ off[t] < Len(File(t).recs)
    /\ off' = [off EXCEPT ![t] = @ + 1]
    /\ lnf_ret' = [lnf_ret EXCEPT ![t] = "ok"]
    /\ IF buff_rec_cntr[t] <= BuffRecs
       THEN /\ WriteRecord(t, <<SlaveOf[t], path[t], off[t] + 1>>)
            /\ UNCHANGED pc
       ELSE /\ GoTo(t, "full")
            /\ UNCHANGED <<buff, buff_rec_cntr, thread_summ>>
    /\ UNCHANGED <<jobVars, slaveVars, path, buff_idx, request, chan,
                   masterVars, histVars>>

\* lnf_read returns a record.  One that does not match is skipped; a matching
\* one is stored, unless the buffer has no room for it.
ReadRecord(t) ==
    /\ pc[t] = "read"
    /\ off[t] < Len(File(t).recs)
    /\ off' = [off EXCEPT ![t] = @ + 1]
    /\ lnf_ret' = [lnf_ret EXCEPT ![t] = "ok"]
    /\ \/ /\ ~File(t).recs[off[t] + 1]
          /\ UNCHANGED <<pc, buff, buff_rec_cntr, thread_summ>>
       \/ /\ File(t).recs[off[t] + 1]
          /\ buff_rec_cntr[t] < BuffRecs
          /\ WriteRecord(t, <<SlaveOf[t], path[t], off[t] + 1>>)
          /\ UNCHANGED pc
       \/ /\ File(t).recs[off[t] + 1]
          /\ buff_rec_cntr[t] >= BuffRecs
          /\ GoTo(t, "full")
          /\ UNCHANGED <<buff, buff_rec_cntr, thread_summ>>
    /\ UNCHANGED <<jobVars, slaveVars, path, buff_idx, request, chan,
                   masterVars, histVars>>

\* lnf_read returns LNF_EOF or an error.
ReadEnd(t) ==
    /\ pc[t] = "read"
    /\ off[t] = Len(File(t).recs)
    /\ lnf_ret' = [lnf_ret EXCEPT ![t] = IF File(t).eof THEN "eof" ELSE "err"]
    /\ GoTo(t, "rest")
    /\ UNCHANGED <<jobVars, slaveVars, path, off, buffVars, request,
                   thread_summ, chan, masterVars, histVars>>

\* The buffer is full.  If another thread has reached the limit its records
\* are dropped and the loop is left.
BufferFull(t) ==
    /\ pc[t] = "full"
    /\ IF rec_limit_reached[SlaveOf[t]]
       THEN /\ buff_rec_cntr' = [buff_rec_cntr EXCEPT ![t] = 0]
            /\ GoTo(t, "rest")
       ELSE /\ GoTo(t, "isend")
            /\ UNCHANGED buff_rec_cntr
    /\ UNCHANGED <<jobVars, slaveVars, fileVars, buff, buff_idx, request,
                   thread_summ, chan, masterVars, histVars>>

\* Mistake: the send of the other buffer is not waited for.
SendFullWithoutWait(t) ==
    /\ pc[t] = "isend"
    /\ Isend(t, buff_rec_cntr[t])
    /\ GoTo(t, "count")
    /\ UNCHANGED <<jobVars, slaveVars, fileVars, buffVars, thread_summ,
                   masterVars, warned>>

\* MPI_Wait for the other buffer, then MPI_Isend of this one.
SendFull(t) ==
    /\ pc[t] = "isend"
    /\ SendComplete(t)
    /\ Isend(t, buff_rec_cntr[t])
    /\ GoTo(t, "count")
    /\ UNCHANGED <<jobVars, slaveVars, fileVars, buffVars, thread_summ,
                   masterVars, warned>>

\* The atomic addition to the shared counter, and the switch of buffers.
CountFull(t) ==
    /\ pc[t] = "count"
    /\ proc_rec_cntr' = [proc_rec_cntr EXCEPT ![SlaveOf[t]] =
                           @ + buff_rec_cntr[t]]
    /\ buff_rec_cntr' = [buff_rec_cntr EXCEPT ![t] = 0]
    /\ buff_idx' = [buff_idx EXCEPT ![t] = 1 - @]
    /\ GoTo(t, "check")
    /\ UNCHANGED <<jobVars, next_path, rec_limit_reached, summ, fileVars,
                   buff, request, thread_summ, chan, masterVars, histVars>>

\* Mistake: the record that did not fit is forgotten after the switch.
CheckFullForgetting(t) ==
    LET s == SlaveOf[t] IN
    /\ pc[t] = "check"
    /\ rec_limit_reached' = [rec_limit_reached EXCEPT ![s] =
                               @ \/ LimitReached(s)]
    /\ GoTo(t, IF LimitReached(s) THEN "rest" ELSE "read")
    /\ UNCHANGED <<jobVars, next_path, proc_rec_cntr, summ, fileVars, buffVars,
                   request, thread_summ, chan, masterVars, histVars>>

\* The shared counter is read again: at the limit the loop is left and the
\* record that did not fit is dropped, below it the record is stored.
CheckFull(t) ==
    LET s == SlaveOf[t] IN
    /\ pc[t] = "check"
    /\ \/ /\ LimitReached(s)
          /\ rec_limit_reached' = [rec_limit_reached EXCEPT ![s] = TRUE]
          /\ GoTo(t, "rest")
          /\ UNCHANGED <<buff, buff_rec_cntr, thread_summ>>
       \/ /\ ~LimitReached(s)
          /\ WriteRecord(t, <<s, path[t], off[t]>>)
          /\ GoTo(t, "read")
          /\ UNCHANGED rec_limit_reached
    /\ UNCHANGED <<jobVars, next_path, proc_rec_cntr, summ, fileVars,
                   buff_idx, request, chan, masterVars, histVars>>

\* After the loop: a buffer that is not empty is sent as well.
SendRest(t) ==
    /\ pc[t] = "rest"
    /\ buff_rec_cntr[t] # 0
    /\ SendComplete(t)
    /\ Isend(t, buff_rec_cntr[t])
    /\ GoTo(t, "countRest")
    /\ UNCHANGED <<jobVars, slaveVars, fileVars, buffVars, thread_summ,
                   masterVars, warned>>

NoRest(t) ==
    /\ pc[t] = "rest"
    /\ buff_rec_cntr[t] = 0
    /\ GoTo(t, "checkRest")
    /\ UNCHANGED <<jobVars, slaveVars, fileVars, buffVars, request,
                   thread_summ, chan, masterVars, histVars>>

CountRest(t) ==
    /\ pc[t] = "countRest"
    /\ proc_rec_cntr' = [proc_rec_cntr EXCEPT ![SlaveOf[t]] =
                           @ + buff_rec_cntr[t]]
    /\ GoTo(t, "checkRest")
    /\ UNCHANGED <<jobVars, next_path, rec_limit_reached, summ, fileVars,
                   buffVars, request, thread_summ, chan, masterVars, histVars>>

\* Mistake: the end of file is checked before the limit.
CheckRestSwapped(t) ==
    LET s == SlaveOf[t] IN
    /\ pc[t] = "checkRest"
    /\ warned' = IF lnf_ret[t] # "eof"
                 THEN warned \cup {<<s, path[t]>>} ELSE warned
    /\ rec_limit_reached' = [rec_limit_reached EXCEPT ![s] =
                               @ \/ LimitReached(s)]
    /\ GoTo(t, "finish")
    /\ UNCHANGED <<jobVars, next_path, proc_rec_cntr, summ, fileVars, buffVars,
                   request, thread_summ, chan, masterVars, sent>>

\* Either the limit flag is set, or the user is warned when the reader did not
\* stop at the end of the file.
CheckRest(t) ==
    LET s == SlaveOf[t] IN
    /\ pc[t] = "checkRest"
    /\ \/ /\ LimitReached(s)
          /\ rec_limit_reached' = [rec_limit_reached EXCEPT ![s] = TRUE]
          /\ UNCHANGED warned
       \/ /\ ~LimitReached(s)
          /\ warned' = IF lnf_ret[t] # "eof"
                       THEN warned \cup {<<s, path[t]>>} ELSE warned
          /\ UNCHANGED rec_limit_reached
    /\ GoTo(t, "finish")
    /\ UNCHANGED <<jobVars, next_path, proc_rec_cntr, summ, fileVars, buffVars,
                   request, thread_summ, chan, masterVars, sent>>

\* The final MPI_Wait; the file is closed.
FinishFile(t) ==
    /\ pc[t] = "finish"
    /\ SendComplete(t)
    /\ request' = [request EXCEPT ![t] = NoRequest]
    /\ GoTo(t, "for")
    /\ UNCHANGED <<jobVars, slaveVars, fileVars, buffVars, thread_summ, chan,
                   masterVars, histVars>>

----------------------------------------------------------------------------
(* postprocess_mt in MODE_LIST: send_terminator, a blocking MPI_Send of an *)
(* empty message.                                                          *)

StartTerminator(t) ==
    /\ pc[t] = "post"
    /\ Isend(t, 0)
    /\ GoTo(t, "term")
    /\ UNCHANGED <<jobVars, slaveVars, fileVars, buffVars, thread_summ,
                   masterVars, warned>>

FinishTerminator(t) ==
    /\ pc[t] = "term"
    /\ SendComplete(t)
    /\ request' = [request EXCEPT ![t] = NoRequest]
    /\ GoTo(t, "done")
    /\ UNCHANGED <<jobVars, slaveVars, fileVars, buffVars, thread_summ, chan,
                   masterVars, histVars>>

----------------------------------------------------------------------------
(* The MPI library (external).                                             *)

\* The bytes of message m of thread t, as they are now.
Payload(t, m) == IF m.at = InMpi THEN m.data ELSE buff[t][m.at]

\* A message is copied out of its sender's buffer before it is received.
Transfer(t) ==
    \E i \in 1..Len(chan[t]) :
        /\ chan[t][i].at # InMpi
        /\ chan' = [chan EXCEPT ![t][i] =
                      [at |-> InMpi, len |-> chan[t][i].len,
                       data |-> Payload(t, chan[t][i])]]
        /\ UNCHANGED <<jobVars, slaveVars, threadVars, masterVars, histVars>>

\* The first message of a thread matches the receive the master has posted.
Deliver(t) ==
    /\ rrequest = "posted"
    /\ chan[t] # <<>>
    /\ LET m == Head(chan[t]) IN
       /\ rec_buff' = [rec_buff EXCEPT ![rbuff_idx] =
                         [i \in 1..BuffRecs |->
                            IF i <= m.len THEN Payload(t, m)[i] ELSE @[i]]]
       /\ msg_size' = m.len
    /\ rrequest' = "complete"
    /\ chan' = [chan EXCEPT ![t] = Tail(@)]
    /\ UNCHANGED <<jobVars, slaveVars, threadVars, mpc, rbuff_idx, rec_ptr,
                   msg_end, rec_cntr, limit_exceeded, active_sources, printed,
                   histVars>>

----------------------------------------------------------------------------
(* recv_loop of the master with the callback print_stream_next_callback.   *)

\* Mistake: the loop is left one terminator early.
RecvTerminatorEarly ==
    /\ mpc = "wait"
    /\ rrequest = "complete"
    /\ msg_size = 0
    /\ active_sources' = active_sources - 1
    /\ IF active_sources' > 1
       THEN rrequest' = "posted" /\ UNCHANGED mpc
       ELSE rrequest' = "null" /\ mpc' = "done"
    /\ UNCHANGED <<jobVars, slaveVars, threadVars, chan, rec_buff, rbuff_idx,
                   msg_size, rec_ptr, msg_end, rec_cntr, limit_exceeded,
                   printed, histVars>>

\* An empty message ends one source; while others are active the receive is
\* posted again for the same buffer.
RecvTerminator ==
    /\ mpc = "wait"
    /\ rrequest = "complete"
    /\ msg_size = 0
    /\ active_sources' = active_sources - 1
    /\ IF active_sources' # 0
       THEN rrequest' = "posted" /\ UNCHANGED mpc
       ELSE rrequest' = "null" /\ mpc' = "done"
    /\ UNCHANGED <<jobVars, slaveVars, threadVars, chan, rec_buff, rbuff_idx,
                   msg_size, rec_ptr, msg_end, rec_cntr, limit_exceeded,
                   printed, histVars>>

\* Data: the buffers are switched, the next receive is posted, and the records
\* are processed unless the limit has been exceeded.
RecvData ==
    /\ mpc = "wait"
    /\ rrequest = "complete"
    /\ msg_size # 0
    /\ rec_ptr' = [buff |-> rbuff_idx, pos |-> 1]
    /\ msg_end' = msg_size
    /\ rbuff_idx' = 1 - rbuff_idx
    /\ rrequest' = "posted"
    /\ mpc' = IF limit_exceeded THEN "wait" ELSE "process"
    /\ UNCHANGED <<jobVars, slaveVars, threadVars, chan, rec_buff, msg_size,
                   rec_cntr, limit_exceeded, active_sources, printed,
                   histVars>>

\* Mistake: the loop is left as soon as the limit is exceeded.
ProcessRecordNoDrain ==
    /\ mpc = "process"
    /\ printed' = printed \cup {rec_buff[rec_ptr.buff][rec_ptr.pos]}
    /\ rec_ptr' = [rec_ptr EXCEPT !.pos = @ + 1]
    /\ rec_cntr' = rec_cntr + 1
    /\ limit_exceeded' = (rec_cntr + 1 = rec_limit)
    /\ mpc' = IF limit_exceeded' THEN "done"
              ELSE IF rec_ptr.pos = msg_end THEN "wait" ELSE "process"
    /\ rrequest' = IF limit_exceeded' THEN "null" ELSE rrequest
    /\ UNCHANGED <<jobVars, slaveVars, threadVars, chan, rec_buff, rbuff_idx,
                   msg_size, msg_end, active_sources, histVars>>

\* One record goes through the callback.
ProcessRecord ==
    /\ mpc = "process"
    /\ printed' = printed \cup {rec_buff[rec_ptr.buff][rec_ptr.pos]}
    /\ rec_ptr' = [rec_ptr EXCEPT !.pos = @ + 1]
    /\ rec_cntr' = rec_cntr + 1
    /\ limit_exceeded' = (rec_cntr + 1 = rec_limit)
    /\ mpc' = IF limit_exceeded' \/ rec_ptr.pos = msg_end
              THEN "wait" ELSE "process"
    /\ UNCHANGED <<jobVars, slaveVars, threadVars, chan, recvVars, msg_end,
                   active_sources, histVars>>

----------------------------------------------------------------------------

FileStep(t) == TakeFile(t) \/ LeaveLoop(t) \/ OpenFile(t)

SendStep(t) ==
    \/ ReadRecord(t) \/ ReadEnd(t) \/ BufferFull(t) \/ SendFull(t)
    \/ CountFull(t) \/ CheckFull(t) \/ SendRest(t) \/ NoRest(t)
    \/ CountRest(t) \/ CheckRest(t) \/ FinishFile(t)

TermStep(t) == StartTerminator(t) \/ FinishTerminator(t)

ThreadStep(t) == FileStep(t) \/ SendStep(t) \/ TermStep(t)

MasterStep == RecvTerminator \/ RecvData \/ ProcessRecord

Terminated == mpc = "done" /\ \A t \in Threads : pc[t] = "done"

\* The query is over; not a step of the program.
Finished == Terminated /\ UNCHANGED vars

Next ==
    \/ \E t \in Threads : ThreadStep(t)
    \/ \E t \in Threads : Transfer(t)
    \/ \E t \in Threads : Deliver(t)
    \/ MasterStep
    \/ Finished

Spec == Init /\ [][Next]_vars

(***************************************************************************)
(* Every thread and the master run on, and a posted receive eventually     *)
(* matches some message.  MPI promises no fairness between senders, and    *)
(* nothing makes it copy a message early: none is assumed of Transfer.     *)
(***************************************************************************)
Fairness ==
    /\ \A t \in Threads : WF_vars(ThreadStep(t))
    /\ WF_vars(\E t \in Threads : Deliver(t))
    /\ WF_vars(MasterStep)

FairSpec == Spec /\ Fairness

----------------------------------------------------------------------------
(* Properties                                                              *)

\* The records the query asks for.
Expected ==
    UNION {UNION {{<<s, f, i>> : i \in
                     {k \in 1..Len(ff_paths[s][f].recs) :
                        /\ ff_paths[s][f].state # "unopenable"
                        /\ ff_paths[s][f].recs[k]}}
                  : f \in 1..Len(ff_paths[s])} : s \in Slaves}

Labels == {"for", "open", "read", "full", "isend", "count", "check", "rest",
           "countRest", "checkRest", "finish", "post", "term", "done"}

SlaveTypes ==
    /\ next_path \in [Slaves -> Nat \ {0}]
    /\ proc_rec_cntr \in [Slaves -> Nat]
    /\ rec_limit_reached \in [Slaves -> BOOLEAN]
    /\ summ \in [Slaves -> Nat]

FileTypes ==
    /\ pc \in [Threads -> Labels]
    /\ path \in [Threads -> Nat]
    /\ off \in [Threads -> Nat]
    /\ lnf_ret \in [Threads -> {"ok", "eof", "err"}]
    /\ thread_summ \in [Threads -> Nat]

SenderTypes ==
    /\ buff \in [Threads -> [{0, 1} -> Buffer]]
    /\ buff_idx \in [Threads -> {0, 1}]
    /\ buff_rec_cntr \in [Threads -> 0..BuffRecs]
    /\ request \in [Threads -> {0, 1, NoRequest}]
    /\ chan \in [Threads -> Seq(Msg)]

MasterTypes ==
    /\ mpc \in {"wait", "process", "done"}
    /\ rec_buff \in [{0, 1} -> Buffer]
    /\ rbuff_idx \in {0, 1}
    /\ rrequest \in {"null", "posted", "complete"}
    /\ msg_size \in 0..BuffRecs
    /\ rec_ptr \in [buff: {0, 1}, pos: Nat]
    /\ msg_end \in 0..BuffRecs
    /\ rec_cntr \in Nat
    /\ limit_exceeded \in BOOLEAN
    /\ active_sources \in Nat

OutputTypes ==
    /\ printed \subseteq Rec \cup {NoRec}
    /\ sent \subseteq Rec \cup {NoRec}
    /\ warned \subseteq Slaves \X Nat

\* Every variable holds a value of its C type; in particular every record
\* counter and buffer index stays in the range of its buffer, and the size_t
\* active_sources never falls below zero.
TypeOK ==
    /\ ff_paths \in FlowFiles
    /\ rec_limit \in RecLimits
    /\ SlaveTypes
    /\ FileTypes
    /\ SenderTypes
    /\ MasterTypes
    /\ OutputTypes

\* The labels from which a thread writes into, or sends, the buffer in use.
Filling == {"for", "open", "read", "full", "isend", "check", "rest"}

\* ff_read_and_send never touches a buffer MPI may still be reading: while a
\* thread fills the buffer buff_idx names, no send from it is incomplete.
BuffersNotShared ==
    \A t \in Threads : pc[t] \in Filling =>
        \A i \in 1..Len(chan[t]) : chan[t][i].at # buff_idx[t]

\* Records are dropped (the early exits of ff_read_and_send, the files passed
\* over by process_file_mt) on the strength of rec_limit_reached alone, so the
\* flag may only be set once the slave has sent rec_limit records.
LimitFlagSound ==
    \A s \in Slaves : rec_limit_reached[s] =>
        /\ rec_limit # 0
        /\ Cardinality({r \in sent : r[1] = s}) >= rec_limit

\* "EOF was not reached" is reported only for a file whose reader failed,
\* never for one that was left early because of the limit.
NoSpuriousWarning ==
    \A w \in warned : ~ff_paths[w[1]][w[2]].eof

\* What the threads of a slave decide together about the limit is right: the flag
\* is not set too early, and a file left because of it is not taken for damaged.
LimitDecisionsSound == LimitFlagSound /\ NoSpuriousWarning

\* The master prints no record twice, whatever buffers, threads and limits do.
NoRecordTwice == Cardinality(printed) = rec_cntr

\* When recv_loop has counted all terminators down it leaves no message of
\* this query behind in MPI, and no thread has one to send.
NothingLeftBehind ==
    mpc = "done" => \A t \in Threads : chan[t] = <<>> /\ pc[t] \in {"term", "done"}

\* Once a slave's threads have shared their counters, its "processed records"
\* summary accounts for every record of it that is printed.
SummaryCoversOutput ==
    \A s \in Slaves :
        (\A t \in ThreadsOf(s) : pc[t] \in {"post", "term", "done"}) =>
            summ[s] >= Cardinality({r \in printed : r[1] = s})

\* What is printed is counted once by the master and accounted for by the slaves.
OutputAccounted == NoRecordTwice /\ SummaryCoversOutput

\* The query as a whole prints distinct records the filter matches, exactly
\* min(rec_limit, number of matches) of them, and then ends.
Listed == INSTANCE Listing WITH expected <- Expected, limit <- rec_limit,
                                done <- (mpc = "done")
ImplementsListing == Listed!Spec

\* Every thread leaves its parallel section and the master its loop, even when
\* the master stopped printing long before.
Termination == <>Terminated

============================================================================
