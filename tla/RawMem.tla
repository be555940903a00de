------------------------------- MODULE RawMem -------------------------------
(***************************************************************************)
(* How the records of libnf memories travel from the worker threads to the *)
(* master (sorting, aggregation and the three phases of TPUT):             *)
(* send_raw_mem packs them, each behind its size, into two alternating     *)
(* buffers and hands full buffers to MPI, and recv_loop takes them apart   *)
(* again and writes them into the master's memory.  BatchQuery is about    *)
(* what is sent in each phase; there a phase of a thread is one message.   *)
(* This module is about the bytes: units of memory instead of bytes, one   *)
(* record after the other, with the waiting and the switching of buffers,  *)
(* and up to three rounds in a row through the same buffers.               *)
(*                                                                         *)
(* MPI (external) is modelled as in ListQuery.  A receive matches messages *)
(* of its own tag only.                                                    *)
(***************************************************************************)
EXTENDS Integers, Sequences, FiniteSets, Bags

CONSTANTS
    Slaves,      \* slave processes
    Threads,     \* OpenMP worker threads of all slaves
    SlaveOf,     \* SlaveOf[t]: the slave process of a thread
    Memories,    \* possible numbers of records in the threads' memories
    ThresholdCnts, \* possible numbers of records above the threshold
    FoundRecs,   \* possible positions of the records found in phase 3
    RecLimits,   \* possible values of args->rec_limit
    RecLens,     \* possible lengths of the raw records of a query
    BuffSize,    \* XCHG_BUFF_SIZE
    HdrSize,     \* sizeof (xchg_rec_size_t)
    MaxRawLen,   \* LNF_MAX_RAW_LEN
    SizeRange,   \* SIZE_MAX + 1
    IntRange     \* UINT_MAX + 1

ASSUME RawThreadsAssumption ==
    /\ SlaveOf \in [Threads -> Slaves]
    /\ IsFiniteSet(Threads)
    /\ Threads # {}

\* The third conjunct is the assertion at the head of send_raw_mem.
ASSUME RawSizesAssumption ==
    /\ HdrSize \in Nat \ {0}
    /\ MaxRawLen \in Nat \ {0}
    /\ BuffSize \in Nat /\ BuffSize >= HdrSize + MaxRawLen
    /\ IntRange \in Nat /\ IntRange % 2 = 0 /\ 2 * BuffSize < IntRange
    /\ SizeRange \in Nat \ {0} /\ SizeRange % IntRange = 0

\* The candidates of phase 3 are different keys, so no record is found twice.
ASSUME RawJobsAssumption ==
    /\ RecLens \subseteq 1..MaxRawLen
    /\ RecLimits \subseteq Nat
    /\ Memories \subseteq [Threads -> Nat]
    /\ ThresholdCnts \subseteq [Threads -> Nat]
    /\ FoundRecs \subseteq [Threads -> Seq(Nat \ {0})]
    /\ \A pos \in FoundRecs : \A t \in Threads : \A i, j \in 1..Len(pos[t]) :
          pos[t][i] = pos[t][j] => i = j

----------------------------------------------------------------------------
(* What is to be sent: for every round and thread a memory, as the         *)
(* sequence a cursor runs through, and the argument rec_limit of           *)
(* send_raw_mem.                                                           *)

\* The i-th record of a thread is <<t, i>>.
RecordsOf(mem) == [t \in Threads |-> [i \in 1..mem[t] |-> <<t, i>>]]

Round(recs, limits) == [t \in Threads |-> [mem |-> recs[t], limit |-> limits[t]]]

Everybody(n) == [t \in Threads |-> n]

\* MODE_SORT and MODE_AGGR without TPUT: one round.
SortRounds == {<<Round(RecordsOf(m), Everybody(n))>> : m \in Memories, n \in RecLimits}

AggrRounds == {<<Round(RecordsOf(m), Everybody(0))>> : m \in Memories}

\* The records at positions pos[t] of the memories.
Found(pos) == [t \in Threads |-> [i \in 1..Len(pos[t]) |-> <<t, pos[t][i]>>]]

\* The outcomes of one TPUT query: the records in the memories, rec_limit, the
\* records that satisfy the threshold and those found for the candidates.
TputOutcomes ==
    {q \in [mem: Memories, n: RecLimits \ {0}, cnt: ThresholdCnts, pos: FoundRecs] :
       \A t \in Threads :
          /\ q.cnt[t] <= q.mem[t]
          /\ \A i \in 1..Len(q.pos[t]) : q.pos[t][i] <= q.mem[t]}

TputRounds ==
    {<<Round(RecordsOf(q.mem), Everybody(q.n)), Round(RecordsOf(q.mem), q.cnt),
       Round(Found(q.pos), Everybody(0))>> : q \in TputOutcomes}

----------------------------------------------------------------------------

VARIABLES
    rounds,    \* the rounds of this query
    rec_len,   \* the length of its raw records
    \* worker threads: control, the round, and the locals of send_raw_mem (the
    \* cursor is at record rec_cntr + 1)
    pc, round, rec_cntr, buff, buff_idx, buff_off, buff_rec_cntr, request,
    \* MPI: messages of a thread that no receive has matched yet
    chan,
    \* the master: control, the round, rec_buff, the receive request with the
    \* size of the message that completed it, the locals of recv_loop, and the
    \* memory the records go to, a bag
    mpc, mround, rec_buff, rbuff_idx, rrequest, msg_size, rec_ptr, msg_end,
    active_sources, lnf_mem

jobVars    == <<rounds, rec_len>>
buffVars   == <<rec_cntr, buff, buff_idx, buff_off, buff_rec_cntr>>
threadVars == <<pc, round, buffVars, request>>
recvVars   == <<rec_buff, rbuff_idx, rrequest, msg_size>>
masterVars == <<mpc, mround, recvVars, rec_ptr, msg_end, active_sources, lnf_mem>>
vars       == <<jobVars, threadVars, chan, masterVars>>

Team(t) == {u \in Threads : SlaveOf[u] = SlaveOf[t]}

\* Where the bytes of a message are: in buffer 0 or 1 of its sender, in the
\* MPI library, or nowhere else than in the blocking send.
InMpi == 2
InSend == 3
NoRequest == 4

\* A unit of a buffer holds a record size (the first unit of a header: <<size>>),
\* the k-th unit of a record (<<record, k>>), or nothing yet.
Raw(rec) == [k \in 1..rec_len |-> <<rec, k>>]
Blank == <<>>
BlankBuffer == [o \in 0..(BuffSize - 1) |-> Blank]

----------------------------------------------------------------------------
(* send_raw_mem                                                            *)

Args(t) == rounds[round[t]][t]

\* while (cursor && rec_limit > rec_cntr), where zero is replaced by SIZE_MAX.
MoreToSend(t) ==
    /\ rec_cntr[t] < Len(Args(t).mem)
    /\ Args(t).limit = 0 \/ Args(t).limit > rec_cntr[t]

\* The conversion of a size_t to the parameter of type int.
ToInt(n) ==
    LET m == n % IntRange IN IF m < IntRange \div 2 THEN m ELSE m - IntRange

\* buff_size - buff_off - sizeof (xchg_rec_size_t) in the arithmetic of size_t
BuffRemaining(t) == (BuffSize - buff_off[t] - HdrSize) % SizeRange

\* Mistake: the difference is compared as it is, without sign.
FitsUnsigned(t) == rec_len <= BuffRemaining(t)

\* lnf_mem_read_raw_c (external) does not return LNF_ERR_NOMEM.
Fits(t) == rec_len <= ToInt(BuffRemaining(t))

\* The size goes to the offset, the record behind the header.
Written(b, o, rec) ==
    [i \in DOMAIN b |->
        CASE i = o -> <<rec_len>>
          [] i \in (o + HdrSize)..(o + HdrSize + rec_len - 1) ->
                Raw(rec)[i - o - HdrSize + 1]
          [] OTHER -> b[i]]

\* MPI_Wait(&request) can return.
SendComplete(t) == \A i \in 1..Len(chan[t]) : chan[t][i].at # request[t]

\* A send of the first len units at a location starts.
StartSend(t, at, len) ==
    /\ chan' = [chan EXCEPT ![t] =
                  Append(@, [tag |-> round[t], at |-> at, len |-> len,
                             data |-> BlankBuffer])]
    /\ request' = [request EXCEPT ![t] = at]

GoTo(t, label) == pc' = [pc EXCEPT ![t] = label]

Init ==
    /\ rounds \in SortRounds \cup AggrRounds \cup TputRounds
    /\ rec_len \in RecLens
    /\ pc = [t \in Threads |-> "loop"]
    /\ round = [t \in Threads |-> 1]
    /\ rec_cntr = [t \in Threads |-> 0]
    /\ buff = [t \in Threads |-> [i \in {0, 1} |-> BlankBuffer]]
    /\ buff_idx = [t \in Threads |-> 0]
    /\ buff_off = [t \in Threads |-> 0]
    /\ buff_rec_cntr = [t \in Threads |-> 0]
    /\ request = [t \in Threads |-> NoRequest]
    /\ chan = [t \in Threads |-> <<>>]
    /\ mpc = "wait"
    /\ mround = 1
    /\ rec_buff = [i \in {0, 1} |-> BlankBuffer]
    /\ rbuff_idx = 0
    /\ rrequest = "posted"
    /\ msg_size = 0
    /\ rec_ptr = [buff |-> 0, pos |-> 0]
    /\ msg_end = 0
    /\ active_sources = Cardinality(Threads)
    /\ lnf_mem = EmptyBag

\* Mistake: the size of the header is not added to the offset.
PutRecordNoHeader(t) ==
    /\ pc[t] = "loop"
    /\ MoreToSend(t)
    /\ Fits(t)
    /\ buff' = [buff EXCEPT ![t][buff_idx[t]] =
                  Written(@, buff_off[t], Args(t).mem[rec_cntr[t] + 1])]
    /\ buff_off' = [buff_off EXCEPT ![t] = @ + rec_len]
    /\ buff_rec_cntr' = [buff_rec_cntr EXCEPT ![t] = @ + 1]
    /\ rec_cntr' = [rec_cntr EXCEPT ![t] = @ + 1]
    /\ UNCHANGED <<jobVars, pc, round, buff_idx, request, chan, masterVars>>

\* There is enough space: the record is stored, the cursor moves on.
PutRecord(t) ==
    /\ pc[t] = "loop"
    /\ MoreToSend(t)
    /\ Fits(t)
    /\ buff' = [buff EXCEPT ![t][buff_idx[t]] =
                  Written(@, buff_off[t], Args(t).mem[rec_cntr[t] + 1])]
    /\ buff_off' = [buff_off EXCEPT ![t] = @ + HdrSize + rec_len]
    /\ buff_rec_cntr' = [buff_rec_cntr EXCEPT ![t] = @ + 1]
    /\ rec_cntr' = [rec_cntr EXCEPT ![t] = @ + 1]
    /\ UNCHANGED <<jobVars, pc, round, buff_idx, request, chan, masterVars>>

\* Mistake: the send of the other buffer is not waited for.
SendFullWithoutWait(t) ==
    /\ pc[t] = "loop"
    /\ MoreToSend(t)
    /\ ~Fits(t)
    /\ StartSend(t, buff_idx[t], buff_off[t])
    /\ buff_off' = [buff_off EXCEPT ![t] = 0]
    /\ buff_rec_cntr' = [buff_rec_cntr EXCEPT ![t] = 0]
    /\ buff_idx' = [buff_idx EXCEPT ![t] = 1 - @]
    /\ UNCHANGED <<jobVars, pc, round, rec_cntr, buff, masterVars>>

\* There is not: the other buffer is waited for, this one is sent, and the
\* record is tried again in the other one.
SendFull(t) ==
    /\ pc[t] = "loop"
    /\ MoreToSend(t)
    /\ ~Fits(t)
    /\ SendComplete(t)
    /\ StartSend(t, buff_idx[t], buff_off[t])
    /\ buff_off' = [buff_off EXCEPT ![t] = 0]
    /\ buff_rec_cntr' = [buff_rec_cntr EXCEPT ![t] = 0]
    /\ buff_idx' = [buff_idx EXCEPT ![t] = 1 - @]
    /\ UNCHANGED <<jobVars, pc, round, rec_cntr, buff, masterVars>>

\* The remaining records.
SendRest(t) ==
    /\ pc[t] = "loop"
    /\ ~MoreToSend(t)
    /\ buff_rec_cntr[t] # 0
    /\ SendComplete(t)
    /\ StartSend(t, buff_idx[t], buff_off[t])
    /\ GoTo(t, "sent")
    /\ UNCHANGED <<jobVars, round, buffVars, masterVars>>

NoRest(t) ==
    /\ pc[t] = "loop"
    /\ ~MoreToSend(t)
    /\ buff_rec_cntr[t] = 0
    /\ GoTo(t, "sent")
    /\ UNCHANGED <<jobVars, round, buffVars, request, chan, masterVars>>

\* The final MPI_Wait, then the blocking send of the terminator starts ...
StartTerminator(t) ==
    /\ pc[t] = "sent"
    /\ SendComplete(t)
    /\ StartSend(t, InSend, 0)
    /\ GoTo(t, "term")
    /\ UNCHANGED <<jobVars, round, buffVars, masterVars>>

\* ... and returns.
FinishTerminator(t) ==
    /\ pc[t] = "term"
    /\ SendComplete(t)
    /\ request' = [request EXCEPT ![t] = NoRequest]
    /\ GoTo(t, IF round[t] = Len(rounds) THEN "done" ELSE "single")
    /\ UNCHANGED <<jobVars, round, buffVars, chan, masterVars>>

\* Mistake: the broadcast is not waited for.
BeginRoundEarly(t) ==
    /\ pc[t] = "single"
    /\ \A u \in Team(t) : round[u] > round[t] \/ pc[u] = "single"
    /\ round' = [round EXCEPT ![t] = @ + 1]
    /\ rec_cntr' = [rec_cntr EXCEPT ![t] = 0]
    /\ buff_idx' = [buff_idx EXCEPT ![t] = 0]
    /\ buff_off' = [buff_off EXCEPT ![t] = 0]
    /\ buff_rec_cntr' = [buff_rec_cntr EXCEPT ![t] = 0]
    /\ GoTo(t, "loop")
    /\ UNCHANGED <<jobVars, buff, request, chan, masterVars>>

\* The omp single of phases 2 and 3: the broadcast returns once the master
\* has entered it, and nobody passes the barrier before the whole team is
\* there.  send_raw_mem starts anew, with the buffers as they are.
BeginRound(t) ==
    /\ pc[t] = "single"
    /\ mround > round[t]
    /\ \A u \in Team(t) : round[u] > round[t] \/ pc[u] = "single"
    /\ round' = [round EXCEPT ![t] = @ + 1]
    /\ rec_cntr' = [rec_cntr EXCEPT ![t] = 0]
    /\ buff_idx' = [buff_idx EXCEPT ![t] = 0]
    /\ buff_off' = [buff_off EXCEPT ![t] = 0]
    /\ buff_rec_cntr' = [buff_rec_cntr EXCEPT ![t] = 0]
    /\ GoTo(t, "loop")
    /\ UNCHANGED <<jobVars, buff, request, chan, masterVars>>

----------------------------------------------------------------------------
(* The MPI library (external).                                             *)

\* The bytes of message m of thread t, as they are now.
Payload(t, m) == IF m.at \in {0, 1} THEN buff[t][m.at] ELSE m.data

\* A message is copied away from its sender before it is received.
Transfer(t) ==
    \E i \in 1..Len(chan[t]) :
        /\ chan[t][i].at # InMpi
        /\ chan' = [chan EXCEPT ![t][i].at = InMpi,
                                ![t][i].data = Payload(t, chan[t][i])]
        /\ UNCHANGED <<jobVars, threadVars, masterVars>>

\* The first message of a thread with the tag of the receive the master has
\* posted matches it.
Deliver(t) ==
    /\ rrequest = "posted"
    /\ \E i \in 1..Len(chan[t]) :
          LET m == chan[t][i] IN
          /\ m.tag = mround
          /\ \A j \in 1..(i - 1) : chan[t][j].tag # mround
          /\ rec_buff' = [rec_buff EXCEPT ![rbuff_idx] =
                            [o \in DOMAIN @ |->
                               IF o < m.len THEN Payload(t, m)[o] ELSE @[o]]]
          /\ msg_size' = m.len
          /\ chan' = [chan EXCEPT ![t] = SubSeq(@, 1, i - 1) \o SubSeq(@, i + 1, Len(@))]
    /\ rrequest' = "complete"
    /\ UNCHANGED <<jobVars, threadVars, mpc, mround, rbuff_idx, rec_ptr, msg_end,
                   active_sources, lnf_mem>>

----------------------------------------------------------------------------
(* The master: recv_loop without a record limit, mem_write_raw_callback.   *)

\* An empty message ends one source; while others are active the receive is
\* posted again for the same buffer.
RecvTerminator ==
    /\ mpc = "wait"
    /\ rrequest = "complete"
    /\ msg_size = 0
    /\ active_sources' = active_sources - 1
    /\ IF active_sources' # 0
       THEN rrequest' = "posted" /\ UNCHANGED mpc
       ELSE /\ rrequest' = "null"
            /\ mpc' = IF mround = Len(rounds) THEN "done" ELSE "next"
    /\ UNCHANGED <<jobVars, threadVars, chan, mround, rec_buff, rbuff_idx, msg_size,
                   rec_ptr, msg_end, lnf_mem>>

\* Mistake: the next receive is posted for the buffer being processed.
RecvDataSameBuffer ==
    /\ mpc = "wait"
    /\ rrequest = "complete"
    /\ msg_size # 0
    /\ rec_ptr' = [buff |-> rbuff_idx, pos |-> 0]
    /\ msg_end' = msg_size
    /\ rrequest' = "posted"
    /\ mpc' = "process"
    /\ UNCHANGED <<jobVars, threadVars, chan, mround, rec_buff, rbuff_idx, msg_size,
                   active_sources, lnf_mem>>

\* Data: the buffers are switched and the next receive is posted.
RecvData ==
    /\ mpc = "wait"
    /\ rrequest = "complete"
    /\ msg_size # 0
    /\ rec_ptr' = [buff |-> rbuff_idx, pos |-> 0]
    /\ msg_end' = msg_size
    /\ rbuff_idx' = 1 - rbuff_idx
    /\ rrequest' = "posted"
    /\ mpc' = "process"
    /\ UNCHANGED <<jobVars, threadVars, chan, mround, rec_buff, msg_size,
                   active_sources, lnf_mem>>

\* *(xchg_rec_size_t *)(rec_ptr)
SizeAt(ptr) == rec_buff[ptr.buff][ptr.pos][1]

\* One record goes through the callback into the memory.
ProcessRecord ==
    /\ mpc = "process"
    /\ LET data == rec_ptr.pos + HdrSize
           end == data + SizeAt(rec_ptr) IN
       /\ lnf_mem' = lnf_mem (+) SetToBag(
                        {[k \in 1..SizeAt(rec_ptr) |->
                            rec_buff[rec_ptr.buff][data + k - 1]]})
       /\ rec_ptr' = [rec_ptr EXCEPT !.pos = end]
       /\ mpc' = IF end < msg_end THEN "process" ELSE "wait"
    /\ UNCHANGED <<jobVars, threadVars, chan, mround, recvVars, msg_end,
                   active_sources>>

\* TPUT goes on to its next phase: the memory is cleared, the threshold or the
\* candidates are broadcast, and the first receive of recv_loop is posted.
NextRecvLoop ==
    /\ mpc = "next"
    /\ mround' = mround + 1
    /\ lnf_mem' = EmptyBag
    /\ active_sources' = Cardinality(Threads)
    /\ rbuff_idx' = 0
    /\ rrequest' = "posted"
    /\ mpc' = "wait"
    /\ UNCHANGED <<jobVars, threadVars, chan, rec_buff, msg_size, rec_ptr, msg_end>>

----------------------------------------------------------------------------

SendStep(t) ==
    \/ PutRecord(t) \/ SendFull(t) \/ SendRest(t) \/ NoRest(t)
    \/ StartTerminator(t) \/ FinishTerminator(t) \/ BeginRound(t)

MasterStep == RecvTerminator \/ RecvData \/ ProcessRecord \/ NextRecvLoop

Terminated == mpc = "done" /\ \A t \in Threads : pc[t] = "done"

\* The query is over; not a step of the program.
Finished == Terminated /\ UNCHANGED vars

Next ==
    \/ \E t \in Threads : SendStep(t)
    \/ \E t \in Threads : Transfer(t)
    \/ \E t \in Threads : Deliver(t)
    \/ MasterStep
    \/ Finished

Spec == Init /\ [][Next]_vars

\* As in ListQuery: threads and master run on, a posted receive matches, and
\* nothing is assumed of Transfer.
Fairness ==
    /\ \A t \in Threads : WF_vars(SendStep(t))
    /\ WF_vars(\E t \in Threads : Deliver(t))
    /\ WF_vars(MasterStep)

FairSpec == Spec /\ Fairness

----------------------------------------------------------------------------
(* Properties                                                              *)

\* Every offset, index and counter is in the range of its buffer, so that
\* neither side writes or reads outside of XCHG_BUFF_SIZE bytes: although the
\* space left in a buffer is computed with unsigned numbers and wraps around
\* when not even a header fits.
TypeOK ==
    /\ pc \in [Threads -> {"loop", "sent", "term", "single", "done"}]
    /\ round \in [Threads -> 1..Len(rounds)]
    /\ rec_cntr \in [Threads -> Nat]
    /\ buff_idx \in [Threads -> {0, 1}]
    /\ buff_off \in [Threads -> 0..BuffSize]
    /\ buff_rec_cntr \in [Threads -> Nat]
    /\ request \in [Threads -> {0, 1, InSend, NoRequest}]
    /\ \A t \in Threads : \A i \in 1..Len(chan[t]) : chan[t][i].len \in 0..BuffSize
    /\ mpc \in {"wait", "process", "next", "done"}
    /\ mround \in 1..Len(rounds)
    /\ rbuff_idx \in {0, 1}
    /\ rrequest \in {"null", "posted", "complete"}
    /\ msg_size \in 0..BuffSize
    /\ rec_ptr \in [buff: {0, 1}, pos: 0..BuffSize]
    /\ active_sources \in 0..Cardinality(Threads)

\* send_raw_mem never writes into a buffer MPI may still be reading, in this
\* round or, the buffers being the same, since an earlier one.
RawBuffersNotShared ==
    \A t \in Threads : pc[t] \in {"loop", "single", "done"} =>
        \A i \in 1..Len(chan[t]) : chan[t][i].at # buff_idx[t]

\* The master takes an empty message for the end of a source, so send_raw_mem
\* must never hand an empty buffer to MPI: behind an empty message a thread
\* sends nothing more in this round.
EmptyMeansEnd ==
    \A t \in Threads : \A i \in 1..Len(chan[t]) :
        chan[t][i].len = 0 =>
            /\ \A j \in (i + 1)..Len(chan[t]) : chan[t][j].tag # chan[t][i].tag
            /\ pc[t] \in {"loop", "sent"} => round[t] # chan[t][i].tag

\* At each record of a message recv_loop finds a size, and the record ends
\* within the message: the headers send_raw_mem writes and those recv_loop
\* reads are at the same places, whatever was in the buffers before.
FramesMeet ==
    mpc = "process" =>
        /\ Len(rec_buff[rec_ptr.buff][rec_ptr.pos]) = 1
        /\ rec_ptr.pos + HdrSize + SizeAt(rec_ptr) <= msg_end

\* Sender and receiver agree on where a source ends and where a record begins.
MessagesWellFormed == EmptyMeansEnd /\ FramesMeet

\* The rounds of a query are kept apart, although recv_loop takes messages
\* from anybody and the same buffers serve every round: whatever is under way
\* belongs to the round of the master, and between two rounds nothing is.
RoundsApart ==
    /\ \A t \in Threads :
          /\ round[t] <= mround
          /\ \A i \in 1..Len(chan[t]) : chan[t][i].tag = mround
    /\ mpc \in {"next", "done"} => \A t \in Threads : chan[t] = <<>>

\* The records due in a round: the first rec_limit of every thread, or all.
Due ==
    [i \in 1..Len(rounds) |->
        UNION {{Raw(rounds[i][t].mem[k]) :
                  k \in {n \in 1..Len(rounds[i][t].mem) :
                           rounds[i][t].limit = 0 \/ n <= rounds[i][t].limit}}
               : t \in Threads}]

\* In every round the master's memory ends up with the first rec_limit records
\* of every thread, complete and none twice, and no round starts before.
Gathered == INSTANCE Gathering WITH due <- Due, round <- mround,
                                    gathered <- lnf_mem, done <- (mpc = "done")
ImplementsGathering == Gathered!Spec

============================================================================
