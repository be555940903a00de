-------------------------- MODULE ListQuery_proofs --------------------------
(***************************************************************************)
(* Proofs about ListQuery for any number of slaves, threads, files and     *)
(* records, in three parts: control (type correctness, BuffersNotShared,   *)
(* NothingLeftBehind), the record limit (LimitDecisionsSound), and the     *)
(* output (OutputAccounted, the refinement of Listing).                    *)
(***************************************************************************)
EXTENDS ListQuery, FiniteSetTheorems, FunctionTheorems, SequenceTheorems, TLAPS

(***************************************************************************)
(* The inductive invariant.  SenderInv is about one thread's buffers: only *)
(* the send its request stands for can be incomplete, and that is never    *)
(* the send of the buffer being filled.                                    *)
(***************************************************************************)
SenderInv(t) ==
    /\ \A i \in 1..Len(chan[t]) :
          chan[t][i].at # InMpi => chan[t][i].at = request[t]
    /\ pc[t] \in {"for", "open", "post", "done"} => request[t] = NoRequest
    /\ pc[t] \in {"read", "full", "isend", "check", "rest"} =>
          request[t] # buff_idx[t]
    /\ pc[t] = "count" => request[t] = buff_idx[t]
    /\ pc[t] = "check" => buff_rec_cntr[t] = 0
    /\ pc[t] \in {"full", "isend"} => buff_rec_cntr[t] # 0

ReceiverInv ==
    /\ mpc = "process" => rec_ptr.pos \in 1..msg_end
    /\ mpc = "done" <=> rrequest = "null"
    /\ mpc = "done" => active_sources = 0

Terminating == {"term", "done"}

\* A thread's messages carry records, but for a terminator at the very end.
TerminatorLast(t) ==
    /\ pc[t] \notin Terminating =>
          \A i \in 1..Len(chan[t]) : chan[t][i].len # 0
    /\ pc[t] \in Terminating =>
          \A i \in 1..Len(chan[t]) : chan[t][i].len = 0 <=> i = Len(chan[t])

\* The threads whose terminator has not been matched yet.
Live == {t \in Threads : pc[t] \notin Terminating \/ chan[t] # <<>>}

\* The terminator the master has received and not counted yet.
Arrived == IF rrequest = "complete" /\ msg_size = 0 THEN 1 ELSE 0

TerminatorsCounted == active_sources = Cardinality(Live) + Arrived

Inv ==
    /\ TypeOK
    /\ \A t \in Threads : SenderInv(t)
    /\ ReceiverInv
    /\ \A t \in Threads : TerminatorLast(t)
    /\ TerminatorsCounted

----------------------------------------------------------------------------

\* The initial states satisfy the invariant.
LEMMA InitInv == Init => Inv
<1> SUFFICES ASSUME Init PROVE Inv
  OBVIOUS
<1> USE ThreadsAssumption, BoundsAssumption
<1>1. BlankBuffer \in Buffer
  BY DEF BlankBuffer, Buffer
<1>2. Cardinality(Threads) \in Nat
  BY FS_CardinalityType
<1>3. TypeOK
  <2>1. SlaveTypes
    BY DEF Init, SlaveTypes
  <2>2. FileTypes
    BY DEF Init, FileTypes, Labels
  <2>3. SenderTypes
    BY <1>1 DEF Init, SenderTypes
  <2>4. MasterTypes
    <3>1. rec_ptr \in [buff: {0, 1}, pos: Nat] /\ msg_end \in 0..BuffRecs
      BY DEF Init
    <3>2. rec_buff \in [{0, 1} -> Buffer] /\ rec_cntr \in Nat
      BY <1>1 DEF Init
    <3>3. limit_exceeded \in BOOLEAN
      BY DEF Init
    <3> QED
      BY <1>2, <3>1, <3>2, <3>3 DEF Init, MasterTypes
  <2>5. OutputTypes
    BY DEF Init, OutputTypes
  <2> QED
    BY <2>1, <2>2, <2>3, <2>4, <2>5 DEF Init, TypeOK
<1>4. \A t \in Threads : SenderInv(t) /\ TerminatorLast(t)
  BY DEF Init, SenderInv, TerminatorLast, Terminating
<1>5. ReceiverInv
  BY DEF Init, ReceiverInv
<1>6. TerminatorsCounted
  <2>1. Live = Threads
    BY DEF Init, Live, Terminating
  <2> QED
    BY <2>1, <1>2 DEF Init, TerminatorsCounted, Arrived
<1> QED
  BY <1>3, <1>4, <1>5, <1>6 DEF Inv

----------------------------------------------------------------------------
(* Type correctness of one step.                                           *)

\* A blank buffer is a buffer, and what a buffer holds are records and blanks.
LEMMA BufferTypes ==
    /\ BlankBuffer \in Buffer
    /\ \A b \in Buffer, i \in 1..BuffRecs : b[i] \in Rec \cup {NoRec}
  BY DEF BlankBuffer, Buffer

\* Isend keeps the types, and appends a message of the given length.
LEMMA IsendType ==
    ASSUME SenderTypes, OutputTypes, NEW t \in Threads, NEW len \in 0..BuffRecs, Isend(t, len)
    PROVE  /\ chan' \in [Threads -> Seq(Msg)]
           /\ request' \in [Threads -> {0, 1, NoRequest}]
           /\ sent' \subseteq Rec \cup {NoRec}
<1> USE BoundsAssumption
<1>1. [at |-> buff_idx[t], len |-> len, data |-> BlankBuffer] \in Msg
  BY BufferTypes DEF SenderTypes, Msg
<1>2. chan' \in [Threads -> Seq(Msg)]
  BY <1>1 DEF SenderTypes, OutputTypes, Isend
<1>3. buff[t][buff_idx[t]] \in Buffer
  BY DEF SenderTypes
<1>4. \A i \in 1..len : buff[t][buff_idx[t]][i] \in Rec \cup {NoRec}
  BY <1>3, BufferTypes
<1>5. request' \in [Threads -> {0, 1, NoRequest}]
  BY DEF SenderTypes, Isend
<1>6. sent' \subseteq Rec \cup {NoRec}
  BY <1>4 DEF OutputTypes, Isend
<1> QED
  BY <1>2, <1>5, <1>6

\* WriteRecord keeps the types when there is room for the record.
LEMMA WriteRecordType ==
    ASSUME SenderTypes, FileTypes, NEW t \in Threads, NEW rec \in Rec, WriteRecord(t, rec),
           buff_rec_cntr[t] < BuffRecs
    PROVE  /\ buff' \in [Threads -> [{0, 1} -> Buffer]]
           /\ buff_rec_cntr' \in [Threads -> 0..BuffRecs]
           /\ thread_summ' \in [Threads -> Nat]
<1> USE BoundsAssumption
<1>1. buff[t] \in [{0, 1} -> Buffer] /\ buff_idx[t] \in {0, 1}
  BY DEF SenderTypes, FileTypes
<1> DEFINE b == [buff[t][buff_idx[t]] EXCEPT ![buff_rec_cntr[t] + 1] = rec]
<1>2. b \in Buffer
  BY <1>1 DEF Buffer
<1>3. buff' = [buff EXCEPT ![t] = [buff[t] EXCEPT ![buff_idx[t]] = b]]
  BY DEF WriteRecord
<1>4. buff' \in [Threads -> [{0, 1} -> Buffer]]
  <2> HIDE DEF b
  <2> QED
    BY <1>1, <1>2, <1>3 DEF SenderTypes, FileTypes
<1> QED
  BY <1>4 DEF SenderTypes, FileTypes, WriteRecord


\* Which actions can disturb which group of variables.
LEMMA Frames ==
    ASSUME [Next]_vars
    PROVE  /\ UNCHANGED jobVars
           /\ \/ UNCHANGED slaveVars
              \/ \E t \in Threads : \/ TakeFile(t) \/ LeaveLoop(t)
                                    \/ CountFull(t) \/ CheckFull(t)
                                    \/ CountRest(t) \/ CheckRest(t)
           /\ \/ UNCHANGED <<pc, fileVars, thread_summ>>
              \/ \E t \in Threads : ThreadStep(t)
           /\ \/ UNCHANGED <<buffVars, request, chan>>
              \/ \E t \in Threads : \/ OpenFile(t) \/ SendStep(t) \/ TermStep(t)
                                    \/ Transfer(t) \/ Deliver(t)
           /\ \/ UNCHANGED <<mpc, recvVars, rec_ptr, msg_end, rec_cntr,
                             limit_exceeded, active_sources>>
              \/ \E t \in Threads : Deliver(t)
              \/ MasterStep
           /\ \/ UNCHANGED <<printed, histVars>>
              \/ \E t \in Threads : \/ SendFull(t) \/ SendRest(t)
                                    \/ CheckRest(t) \/ StartTerminator(t)
              \/ ProcessRecord
<1> USE DEF jobVars, slaveVars, fileVars, buffVars, recvVars, histVars
<1>1. CASE UNCHANGED vars
  BY <1>1 DEF vars, threadVars, masterVars
<1>2. ASSUME NEW t \in Threads, FileStep(t)
      PROVE  /\ UNCHANGED <<jobVars, request, chan, masterVars, histVars>>
             /\ UNCHANGED slaveVars \/ TakeFile(t) \/ LeaveLoop(t)
             /\ UNCHANGED buffVars \/ OpenFile(t)
  BY <1>2 DEF FileStep, TakeFile, LeaveLoop, OpenFile
<1>3. ASSUME NEW t \in Threads, SendStep(t)
      PROVE  /\ UNCHANGED <<jobVars, masterVars>>
             /\ \/ UNCHANGED slaveVars \/ CountFull(t) \/ CheckFull(t)
                \/ CountRest(t) \/ CheckRest(t)
             /\ UNCHANGED histVars \/ SendFull(t) \/ SendRest(t) \/ CheckRest(t)
  BY <1>3 DEF SendStep, ReadRecord, ReadEnd, BufferFull, SendFull, CountFull,
    CheckFull, SendRest, NoRest, CountRest, CheckRest, FinishFile
<1>4. ASSUME NEW t \in Threads, TermStep(t)
      PROVE  /\ UNCHANGED <<jobVars, slaveVars, masterVars>>
             /\ UNCHANGED histVars \/ StartTerminator(t)
  BY <1>4 DEF TermStep, StartTerminator, FinishTerminator
<1>5. ASSUME NEW t \in Threads, Transfer(t) \/ Deliver(t)
      PROVE  /\ UNCHANGED <<jobVars, slaveVars, threadVars, printed, histVars>>
             /\ UNCHANGED masterVars \/ Deliver(t)
  BY <1>5 DEF Transfer, Deliver, masterVars
<1>6. ASSUME MasterStep
      PROVE  /\ UNCHANGED <<jobVars, slaveVars, threadVars, chan, histVars>>
             /\ UNCHANGED printed \/ ProcessRecord
  BY <1>6 DEF MasterStep, RecvTerminator, RecvData, ProcessRecord
<1>7. CASE Finished
  BY <1>7 DEF Finished, vars, threadVars, masterVars
<1> USE DEF threadVars, masterVars
<1>8. CASE \E t \in Threads : FileStep(t)
  BY <1>2, <1>8 DEF ThreadStep
<1>9. CASE \E t \in Threads : SendStep(t)
  BY <1>3, <1>9 DEF ThreadStep
<1>10. CASE \E t \in Threads : TermStep(t)
  BY <1>4, <1>10 DEF ThreadStep
<1>11. CASE \E t \in Threads : Transfer(t) \/ Deliver(t)
  BY <1>5, <1>11
<1>12. CASE MasterStep
  BY <1>6, <1>12
<1> QED
  BY <1>1, <1>7, <1>8, <1>9, <1>10, <1>11, <1>12 DEF Next, ThreadStep

\* A step keeps the types of struct slave_ctx and of the loop counter.
LEMMA SlaveTypesStep == Inv /\ [Next]_vars => SlaveTypes'
<1> SUFFICES ASSUME Inv, [Next]_vars PROVE SlaveTypes'
  OBVIOUS
<1> USE ThreadsAssumption DEF SlaveTypes
<1>0. SlaveTypes /\ FileTypes /\ SenderTypes
  BY DEF Inv, TypeOK
<1>1. CASE UNCHANGED slaveVars
  BY <1>0, <1>1 DEF slaveVars
<1>2. ASSUME NEW t \in Threads, TakeFile(t) PROVE SlaveTypes'
  BY <1>0, <1>2 DEF TakeFile
<1>3. ASSUME NEW t \in Threads, LeaveLoop(t) PROVE SlaveTypes'
  <2>1. thread_summ[t] \in Nat /\ SlaveOf[t] \in Slaves
    BY <1>0 DEF FileTypes
  <2>2. summ' \in [Slaves -> Nat]
    BY <1>0, <1>3, <2>1 DEF LeaveLoop
  <2> QED
    BY <1>0, <1>3, <2>2 DEF LeaveLoop
<1>4. ASSUME NEW t \in Threads, CountFull(t) \/ CountRest(t) PROVE SlaveTypes'
  <2>1. buff_rec_cntr[t] \in Nat /\ SlaveOf[t] \in Slaves
    BY <1>0, BoundsAssumption DEF SenderTypes
  <2>2. proc_rec_cntr' \in [Slaves -> Nat]
    BY <1>0, <1>4, <2>1 DEF CountFull, CountRest
  <2> QED
    BY <1>0, <1>4, <2>2 DEF CountFull, CountRest
<1>5. ASSUME NEW t \in Threads, CheckFull(t) \/ CheckRest(t) PROVE SlaveTypes'
  <2>1. rec_limit_reached' \in [Slaves -> BOOLEAN]
    BY <1>0, <1>5 DEF CheckFull, CheckRest
  <2> QED
    BY <1>0, <1>5, <2>1 DEF CheckFull, CheckRest
<1> QED
  BY Frames, <1>1, <1>2, <1>3, <1>4, <1>5

\* A step keeps the types of control and of the position in the flow files.
LEMMA FileTypesStep == Inv /\ [Next]_vars => FileTypes'
<1> SUFFICES ASSUME Inv, [Next]_vars PROVE FileTypes'
  OBVIOUS
<1> USE DEF FileTypes, GoTo, Labels, fileVars
<1>0. FileTypes /\ SlaveTypes
  BY DEF Inv, TypeOK
<1>1. CASE UNCHANGED <<pc, fileVars, thread_summ>>
  BY <1>0, <1>1
<1>2. ASSUME NEW t \in Threads, TakeFile(t) PROVE FileTypes'
  <2>1. next_path[SlaveOf[t]] \in Nat
    BY <1>0, ThreadsAssumption DEF SlaveTypes
  <2> QED
    BY <1>0, <1>2, <2>1 DEF TakeFile
<1>6. ASSUME NEW t \in Threads, LeaveLoop(t) PROVE FileTypes'
  BY <1>0, <1>6 DEF LeaveLoop
<1>8. ASSUME NEW t \in Threads, OpenFile(t) PROVE FileTypes'
  <2>1. pc' \in [Threads -> Labels] /\ off' \in [Threads -> Nat]
    BY <1>0, <1>8 DEF OpenFile
  <2> QED
    BY <1>0, <1>8, <2>1 DEF OpenFile
<1>3. ASSUME NEW t \in Threads, ReadRecord(t) PROVE FileTypes'
  <2>1. /\ off' \in [Threads -> Nat] /\ lnf_ret' \in [Threads -> {"ok", "eof", "err"}]
        /\ UNCHANGED path
    BY <1>0, <1>3 DEF ReadRecord
  <2>2. UNCHANGED pc \/ GoTo(t, "full")
    BY <1>3 DEF ReadRecord
  <2>3. pc' \in [Threads -> Labels]
    BY <1>0, <2>2
  <2>4. UNCHANGED thread_summ \/ thread_summ' = [thread_summ EXCEPT ![t] = @ + 1]
    BY <1>3 DEF ReadRecord, WriteRecord
  <2>5. thread_summ' \in [Threads -> Nat]
    BY <1>0, <2>4
  <2> QED
    BY <1>0, <2>1, <2>3, <2>5
<1>7. ASSUME NEW t \in Threads, CheckFull(t) PROVE FileTypes'
  BY <1>0, <1>7 DEF CheckFull, WriteRecord
<1>4. ASSUME NEW t \in Threads, SendStep(t), ~ReadRecord(t), ~CheckFull(t)
      PROVE  FileTypes'
  BY <1>0, <1>4 DEF SendStep, ReadEnd, BufferFull, SendFull, CountFull,
    SendRest, NoRest, CountRest, CheckRest, FinishFile
<1>5. ASSUME NEW t \in Threads, TermStep(t) PROVE FileTypes'
  BY <1>0, <1>5 DEF TermStep, StartTerminator, FinishTerminator
<1> QED
  BY Frames, <1>1, <1>2, <1>3, <1>4, <1>5, <1>6, <1>7, <1>8
    DEF ThreadStep, FileStep

\* A step keeps the types of the send buffers, their counters and the messages:
\* no record is written behind the end of a buffer.
LEMMA SenderTypesStep == Inv /\ [Next]_vars => SenderTypes'
<1> SUFFICES ASSUME Inv, [Next]_vars PROVE SenderTypes'
  OBVIOUS
<1> USE BoundsAssumption DEF buffVars
<1>0. SenderTypes /\ FileTypes /\ OutputTypes /\ \A t \in Threads : SenderInv(t)
  BY DEF Inv, TypeOK
<1>1. CASE UNCHANGED <<buffVars, request, chan>>
  BY <1>0, <1>1 DEF SenderTypes
<1>2. ASSUME NEW t \in Threads, OpenFile(t) PROVE SenderTypes'
  <2>0. /\ buff_idx \in [Threads -> {0, 1}]
        /\ buff_rec_cntr \in [Threads -> 0..BuffRecs]
        /\ 0 \in 0..BuffRecs
    BY <1>0 DEF SenderTypes
  <2>1. /\ buff_idx' \in [Threads -> {0, 1}]
        /\ buff_rec_cntr' \in [Threads -> 0..BuffRecs]
    BY <2>0, <1>2 DEF OpenFile
  <2> QED
    BY <1>0, <1>2, <2>1 DEF OpenFile, SenderTypes
<1>3. ASSUME NEW t \in Threads, NEW rec \in Rec, WriteRecord(t, rec),
             buff_rec_cntr[t] < BuffRecs, UNCHANGED <<buff_idx, request, chan>>
      PROVE  SenderTypes'
  BY <1>0, <1>3, WriteRecordType DEF SenderTypes
<1>4. ASSUME NEW t \in Threads, ReadRecord(t) PROVE SenderTypes'
  <2>1. <<SlaveOf[t], path[t], off[t] + 1>> \in Rec
    BY <1>0, ThreadsAssumption DEF FileTypes, Rec
  <2> QED
    BY <1>0, <1>1, <1>3, <1>4, <2>1 DEF ReadRecord
<1>5. ASSUME NEW t \in Threads, CheckFull(t) PROVE SenderTypes'
  <2>1. <<SlaveOf[t], path[t], off[t]>> \in Rec
    BY <1>0, ThreadsAssumption DEF FileTypes, Rec
  <2>2. buff_rec_cntr[t] < BuffRecs
    BY <1>0, <1>5 DEF SenderInv, CheckFull
  <2> QED
    BY <1>1, <1>3, <1>5, <2>1, <2>2 DEF CheckFull
<1>6. ASSUME NEW t \in Threads, ReadEnd(t) \/ NoRest(t) \/ CountRest(t) \/ CheckRest(t)
      PROVE  SenderTypes'
  BY <1>1, <1>6 DEF ReadEnd, NoRest, CountRest, CheckRest
<1>7. ASSUME NEW t \in Threads, BufferFull(t) \/ CountFull(t) PROVE SenderTypes'
  <2>0. /\ buff_idx \in [Threads -> {0, 1}]
        /\ buff_rec_cntr \in [Threads -> 0..BuffRecs]
        /\ 0 \in 0..BuffRecs
    BY <1>0 DEF SenderTypes
  <2>1. /\ buff_idx' \in [Threads -> {0, 1}]
        /\ buff_rec_cntr' \in [Threads -> 0..BuffRecs]
    BY <2>0, <1>7 DEF BufferFull, CountFull
  <2> QED
    BY <1>0, <1>7, <2>1 DEF BufferFull, CountFull, SenderTypes
<1>8. ASSUME NEW t \in Threads, SendFull(t) \/ SendRest(t) \/ StartTerminator(t)
      PROVE  SenderTypes'
  <2>1. PICK len \in 0..BuffRecs : Isend(t, len)
    <3>1. buff_rec_cntr[t] \in 0..BuffRecs /\ 0 \in 0..BuffRecs
      BY <1>0 DEF SenderTypes
    <3> QED
      BY <1>8, <3>1 DEF SendFull, SendRest, StartTerminator
  <2>2. UNCHANGED buffVars
    BY <1>8 DEF SendFull, SendRest, StartTerminator
  <2> QED
    BY <1>0, <2>1, <2>2, IsendType DEF SenderTypes
<1>9. ASSUME NEW t \in Threads, FinishFile(t) \/ FinishTerminator(t)
      PROVE  SenderTypes'
  BY <1>0, <1>9 DEF FinishFile, FinishTerminator, SenderTypes
<1>10. ASSUME NEW t \in Threads, Transfer(t) PROVE SenderTypes'
  <2>1. PICK i \in 1..Len(chan[t]) :
          chan' = [chan EXCEPT ![t][i] =
                     [at |-> InMpi, len |-> chan[t][i].len,
                      data |-> Payload(t, chan[t][i])]]
    BY <1>10 DEF Transfer
  <2>2. chan[t] \in Seq(Msg) /\ chan[t][i] \in Msg
    BY <1>0 DEF SenderTypes
  <2>3. Payload(t, chan[t][i]) \in Buffer
    BY <1>0, <2>2 DEF Payload, Msg, SenderTypes
  <2>4. [at |-> InMpi, len |-> chan[t][i].len,
         data |-> Payload(t, chan[t][i])] \in Msg
    BY <2>2, <2>3 DEF Msg
  <2>5. chan' \in [Threads -> Seq(Msg)]
    BY <1>0, <2>1, <2>2, <2>4 DEF SenderTypes
  <2> QED
    BY <1>0, <1>10, <2>5 DEF Transfer, threadVars, SenderTypes
<1>11. ASSUME NEW t \in Threads, Deliver(t) PROVE SenderTypes'
  <2>1. chan' \in [Threads -> Seq(Msg)]
    BY <1>0, <1>11 DEF Deliver, SenderTypes
  <2> QED
    BY <1>0, <1>11, <2>1 DEF Deliver, threadVars, SenderTypes
<1> QED
  BY Frames, <1>1, <1>2, <1>4, <1>5, <1>6, <1>7, <1>8, <1>9, <1>10, <1>11
    DEF SendStep, TermStep

\* A step keeps the types of the variables of recv_loop; active_sources does
\* not fall below zero because a completed terminator is still counted.
LEMMA MasterTypesStep == Inv /\ [Next]_vars => MasterTypes'
<1> SUFFICES ASSUME Inv, [Next]_vars PROVE MasterTypes'
  OBVIOUS
<1> USE BoundsAssumption DEF recvVars
<1>0. MasterTypes /\ SenderTypes /\ ReceiverInv
  BY DEF Inv, TypeOK
<1>1. CASE UNCHANGED <<mpc, recvVars, rec_ptr, msg_end, rec_cntr,
                       limit_exceeded, active_sources>>
  BY <1>0, <1>1 DEF MasterTypes
<1>2. ASSUME NEW t \in Threads, Deliver(t) PROVE MasterTypes'
  <2> DEFINE m == Head(chan[t])
  <2>1. m \in Msg
    BY <1>0, <1>2 DEF Deliver, SenderTypes
  <2>2. Payload(t, m) \in Buffer
    BY <1>0, <2>1 DEF Payload, Msg, SenderTypes
  <2>3. [i \in 1..BuffRecs |-> IF i <= m.len THEN Payload(t, m)[i]
                               ELSE rec_buff[rbuff_idx][i]] \in Buffer
    BY <1>0, <2>2 DEF Buffer, MasterTypes
  <2>4. rec_buff' \in [{0, 1} -> Buffer]
    BY <1>0, <1>2, <2>3 DEF Deliver, MasterTypes
  <2>5. msg_size' \in 0..BuffRecs
    BY <1>2, <2>1 DEF Deliver, Msg
  <2> QED
    BY <1>0, <1>2, <2>4, <2>5 DEF Deliver, MasterTypes
<1>3. ASSUME RecvTerminator PROVE MasterTypes'
  <2>1. active_sources \in Nat /\ active_sources # 0
    <3>1. IsFiniteSet(Live)
      BY FS_Subset, ThreadsAssumption DEF Live
    <3>2. Cardinality(Live) \in Nat
      BY <3>1, FS_CardinalityType
    <3> QED
      BY <1>0, <1>3, <3>2 DEF Inv, TerminatorsCounted, Arrived, RecvTerminator, MasterTypes
  <2> QED
    BY <1>0, <1>3, <2>1 DEF RecvTerminator, MasterTypes
<1>4. ASSUME RecvData PROVE MasterTypes'
  BY <1>0, <1>4 DEF RecvData, MasterTypes
<1>5. ASSUME ProcessRecord PROVE MasterTypes'
  BY <1>0, <1>5 DEF ProcessRecord, MasterTypes
<1> QED
  BY Frames, <1>1, <1>2, <1>3, <1>4, <1>5 DEF MasterStep

\* A step keeps the types of the output and of the history variables.
LEMMA OutputTypesStep == Inv /\ [Next]_vars => OutputTypes'
<1> SUFFICES ASSUME Inv, [Next]_vars PROVE OutputTypes'
  OBVIOUS
<1> USE BoundsAssumption DEF histVars
<1>0. OutputTypes /\ MasterTypes /\ SenderTypes /\ FileTypes /\ ReceiverInv
  BY DEF Inv, TypeOK
<1>1. CASE UNCHANGED <<printed, histVars>>
  BY <1>0, <1>1 DEF OutputTypes
<1>2. ASSUME NEW t \in Threads, SendFull(t) \/ SendRest(t) \/ StartTerminator(t)
      PROVE  OutputTypes'
  <2>1. PICK len \in 0..BuffRecs : Isend(t, len)
    <3>1. buff_rec_cntr[t] \in 0..BuffRecs /\ 0 \in 0..BuffRecs
      BY <1>0 DEF SenderTypes
    <3> QED
      BY <1>2, <3>1 DEF SendFull, SendRest, StartTerminator
  <2>2. UNCHANGED <<printed, warned>>
    BY <1>2 DEF SendFull, SendRest, StartTerminator, masterVars
  <2> QED
    BY <1>0, <2>1, <2>2, IsendType DEF OutputTypes
<1>3. ASSUME NEW t \in Threads, CheckRest(t) PROVE OutputTypes'
  BY <1>0, <1>3, ThreadsAssumption DEF CheckRest, OutputTypes, FileTypes, masterVars
<1>4. ASSUME ProcessRecord PROVE OutputTypes'
  <2>1. rec_buff[rec_ptr.buff][rec_ptr.pos] \in Rec \cup {NoRec}
    <3>1. rec_buff[rec_ptr.buff] \in Buffer
      BY <1>0 DEF MasterTypes
    <3>2. rec_ptr.pos \in 1..BuffRecs
      BY <1>0, <1>4 DEF MasterTypes, ReceiverInv, ProcessRecord
    <3> QED
      BY <3>1, <3>2, BufferTypes
  <2> QED
    BY <1>0, <1>4, <2>1 DEF ProcessRecord, OutputTypes
<1> QED
  BY Frames, <1>1, <1>2, <1>3, <1>4

\* A step keeps all types.
LEMMA TypeStep == Inv /\ [Next]_vars => TypeOK'
  BY Frames, SlaveTypesStep, FileTypesStep, SenderTypesStep, MasterTypesStep,
    OutputTypesStep DEF Inv, TypeOK, jobVars

----------------------------------------------------------------------------
(* The state of a thread's sends.                                          *)

SendState(t) ==
    <<pc[t], chan[t], request[t], buff_idx[t], buff_rec_cntr[t]>>

\* A step changes the sends of the thread that takes it and of no other.
LEMMA OwnSends ==
    ASSUME TypeOK, [Next]_vars, NEW u \in Threads
    PROVE  \/ UNCHANGED SendState(u)
           \/ ThreadStep(u)
           \/ Transfer(u)
           \/ Deliver(u)
<1> USE DEF SendState, fileVars, buffVars
<1>0. /\ FileTypes /\ SenderTypes
  BY DEF TypeOK
<1>1. CASE UNCHANGED vars
  BY <1>1 DEF vars, threadVars
<1>2. ASSUME NEW t \in Threads, t # u, FileStep(t) PROVE UNCHANGED SendState(u)
  BY <1>0, <1>2 DEF FileStep, TakeFile, LeaveLoop, OpenFile, GoTo, FileTypes,
    SenderTypes
<1>3. ASSUME NEW t \in Threads, t # u, ReadRecord(t) \/ CheckFull(t)
      PROVE  UNCHANGED SendState(u)
  BY <1>0, <1>3 DEF ReadRecord, CheckFull, WriteRecord, GoTo, FileTypes,
    SenderTypes
<1>4. ASSUME NEW t \in Threads, t # u,
             \/ SendFull(t) \/ SendRest(t) \/ FinishFile(t) \/ TermStep(t)
      PROVE  UNCHANGED SendState(u)
  BY <1>0, <1>4 DEF SendFull, SendRest, FinishFile, TermStep, StartTerminator,
    FinishTerminator, Isend, GoTo, FileTypes, SenderTypes
<1>5. ASSUME NEW t \in Threads, t # u,
             \/ ReadEnd(t) \/ BufferFull(t) \/ CountFull(t) \/ NoRest(t)
             \/ CountRest(t) \/ CheckRest(t)
      PROVE  UNCHANGED SendState(u)
  BY <1>0, <1>5 DEF ReadEnd, BufferFull, CountFull, NoRest, CountRest,
    CheckRest, GoTo, FileTypes, SenderTypes
<1>6. ASSUME NEW t \in Threads, t # u, Transfer(t) \/ Deliver(t)
      PROVE  UNCHANGED SendState(u)
  BY <1>0, <1>6 DEF Transfer, Deliver, threadVars, SenderTypes
<1>7. CASE MasterStep
  BY <1>7 DEF MasterStep, RecvTerminator, RecvData, ProcessRecord, threadVars
<1>8. CASE Finished
  BY <1>8 DEF Finished, vars, threadVars
<1> QED
  BY <1>1, <1>2, <1>3, <1>4, <1>5, <1>6, <1>7, <1>8
    DEF Next, ThreadStep, SendStep

\* When a thread may send, all its earlier messages have left its buffers.
LEMMA AllTransferred ==
    ASSUME SenderTypes, NEW t \in Threads, SenderInv(t),
           SendComplete(t) \/ request[t] = NoRequest
    PROVE  \A i \in 1..Len(chan[t]) : chan[t][i].at = InMpi
<1> SUFFICES ASSUME NEW i \in 1..Len(chan[t]) PROVE chan[t][i].at = InMpi
  OBVIOUS
<1>1. chan[t][i] \in Msg
  BY DEF SenderTypes
<1> QED
  BY <1>1 DEF SenderInv, SendComplete, Msg, InMpi, NoRequest

\* An index of a sequence that has grown by one.
LEMMA IndexSplit ==
    ASSUME NEW n \in Nat, NEW i \in 1..(n + 1)
    PROVE  i \in 1..n \/ i = n + 1
  OBVIOUS

\* Isend appends one message, of which alone the request then speaks.
LEMMA IsendEffect ==
    ASSUME SenderTypes, NEW t \in Threads, NEW len, Isend(t, len)
    PROVE  /\ Len(chan'[t]) = Len(chan[t]) + 1
           /\ \A i \in 1..Len(chan[t]) : chan'[t][i] = chan[t][i]
           /\ chan'[t][Len(chan[t]) + 1].at = buff_idx[t]
           /\ chan'[t][Len(chan[t]) + 1].len = len
           /\ request'[t] = buff_idx[t]
<1> DEFINE m == [at |-> buff_idx[t], len |-> len, data |-> BlankBuffer]
<1>1. chan[t] \in Seq(Msg) /\ chan'[t] = Append(chan[t], m)
  BY DEF SenderTypes, Isend
<1>2. request'[t] = buff_idx[t]
  BY DEF SenderTypes, Isend
<1>3. m.at = buff_idx[t] /\ m.len = len
  OBVIOUS
<1> HIDE DEF m
<1> QED
  BY <1>1, <1>2, <1>3

\* A step keeps SenderInv: MPI_Wait stands before every reuse of a send buffer.
LEMMA SenderStep ==
    ASSUME Inv, [Next]_vars, NEW t \in Threads
    PROVE  SenderInv(t)'
<1> USE BoundsAssumption
<1>0. FileTypes /\ SenderTypes /\ SenderInv(t)
  BY DEF Inv, TypeOK
<1>1. CASE UNCHANGED SendState(t)
  BY <1>0, <1>1 DEF SenderInv, SendState
<1>2. CASE FileStep(t)
  <2>1. CASE TakeFile(t) \/ LeaveLoop(t)
    BY <1>0, <2>1 DEF TakeFile, LeaveLoop, GoTo, SenderInv, FileTypes, buffVars
  <2>2. CASE OpenFile(t)
    <3>1. request[t] = NoRequest /\ UNCHANGED <<request, chan>>
      BY <1>0, <2>2 DEF OpenFile, SenderInv
    <3>2. buff_idx'[t] \in {0, 1} /\ pc'[t] \in {"read", "for"}
      BY <1>0, <2>2 DEF OpenFile, GoTo, FileTypes, SenderTypes
    <3> QED
      BY <1>0, <3>1, <3>2 DEF SenderInv, NoRequest
  <2> QED
    BY <1>2, <2>1, <2>2 DEF FileStep
<1>3. CASE ReadRecord(t)
  BY <1>0, <1>3 DEF ReadRecord, WriteRecord, GoTo, SenderInv, FileTypes,
    SenderTypes
<1>4. CASE CheckFull(t)
  BY <1>0, <1>4 DEF CheckFull, WriteRecord, GoTo, SenderInv, FileTypes,
    SenderTypes
<1>5. CASE ReadEnd(t) \/ BufferFull(t) \/ NoRest(t) \/ CountRest(t) \/ CheckRest(t)
  BY <1>0, <1>5 DEF ReadEnd, BufferFull, NoRest, CountRest, CheckRest, GoTo,
    SenderInv, FileTypes, SenderTypes, buffVars
<1>6. CASE CountFull(t)
  <2>1. request[t] = buff_idx[t] /\ buff_idx[t] \in {0, 1}
    BY <1>0, <1>6 DEF CountFull, SenderInv, SenderTypes
  <2>2. buff_idx'[t] = 1 - buff_idx[t] /\ buff_rec_cntr'[t] = 0 /\ pc'[t] = "check"
    BY <1>0, <1>6 DEF CountFull, GoTo, FileTypes, SenderTypes
  <2>3. UNCHANGED <<request, chan>>
    BY <1>6 DEF CountFull
  <2> QED
    BY <1>0, <2>1, <2>2, <2>3 DEF SenderInv
<1>7. CASE SendFull(t) \/ SendRest(t) \/ StartTerminator(t)
  <2>1. PICK len : Isend(t, len)
    BY <1>7 DEF SendFull, SendRest, StartTerminator
  <2>2. \A i \in 1..Len(chan[t]) : chan[t][i].at = InMpi
    BY <1>0, <1>7, AllTransferred DEF SendFull, SendRest, StartTerminator, SenderInv
  <2>3. \A i \in 1..Len(chan'[t]) :
           chan'[t][i].at # InMpi => chan'[t][i].at = request'[t]
    <3>1. /\ Len(chan'[t]) = Len(chan[t]) + 1
          /\ \A i \in 1..Len(chan[t]) : chan'[t][i] = chan[t][i]
          /\ chan'[t][Len(chan[t]) + 1].at = request'[t]
      BY <1>0, <2>1, IsendEffect
    <3>2. Len(chan[t]) \in Nat
      BY <1>0 DEF SenderTypes
    <3> TAKE i \in 1..Len(chan'[t])
    <3>3. i \in 1..Len(chan[t]) \/ i = Len(chan[t]) + 1
      BY <3>1, <3>2, IndexSplit
    <3> QED
      BY <2>2, <3>1, <3>3
  <2>4. pc'[t] \in {"count", "countRest", "term"} /\ UNCHANGED buffVars
    BY <1>0, <1>7 DEF SendFull, SendRest, StartTerminator, GoTo, FileTypes
  <2>5. request'[t] = buff_idx'[t]
    BY <1>0, <2>1, <2>4, IsendEffect DEF buffVars
  <2> QED
    BY <2>3, <2>4, <2>5 DEF SenderInv
<1>8. CASE FinishFile(t) \/ FinishTerminator(t)
  <2>1. \A i \in 1..Len(chan[t]) : chan[t][i].at = InMpi
    BY <1>0, <1>8, AllTransferred DEF FinishFile, FinishTerminator
  <2> QED
    BY <1>0, <1>8, <2>1 DEF FinishFile, FinishTerminator, GoTo, SenderInv,
      FileTypes, SenderTypes
<1>9. CASE Transfer(t)
  <2>1. PICK i \in 1..Len(chan[t]) :
          chan' = [chan EXCEPT ![t][i] =
                     [at |-> InMpi, len |-> chan[t][i].len,
                      data |-> Payload(t, chan[t][i])]]
    BY <1>9 DEF Transfer
  <2>2. /\ Len(chan'[t]) = Len(chan[t])
        /\ \A j \in 1..Len(chan[t]) :
              chan'[t][j].at = IF j = i THEN InMpi ELSE chan[t][j].at
    BY <1>0, <2>1 DEF SenderTypes
  <2> QED
    BY <1>0, <1>9, <2>2 DEF Transfer, threadVars, buffVars, SenderInv
<1>10. CASE Deliver(t)
  <2>1. /\ Len(chan'[t]) = Len(chan[t]) - 1
        /\ \A j \in 1..Len(chan'[t]) : chan'[t][j] = chan[t][j + 1]
    BY <1>0, <1>10 DEF Deliver, SenderTypes
  <2>2. \A j \in 1..Len(chan'[t]) : j + 1 \in 1..Len(chan[t])
    BY <1>0, <2>1 DEF SenderTypes
  <2> QED
    BY <1>0, <1>10, <2>1, <2>2 DEF Deliver, threadVars, buffVars, SenderInv
<1>11. TypeOK
  BY DEF Inv
<1> QED
  BY <1>1, <1>2, <1>3, <1>4, <1>5, <1>6, <1>7, <1>8, <1>9, <1>10, <1>11, OwnSends
    DEF ThreadStep, SendStep, TermStep

----------------------------------------------------------------------------
(* The terminators.                                                        *)

\* A step keeps ReceiverInv: the receive is active as long as recv_loop waits.
LEMMA ReceiverStep == Inv /\ [Next]_vars => ReceiverInv'
<1> SUFFICES ASSUME Inv, [Next]_vars PROVE ReceiverInv'
  OBVIOUS
<1>0. MasterTypes /\ ReceiverInv
  BY DEF Inv, TypeOK
<1>1. CASE UNCHANGED <<mpc, recvVars, rec_ptr, msg_end, rec_cntr,
                       limit_exceeded, active_sources>>
  BY <1>0, <1>1 DEF ReceiverInv, recvVars
<1>2. ASSUME NEW t \in Threads, Deliver(t) PROVE ReceiverInv'
  BY <1>0, <1>2 DEF Deliver, ReceiverInv
<1>3. ASSUME RecvTerminator PROVE ReceiverInv'
  BY <1>0, <1>3 DEF RecvTerminator, ReceiverInv
<1>4. ASSUME RecvData PROVE ReceiverInv'
  BY <1>0, <1>4, BoundsAssumption DEF RecvData, ReceiverInv, MasterTypes
<1>5. ASSUME ProcessRecord PROVE ReceiverInv'
  BY <1>0, <1>5, BoundsAssumption DEF ProcessRecord, ReceiverInv, MasterTypes, recvVars
<1> QED
  BY Frames, <1>1, <1>2, <1>3, <1>4, <1>5 DEF MasterStep

\* A step keeps TerminatorLast: a thread sends nothing after its terminator.
LEMMA TerminatorStep ==
    ASSUME Inv, [Next]_vars, NEW t \in Threads
    PROVE  TerminatorLast(t)'
<1> USE DEF TerminatorLast, Terminating
<1>0. FileTypes /\ SenderTypes /\ SenderInv(t) /\ TerminatorLast(t)
  BY DEF Inv, TypeOK
<1>1. CASE UNCHANGED SendState(t)
  BY <1>0, <1>1 DEF SendState
<1>2. CASE \/ FileStep(t) \/ ReadRecord(t) \/ CheckFull(t) \/ ReadEnd(t)
           \/ BufferFull(t) \/ NoRest(t) \/ CountRest(t) \/ CheckRest(t)
           \/ CountFull(t) \/ FinishFile(t)
  <2>1. UNCHANGED chan /\ pc[t] \notin Terminating
    BY <1>2 DEF FileStep, TakeFile, LeaveLoop, OpenFile, ReadRecord, CheckFull,
      ReadEnd, BufferFull, NoRest, CountRest, CheckRest, CountFull, FinishFile
  <2>2. pc'[t] \notin Terminating
    BY <1>0, <1>2 DEF FileStep, TakeFile, LeaveLoop, OpenFile, ReadRecord,
      CheckFull, ReadEnd, BufferFull, NoRest, CountRest, CheckRest, CountFull,
      FinishFile, GoTo, FileTypes
  <2> QED
    BY <1>0, <2>1, <2>2
<1>3. CASE SendFull(t) \/ SendRest(t)
  <2>1. Isend(t, buff_rec_cntr[t]) /\ buff_rec_cntr[t] # 0
    BY <1>0, <1>3 DEF SendFull, SendRest, SenderInv
  <2>2. pc[t] \notin Terminating /\ pc'[t] \notin Terminating
    BY <1>0, <1>3 DEF SendFull, SendRest, GoTo, FileTypes
  <2>3. Len(chan[t]) \in Nat
    BY <1>0 DEF SenderTypes
  <2>4. /\ Len(chan'[t]) = Len(chan[t]) + 1
        /\ \A i \in 1..Len(chan[t]) : chan'[t][i] = chan[t][i]
        /\ chan'[t][Len(chan[t]) + 1].len # 0
    BY <1>0, <2>1, IsendEffect
  <2>5. \A i \in 1..Len(chan'[t]) : chan'[t][i].len # 0
    <3> TAKE i \in 1..Len(chan'[t])
    <3>1. i \in 1..Len(chan[t]) \/ i = Len(chan[t]) + 1
      BY <2>3, <2>4, IndexSplit
    <3> QED
      BY <1>0, <2>2, <2>4, <3>1
  <2> QED
    BY <2>2, <2>5
<1>4. CASE StartTerminator(t)
  <2>1. Isend(t, 0) /\ pc[t] \notin Terminating /\ pc'[t] \in Terminating
    BY <1>0, <1>4 DEF StartTerminator, GoTo, FileTypes
  <2>2. Len(chan[t]) \in Nat
    BY <1>0 DEF SenderTypes
  <2>3. /\ Len(chan'[t]) = Len(chan[t]) + 1
        /\ \A i \in 1..Len(chan[t]) : chan'[t][i] = chan[t][i]
        /\ chan'[t][Len(chan[t]) + 1].len = 0
    BY <1>0, <2>1, IsendEffect
  <2>4. \A i \in 1..Len(chan'[t]) : chan'[t][i].len = 0 <=> i = Len(chan'[t])
    <3> TAKE i \in 1..Len(chan'[t])
    <3>1. \/ i \in 1..Len(chan[t]) /\ i # Len(chan'[t])
          \/ i = Len(chan'[t])
      BY <2>2, <2>3, IndexSplit
    <3>2. \A j \in 1..Len(chan[t]) : chan[t][j].len # 0
      BY <1>0, <2>1
    <3> QED
      BY <2>3, <3>1, <3>2
  <2> QED
    BY <2>1, <2>4
<1>5. CASE FinishTerminator(t)
  BY <1>0, <1>5 DEF FinishTerminator, GoTo, FileTypes
<1>6. CASE Transfer(t)
  <2>1. PICK i \in 1..Len(chan[t]) :
          chan' = [chan EXCEPT ![t][i] =
                     [at |-> InMpi, len |-> chan[t][i].len,
                      data |-> Payload(t, chan[t][i])]]
    BY <1>6 DEF Transfer
  <2>2. /\ Len(chan'[t]) = Len(chan[t])
        /\ \A j \in 1..Len(chan[t]) : chan'[t][j].len = chan[t][j].len
    BY <1>0, <2>1 DEF SenderTypes
  <2> QED
    BY <1>0, <1>6, <2>2 DEF Transfer, threadVars
<1>7. CASE Deliver(t)
  <2>1. /\ Len(chan'[t]) = Len(chan[t]) - 1
        /\ \A j \in 1..Len(chan'[t]) : chan'[t][j] = chan[t][j + 1]
    BY <1>0, <1>7 DEF Deliver, SenderTypes
  <2>2. Len(chan[t]) \in Nat /\ UNCHANGED pc
    BY <1>0, <1>7 DEF SenderTypes, Deliver, threadVars
  <2>3. \A j \in 1..Len(chan'[t]) :
          /\ j + 1 \in 1..Len(chan[t])
          /\ j = Len(chan'[t]) <=> j + 1 = Len(chan[t])
    BY <2>1, <2>2
  <2>4. CASE pc[t] \in Terminating
    BY <1>0, <2>1, <2>2, <2>3, <2>4
  <2>5. CASE pc[t] \notin Terminating
    BY <1>0, <2>1, <2>2, <2>3, <2>5
  <2> QED
    BY <2>4, <2>5
<1>8. TypeOK
  BY DEF Inv
<1> QED
  BY <1>1, <1>2, <1>3, <1>4, <1>5, <1>6, <1>7, <1>8, OwnSends
    DEF ThreadStep, SendStep, TermStep

\* Nothing is behind the first message of a channel just if it is the only one.
LEMMA TailEmpty ==
    ASSUME NEW S, NEW seq \in Seq(S), seq # <<>>
    PROVE  Tail(seq) = <<>> <=> Len(seq) = 1
<1> DEFINE tail == Tail(seq)
<1>1. tail \in Seq(S) /\ Len(tail) = Len(seq) - 1 /\ Len(seq) \in Nat
  BY HeadTailProperties
<1>2. tail = <<>> <=> Len(tail) = 0
  <2> HIDE DEF tail
  <2> QED
    BY <1>1, EmptySeq
<1> HIDE DEF tail
<1>3. Len(tail) = 0 <=> Len(seq) = 1
  BY <1>1
<1>4. tail = <<>> <=> Len(seq) = 1
  BY <1>2, <1>3
<1> QED
  BY <1>4 DEF tail

\* Only the delivery of a terminator takes a thread out of Live.
LEMMA LiveStep ==
    ASSUME Inv, [Next]_vars, NEW t \in Threads
    PROVE  \/ (t \in Live)' <=> t \in Live
           \/ Deliver(t) /\ Head(chan[t]).len = 0
<1> USE DEF Live, Terminating
<1>0. FileTypes /\ SenderTypes /\ TerminatorLast(t) /\ TypeOK
  BY DEF Inv, TypeOK
<1>1. CASE UNCHANGED SendState(t)
  BY <1>1 DEF SendState
<1>2. CASE FileStep(t) \/ SendStep(t)
  <2>1. pc[t] \notin Terminating
    BY <1>2 DEF FileStep, TakeFile, LeaveLoop, OpenFile, SendStep, ReadRecord,
      CheckFull, ReadEnd, BufferFull, NoRest, CountRest, CheckRest, CountFull,
      FinishFile, SendFull, SendRest
  <2>2. pc'[t] \notin Terminating
    BY <1>0, <1>2 DEF FileStep, TakeFile, LeaveLoop, OpenFile, SendStep,
      ReadRecord, CheckFull, ReadEnd, BufferFull, NoRest, CountRest, CheckRest,
      CountFull, FinishFile, SendFull, SendRest, GoTo, FileTypes
  <2> QED
    BY <2>1, <2>2
<1>3. CASE StartTerminator(t)
  <2>1. Isend(t, 0) /\ pc[t] \notin Terminating
    BY <1>3 DEF StartTerminator
  <2>2. chan'[t] # <<>>
    BY <1>0, <2>1, IsendEffect DEF SenderTypes
  <2> QED
    BY <2>1, <2>2
<1>4. CASE FinishTerminator(t)
  BY <1>0, <1>4 DEF FinishTerminator, GoTo, FileTypes
<1>5. CASE Transfer(t)
  <2>1. PICK i \in 1..Len(chan[t]) :
          chan' = [chan EXCEPT ![t][i] =
                     [at |-> InMpi, len |-> chan[t][i].len,
                      data |-> Payload(t, chan[t][i])]]
    BY <1>5 DEF Transfer
  <2>2. chan[t] # <<>> /\ chan'[t] # <<>>
    BY <1>0, <2>1 DEF SenderTypes
  <2> QED
    BY <2>2
<1>6. CASE Deliver(t) /\ Head(chan[t]).len # 0
  <2>1. chan[t] \in Seq(Msg) /\ chan[t] # <<>> /\ chan'[t] = Tail(chan[t])
    BY <1>0, <1>6 DEF Deliver, SenderTypes
  <2>2. UNCHANGED pc
    BY <1>6 DEF Deliver, threadVars
  <2>3. ASSUME pc[t] \in Terminating PROVE chan'[t] # <<>>
    <3>1. 1 \in 1..Len(chan[t]) /\ chan[t][1] = Head(chan[t])
      BY <2>1
    <3>2. Len(chan[t]) # 1
      BY <1>0, <1>6, <2>3, <3>1 DEF TerminatorLast
    <3> QED
      BY <2>1, <3>2, TailEmpty
  <2> QED
    BY <2>1, <2>2, <2>3
<1> QED
  BY <1>0, <1>1, <1>2, <1>3, <1>4, <1>5, <1>6, OwnSends DEF ThreadStep, TermStep

\* The delivery of a terminator takes its thread out of Live.
LEMMA LastDelivery ==
    ASSUME Inv, NEW t \in Threads, Deliver(t), Head(chan[t]).len = 0
    PROVE  t \in Live /\ ~(t \in Live)'
<1>0. SenderTypes /\ TerminatorLast(t)
  BY DEF Inv, TypeOK
<1>1. chan[t] \in Seq(Msg) /\ chan[t] # <<>> /\ chan'[t] = Tail(chan[t])
  BY <1>0 DEF Deliver, SenderTypes
<1>2. 1 \in 1..Len(chan[t]) /\ chan[t][1].len = 0
  BY <1>1
<1>3. pc[t] \in Terminating /\ Len(chan[t]) = 1
  BY <1>0, <1>2 DEF TerminatorLast
<1>4. chan'[t] = <<>>
  BY <1>1, <1>3, TailEmpty
<1>5. UNCHANGED pc
  BY DEF Deliver, threadVars
<1> QED
  BY <1>1, <1>3, <1>4, <1>5 DEF Live

\* A step keeps TerminatorsCounted: active_sources is lowered by terminators
\* and by nothing else.
LEMMA CountedStep == Inv /\ [Next]_vars => TerminatorsCounted'
<1> SUFFICES ASSUME Inv, [Next]_vars PROVE TerminatorsCounted'
  OBVIOUS
<1> USE DEF TerminatorsCounted
<1>0. TerminatorsCounted /\ MasterTypes /\ SenderTypes
  BY DEF Inv, TypeOK
<1>1. IsFiniteSet(Live) /\ Cardinality(Live) \in Nat
  BY FS_Subset, FS_CardinalityType, ThreadsAssumption DEF Live
<1>2. Live \subseteq Threads /\ Live' \subseteq Threads
  BY DEF Live
<1>3. ASSUME NEW t \in Threads, Deliver(t), Head(chan[t]).len = 0
      PROVE  TerminatorsCounted'
  <2>1. \A u \in Threads : u # t => ~Deliver(u)
    BY <1>0, <1>3 DEF Deliver, SenderTypes
  <2>2. Live' = Live \ {t}
    BY <1>2, <1>3, <2>1, LiveStep, LastDelivery
  <2>3. Cardinality(Live') = Cardinality(Live) - 1
    BY <1>1, <1>3, <2>2, FS_RemoveElement, LastDelivery
  <2>4. Arrived = 0 /\ Arrived' = 1 /\ UNCHANGED active_sources
    BY <1>3 DEF Deliver, Arrived
  <2> QED
    BY <1>0, <1>1, <2>3, <2>4
<1>4. ASSUME \A t \in Threads : Deliver(t) => Head(chan[t]).len # 0
      PROVE  TerminatorsCounted'
  <2>1. Live' = Live
    BY <1>2, <1>4, LiveStep
  <2>2. CASE UNCHANGED <<mpc, recvVars, rec_ptr, msg_end, rec_cntr,
                         limit_exceeded, active_sources>>
    BY <1>0, <2>1, <2>2 DEF Arrived, recvVars
  <2>3. ASSUME NEW t \in Threads, Deliver(t) PROVE TerminatorsCounted'
    BY <1>0, <1>4, <2>1, <2>3 DEF Deliver, Arrived
  <2>4. ASSUME RecvTerminator PROVE TerminatorsCounted'
    <3>1. Arrived = 1 /\ Arrived' = 0 /\ active_sources' = active_sources - 1
      BY <2>4 DEF RecvTerminator, Arrived
    <3> QED
      BY <1>0, <1>1, <2>1, <3>1
  <2>5. ASSUME RecvData \/ ProcessRecord PROVE TerminatorsCounted'
    BY <1>0, <2>1, <2>5 DEF RecvData, ProcessRecord, Arrived, recvVars
  <2> QED
    BY Frames, <2>2, <2>3, <2>4, <2>5 DEF MasterStep
<1> QED
  BY <1>3, <1>4

----------------------------------------------------------------------------
(* The theorems.                                                           *)

\* A step keeps the inductive invariant.
LEMMA InvStep == Inv /\ [Next]_vars => Inv'
  BY TypeStep, SenderStep, ReceiverStep, TerminatorStep, CountedStep DEF Inv

\* The inductive invariant holds throughout.
LEMMA Invariance == Spec => []Inv
  BY InitInv, InvStep, PTL DEF Spec

\* Type correctness: no buffer index, record count or position leaves its
\* range, and the master never counts more terminators than it has sources,
\* whatever the number of threads, files and records.
THEOREM TypeCorrect == Spec => []TypeOK
<1>1. Inv => TypeOK
  BY DEF Inv
<1> QED
  BY <1>1, Invariance, PTL

\* Double buffering is safe: ff_read_and_send never fills a buffer that a send
\* it has not waited for may still read.
THEOREM BuffersSafe == Spec => []BuffersNotShared
<1>1. Inv => BuffersNotShared
  <2> SUFFICES ASSUME Inv, NEW t \in Threads, pc[t] \in Filling,
                      NEW i \in 1..Len(chan[t])
               PROVE  chan[t][i].at # buff_idx[t]
    BY DEF BuffersNotShared
  <2>1. SenderInv(t) /\ SenderTypes
    BY DEF Inv, TypeOK
  <2>2. request[t] # buff_idx[t] /\ buff_idx[t] \in {0, 1}
    BY <2>1 DEF SenderInv, SenderTypes, Filling, NoRequest
  <2> QED
    BY <2>1, <2>2 DEF SenderInv, InMpi
<1> QED
  BY <1>1, Invariance, PTL

\* When recv_loop returns, every message of the query has been received and
\* every thread has sent its terminator.
THEOREM RecvLoopDrains == Spec => []NothingLeftBehind
<1>1. Inv => NothingLeftBehind
  <2> SUFFICES ASSUME Inv, mpc = "done", NEW t \in Threads
               PROVE  chan[t] = <<>> /\ pc[t] \in {"term", "done"}
    BY DEF NothingLeftBehind
  <2>1. active_sources = 0 /\ rrequest = "null"
    BY DEF Inv, ReceiverInv
  <2>2. IsFiniteSet(Live) /\ Cardinality(Live) = 0
    BY <2>1, FS_Subset, FS_CardinalityType, ThreadsAssumption
      DEF Inv, TerminatorsCounted, Arrived, Live
  <2>3. Live = {}
    BY <2>2, FS_EmptySet
  <2> QED
    BY <2>3 DEF Live, Terminating
<1> QED
  BY <1>1, Invariance, PTL

----------------------------------------------------------------------------
(***************************************************************************)
(* The record limit.  The slave decides with two shared variables,         *)
(* proc_rec_cntr and rec_limit_reached, that its threads read and write in *)
(* between their sends; LimitDecisionsSound says that the decisions are    *)
(* right.  For that the counter must stand for distinct records that have  *)
(* been sent, and so the invariant follows the records of every thread     *)
(* from its file into its buffer and to MPI.                               *)
(***************************************************************************)

\* The labels inside process_file_mt, those of the loop and the end of
\* ff_read_and_send where the buffer is in use, those at which a record has
\* been read that is not in the buffer yet, and those between the send of the
\* buffer and the addition of its records to the shared counter.
InFile == {"open", "read", "full", "isend", "count", "check", "rest",
           "countRest", "checkRest", "finish"}
Reading == {"read", "full", "isend", "count", "check", "rest", "countRest"}
Overdue == {"full", "isend", "count", "check"}
SentOff == {"count", "countRest"}

\* The buffer in use, and the records in it.
Cur(t) == buff[t][buff_idx[t]]
Held(t) == {Cur(t)[i] : i \in 1..buff_rec_cntr[t]}

\* The records of the file up to here have been skipped or stored.
Stored(t) == IF pc[t] \in Overdue THEN off[t] - 1 ELSE off[t]

\* No two threads of a slave work on the same file.
PathInv ==
    /\ \A t \in Threads : path[t] < next_path[SlaveOf[t]]
    /\ \A t \in Threads : pc[t] \in InFile => path[t] \in 1..Len(ff_paths[SlaveOf[t]])
    /\ \A t, u \in Threads :
          t # u /\ SlaveOf[t] = SlaveOf[u] /\ path[t] = path[u] => path[t] = 0

\* The position in the file.
FileInv(t) ==
    /\ pc[t] \in Reading => File(t).state = "ok" /\ off[t] <= Len(File(t).recs)
    /\ pc[t] \in Overdue => off[t] # 0 /\ File(t).recs[off[t]]

\* The buffer in use holds matching records of the current file, in order.
HeldInv(t) ==
    pc[t] \in Reading =>
       /\ \A i \in 1..buff_rec_cntr[t] :
            /\ Cur(t)[i] = <<SlaveOf[t], path[t], Cur(t)[i][3]>>
            /\ Cur(t)[i][3] \in 1..Stored(t)
            /\ File(t).recs[Cur(t)[i][3]]
       /\ \A i, j \in 1..buff_rec_cntr[t] : i < j => Cur(t)[i][3] < Cur(t)[j][3]

\* What has been sent are records of files that have been taken.
SentInv ==
    /\ IsFiniteSet(sent)
    /\ \A r \in sent : r \in Rec /\ r[2] < next_path[r[1]]

\* What has been sent of the file a thread is reading is before what it holds.
FileSentInv(t) ==
    /\ pc[t] = "open" => \A r \in sent : ~(r[1] = SlaveOf[t] /\ r[2] = path[t])
    /\ pc[t] \in SentOff => Held(t) \subseteq sent
    /\ pc[t] \in Reading => \A r \in sent : r[1] = SlaveOf[t] /\ r[2] = path[t] =>
          /\ r[3] <= Stored(t)
          /\ pc[t] \notin SentOff =>
                \A i \in 1..buff_rec_cntr[t] : r[3] < Cur(t)[i][3]

\* The records of a slave that have been sent and added to its counter.
Counted(s) ==
    {r \in sent : r[1] = s /\ \A t \in Threads : pc[t] \in SentOff => r \notin Held(t)}

CountInv == \A s \in Slaves : proc_rec_cntr[s] = Cardinality(Counted(s))

FlagInv == \A s \in Slaves : rec_limit_reached[s] => LimitReached(s)

\* The loop of ff_read_and_send has been left at the limit or at the end.
RestInv(t) ==
    pc[t] \in {"rest", "countRest", "checkRest"} =>
        \/ LimitReached(SlaveOf[t])
        \/ off[t] = Len(File(t).recs) /\ (File(t).eof => lnf_ret[t] = "eof")

LimitInv ==
    /\ PathInv
    /\ SentInv
    /\ CountInv
    /\ FlagInv
    /\ NoSpuriousWarning
    /\ \A t \in Threads : FileInv(t) /\ HeldInv(t) /\ FileSentInv(t) /\ RestInv(t)

----------------------------------------------------------------------------

\* The initial states satisfy the invariant.
LEMMA LimitInit == Init => LimitInv
<1> SUFFICES ASSUME Init PROVE LimitInv
  OBVIOUS
<1> USE ThreadsAssumption
<1>1. PathInv
  BY DEF Init, PathInv, InFile
<1>2. SentInv
  BY FS_EmptySet DEF Init, SentInv
<1>3. CountInv
  <2>1. \A s \in Slaves : Counted(s) = {}
    BY DEF Init, Counted
  <2> QED
    BY <2>1, FS_EmptySet DEF Init, CountInv
<1>4. FlagInv /\ NoSpuriousWarning
  BY DEF Init, FlagInv, NoSpuriousWarning
<1>5. \A t \in Threads : FileInv(t) /\ HeldInv(t) /\ FileSentInv(t) /\ RestInv(t)
  BY DEF Init, FileInv, HeldInv, FileSentInv, RestInv, Reading, Overdue, SentOff
<1> QED
  BY <1>1, <1>2, <1>3, <1>4, <1>5 DEF LimitInv

----------------------------------------------------------------------------
(* What a step changes.                                                    *)

FileState(t) ==
    <<pc[t], path[t], off[t], lnf_ret[t], buff[t], buff_idx[t], buff_rec_cntr[t]>>

\* A step changes the file and the buffers of the thread that takes it only.
LEMMA OwnFile ==
    ASSUME TypeOK, [Next]_vars, NEW u \in Threads
    PROVE  UNCHANGED FileState(u) \/ ThreadStep(u)
<1> USE DEF FileState, fileVars, buffVars
<1>0. FileTypes /\ SenderTypes
  BY DEF TypeOK
<1>1. CASE UNCHANGED vars
  BY <1>1 DEF vars, threadVars
<1>2. ASSUME NEW t \in Threads, t # u, FileStep(t) PROVE UNCHANGED FileState(u)
  BY <1>0, <1>2 DEF FileStep, TakeFile, LeaveLoop, OpenFile, GoTo, FileTypes,
    SenderTypes
<1>3. ASSUME NEW t \in Threads, t # u, ReadRecord(t) \/ CheckFull(t)
      PROVE  UNCHANGED FileState(u)
  BY <1>0, <1>3 DEF ReadRecord, CheckFull, WriteRecord, GoTo, FileTypes,
    SenderTypes
<1>4. ASSUME NEW t \in Threads, t # u,
             \/ SendFull(t) \/ SendRest(t) \/ FinishFile(t) \/ TermStep(t)
      PROVE  UNCHANGED FileState(u)
  BY <1>0, <1>4 DEF SendFull, SendRest, FinishFile, TermStep, StartTerminator,
    FinishTerminator, Isend, GoTo, FileTypes, SenderTypes
<1>5. ASSUME NEW t \in Threads, t # u,
             \/ ReadEnd(t) \/ BufferFull(t) \/ CountFull(t) \/ NoRest(t)
             \/ CountRest(t) \/ CheckRest(t)
      PROVE  UNCHANGED FileState(u)
  BY <1>0, <1>5 DEF ReadEnd, BufferFull, CountFull, NoRest, CountRest,
    CheckRest, GoTo, FileTypes, SenderTypes
<1>6. ASSUME NEW t \in Threads, Transfer(t) \/ Deliver(t)
      PROVE  UNCHANGED FileState(u)
  BY <1>0, <1>6 DEF Transfer, Deliver, threadVars, SenderTypes
<1>7. CASE MasterStep
  BY <1>7 DEF MasterStep, RecvTerminator, RecvData, ProcessRecord, threadVars
<1>8. CASE Finished
  BY <1>8 DEF Finished, vars, threadVars
<1> QED
  BY <1>1, <1>2, <1>3, <1>4, <1>5, <1>6, <1>7, <1>8
    DEF Next, ThreadStep, SendStep

\* Only the two sends of ff_read_and_send add to what has been sent: the
\* records of the buffer in use.
LEMMA SentGrows ==
    ASSUME TypeOK, [Next]_vars
    PROVE  \/ sent' = sent
           \/ \E t \in Threads :
                 (SendFull(t) \/ SendRest(t)) /\ sent' = sent \cup Held(t)
<1>1. CASE UNCHANGED <<printed, histVars>> \/ ProcessRecord
  BY <1>1 DEF histVars, ProcessRecord
<1>2. ASSUME NEW t \in Threads, CheckRest(t) PROVE sent' = sent
  BY <1>2 DEF CheckRest
<1>3. ASSUME NEW t \in Threads, StartTerminator(t) PROVE sent' = sent
  <2>1. Isend(t, 0)
    BY <1>3 DEF StartTerminator
  <2>2. {buff[t][buff_idx[t]][i] : i \in 1..0} = {}
    OBVIOUS
  <2> QED
    BY <2>1, <2>2 DEF Isend
<1>4. ASSUME NEW t \in Threads, SendFull(t) \/ SendRest(t)
      PROVE  sent' = sent \cup Held(t)
  BY <1>4 DEF SendFull, SendRest, Isend, Held, Cur
<1> QED
  BY Frames, <1>1, <1>2, <1>3, <1>4

\* The shared counter only grows: a limit that has been reached stays reached.
LEMMA LimitStable ==
    ASSUME TypeOK, [Next]_vars, NEW s \in Slaves, LimitReached(s)
    PROVE  LimitReached(s)'
<1> USE ThreadsAssumption, BoundsAssumption DEF LimitReached
<1>0. SlaveTypes /\ SenderTypes /\ rec_limit \in Nat /\ rec_limit' = rec_limit
  BY Frames DEF TypeOK, jobVars
<1>1. CASE UNCHANGED slaveVars
  BY <1>0, <1>1 DEF slaveVars
<1>2. ASSUME NEW t \in Threads, TakeFile(t) \/ LeaveLoop(t) \/ CheckFull(t) \/ CheckRest(t)
      PROVE  LimitReached(s)'
  BY <1>0, <1>2 DEF TakeFile, LeaveLoop, CheckFull, CheckRest
<1>3. ASSUME NEW t \in Threads, CountFull(t) \/ CountRest(t) PROVE LimitReached(s)'
  <2>1. proc_rec_cntr[s] \in Nat /\ buff_rec_cntr[t] \in Nat /\ SlaveOf[t] \in Slaves
    BY <1>0 DEF SlaveTypes, SenderTypes
  <2>2. proc_rec_cntr'[s] = proc_rec_cntr[s] \/
        proc_rec_cntr'[s] = proc_rec_cntr[s] + buff_rec_cntr[t]
    BY <1>0, <1>3, <2>1 DEF CountFull, CountRest, SlaveTypes
  <2> QED
    BY <1>0, <2>1, <2>2
<1> QED
  BY Frames, <1>1, <1>2, <1>3

\* How a thread comes to the labels the invariant is about.
LEMMA LabelStep ==
    ASSUME TypeOK, [Next]_vars, NEW t \in Threads
    PROVE  /\ pc'[t] \in InFile => pc[t] \in InFile \/ TakeFile(t)
           /\ pc'[t] = "open" => pc[t] = "open" \/ TakeFile(t)
           /\ pc'[t] \in Reading => pc[t] \in Reading \/ OpenFile(t)
<1> USE DEF InFile, Reading
<1>0. FileTypes
  BY DEF TypeOK
<1>1. CASE UNCHANGED FileState(t)
  BY <1>1 DEF FileState
<1>2. CASE FileStep(t)
  BY <1>0, <1>2 DEF FileStep, TakeFile, LeaveLoop, OpenFile, GoTo, FileTypes
<1>3. CASE SendStep(t)
  <2>1. pc[t] \in InFile \ {"open"} /\ (pc'[t] \in Reading => pc[t] \in Reading)
    BY <1>0, <1>3 DEF SendStep, ReadRecord, ReadEnd, BufferFull, SendFull,
      CountFull, CheckFull, SendRest, NoRest, CountRest, CheckRest, FinishFile,
      GoTo, FileTypes
  <2>2. pc'[t] # "open"
    BY <1>0, <1>3 DEF SendStep, ReadRecord, ReadEnd, BufferFull, SendFull,
      CountFull, CheckFull, SendRest, NoRest, CountRest, CheckRest, FinishFile,
      GoTo, FileTypes
  <2> QED
    BY <2>1, <2>2
<1>4. CASE TermStep(t)
  BY <1>0, <1>4 DEF TermStep, StartTerminator, FinishTerminator, GoTo, FileTypes
<1> QED
  BY <1>1, <1>2, <1>3, <1>4, OwnFile DEF ThreadStep

\* The loop counter and the files the threads have taken change in TakeFile only.
LEMMA PathFrame ==
    ASSUME TypeOK, [Next]_vars, \A t \in Threads : ~TakeFile(t)
    PROVE  UNCHANGED next_path /\ \A t \in Threads : path'[t] = path[t]
<1>1. UNCHANGED next_path
  BY Frames DEF slaveVars, LeaveLoop, CountFull, CheckFull, CountRest, CheckRest
<1>2. ASSUME NEW t \in Threads PROVE path'[t] = path[t]
  <2>1. CASE UNCHANGED FileState(t)
    BY <2>1 DEF FileState
  <2>2. CASE FileStep(t)
    BY <2>2 DEF FileStep, LeaveLoop, OpenFile, fileVars
  <2>3. CASE SendStep(t)
    BY <2>3 DEF SendStep, ReadRecord, ReadEnd, BufferFull, SendFull,
      CountFull, CheckFull, SendRest, NoRest, CountRest, CheckRest, FinishFile,
      fileVars
  <2>4. CASE TermStep(t)
    BY <2>4 DEF TermStep, StartTerminator, FinishTerminator, fileVars
  <2> QED
    BY <2>1, <2>2, <2>3, <2>4, OwnFile DEF ThreadStep
<1> QED
  BY <1>1, <1>2

\* What TakeFile does to loop counter and paths.
LEMMA TakeFileEffect ==
    ASSUME TypeOK, NEW t \in Threads, TakeFile(t)
    PROVE  /\ next_path[SlaveOf[t]] \in 1..Len(ff_paths[SlaveOf[t]])
           /\ path'[t] = next_path[SlaveOf[t]]
           /\ next_path'[SlaveOf[t]] = next_path[SlaveOf[t]] + 1
           /\ \A u \in Threads : u # t => path'[u] = path[u]
           /\ \A s \in Slaves : s # SlaveOf[t] => next_path'[s] = next_path[s]
           /\ UNCHANGED sent
<1> USE ThreadsAssumption, FlowFilesAssumption
<1>1. /\ next_path \in [Slaves -> Nat \ {0}] /\ path \in [Threads -> Nat]
      /\ SlaveOf[t] \in Slaves
  BY DEF TypeOK, SlaveTypes, FileTypes
<1>2. Len(ff_paths[SlaveOf[t]]) \in Nat
  <2>1. ff_paths[SlaveOf[t]] \in Seq(FlowFile)
    BY <1>1 DEF TypeOK
  <2> QED
    BY <2>1
<1> QED
  BY <1>1, <1>2 DEF TakeFile, histVars

\* A step keeps PathInv: the scheduler hands out each file once.
LEMMA PathStep == TypeOK /\ LimitInv /\ [Next]_vars => PathInv'
<1> SUFFICES ASSUME TypeOK, LimitInv, [Next]_vars PROVE PathInv'
  OBVIOUS
<1> USE ThreadsAssumption
<1>0. /\ PathInv /\ UNCHANGED ff_paths
      /\ \A t \in Threads : path[t] \in Nat /\ SlaveOf[t] \in Slaves
      /\ \A s \in Slaves : next_path[s] \in Nat
  BY Frames DEF LimitInv, jobVars, TypeOK, FileTypes, SlaveTypes
<1>1. CASE \A t \in Threads : ~TakeFile(t)
  BY <1>0, <1>1, PathFrame, LabelStep DEF PathInv
<1>2. ASSUME NEW t \in Threads, TakeFile(t) PROVE PathInv'
  <2>1. \A u \in Threads : path'[u] < next_path'[SlaveOf[u]]
    BY <1>0, <1>2, TakeFileEffect DEF PathInv
  <2>2. ASSUME NEW u \in Threads, pc'[u] \in InFile
        PROVE  path'[u] \in 1..Len(ff_paths'[SlaveOf[u]])
    <3>1. CASE u = t
      BY <1>0, <1>2, <3>1, TakeFileEffect
    <3>2. CASE u # t
      <4>1. ~TakeFile(u)
        BY <1>0, <1>2, <3>2, TakeFileEffect DEF PathInv
      <4> QED
        BY <1>0, <1>2, <2>2, <3>2, <4>1, TakeFileEffect, LabelStep DEF PathInv
    <3> QED
      BY <3>1, <3>2
  <2>3. ASSUME NEW u \in Threads, NEW v \in Threads, u # v,
               SlaveOf[u] = SlaveOf[v], path'[u] = path'[v]
        PROVE  path'[u] = 0
    BY <1>0, <1>2, <2>3, TakeFileEffect DEF PathInv
  <2> QED
    BY <2>1, <2>2, <2>3 DEF PathInv
<1> QED
  BY <1>1, <1>2

\* The types of what a thread is working on.
LEMMA ThreadFacts ==
    ASSUME TypeOK, LimitInv, NEW t \in Threads
    PROVE  /\ SlaveOf[t] \in Slaves /\ pc[t] \in Labels
           /\ path[t] \in Nat /\ off[t] \in Nat
           /\ buff_idx[t] \in {0, 1} /\ buff_rec_cntr[t] \in 0..BuffRecs
           /\ buff[t] \in [{0, 1} -> Buffer] /\ Cur(t) \in Buffer
           /\ pc[t] \in InFile => /\ File(t) \in FlowFile
                                  /\ Len(File(t).recs) \in Nat
                                  /\ \A i \in 1..Len(File(t).recs) : File(t).recs[i] \in BOOLEAN
<1> USE ThreadsAssumption, FlowFilesAssumption
<1>1. SlaveOf[t] \in Slaves /\ pc[t] \in Labels /\ path[t] \in Nat /\ off[t] \in Nat
  BY DEF TypeOK, FileTypes
<1>2. /\ buff_idx[t] \in {0, 1} /\ buff_rec_cntr[t] \in 0..BuffRecs
      /\ buff[t] \in [{0, 1} -> Buffer] /\ Cur(t) \in Buffer
  BY DEF TypeOK, SenderTypes, Cur
<1>3. ASSUME pc[t] \in InFile
      PROVE  /\ File(t) \in FlowFile /\ Len(File(t).recs) \in Nat
             /\ \A i \in 1..Len(File(t).recs) : File(t).recs[i] \in BOOLEAN
  <2>1. path[t] \in 1..Len(ff_paths[SlaveOf[t]])
    BY <1>3 DEF LimitInv, PathInv
  <2>2. ff_paths[SlaveOf[t]] \in Seq(FlowFile)
    BY <1>1 DEF TypeOK
  <2>3. File(t) \in FlowFile
    BY <2>1, <2>2 DEF File
  <2>4. File(t).recs \in Seq(BOOLEAN)
    BY <2>3 DEF FlowFile
  <2> QED
    BY <2>3, <2>4
<1> QED
  BY <1>1, <1>2, <1>3

\* The steps of a thread that leave its buffer in use and its position in the
\* file alone.
Quiet(t) ==
    \/ UNCHANGED FileState(t)
    \/ LeaveLoop(t) \/ ReadEnd(t) \/ SendFull(t) \/ SendRest(t) \/ NoRest(t)
    \/ CountRest(t) \/ CheckRest(t) \/ FinishFile(t) \/ TermStep(t)

\* What a quiet step does to its thread.
LEMMA QuietEffect ==
    ASSUME TypeOK, LimitInv, [Next]_vars, NEW t \in Threads, Quiet(t)
    PROVE  /\ File(t)' = File(t) /\ path'[t] = path[t] /\ off'[t] = off[t]
           /\ buff'[t] = buff[t] /\ buff_idx'[t] = buff_idx[t]
           /\ buff_rec_cntr'[t] = buff_rec_cntr[t]
           /\ Cur(t)' = Cur(t) /\ Held(t)' = Held(t)
           /\ pc'[t] \in Reading => /\ pc[t] \in Reading
                                    /\ pc'[t] \in Overdue <=> pc[t] \in Overdue
                                    /\ Stored(t)' = Stored(t)
<1>0. FileTypes /\ UNCHANGED ff_paths
  BY Frames DEF TypeOK, jobVars
<1>1. /\ path'[t] = path[t] /\ off'[t] = off[t]
      /\ buff'[t] = buff[t] /\ buff_idx'[t] = buff_idx[t]
      /\ buff_rec_cntr'[t] = buff_rec_cntr[t]
  BY DEF Quiet, FileState, LeaveLoop, ReadEnd, SendFull, SendRest, NoRest,
    CountRest, CheckRest, FinishFile, TermStep, StartTerminator,
    FinishTerminator, fileVars, buffVars
<1>2. pc'[t] \in Reading => /\ pc[t] \in Reading
                            /\ pc'[t] \in Overdue <=> pc[t] \in Overdue
  BY <1>0 DEF Quiet, FileState, LeaveLoop, ReadEnd, SendFull, SendRest, NoRest,
    CountRest, CheckRest, FinishFile, TermStep, StartTerminator,
    FinishTerminator, GoTo, FileTypes, Reading, Overdue
<1> QED
  BY <1>0, <1>1, <1>2 DEF File, Cur, Held, Stored

\* Every step is quiet for a thread, or one of six.
LEMMA StepKinds ==
    ASSUME TypeOK, [Next]_vars, NEW t \in Threads
    PROVE  \/ Quiet(t) \/ TakeFile(t) \/ OpenFile(t) \/ ReadRecord(t)
           \/ BufferFull(t) \/ CountFull(t) \/ CheckFull(t)
  BY OwnFile DEF Quiet, ThreadStep, FileStep, SendStep

\* A thread that has taken a file opens it.
LEMMA TakeFileLocal ==
    ASSUME TypeOK, NEW t \in Threads, TakeFile(t)
    PROVE  pc'[t] = "open"
  BY DEF TypeOK, FileTypes, TakeFile, GoTo

\* A file is passed over, or its reading starts at the beginning with an empty
\* buffer.
LEMMA OpenFileEffect ==
    ASSUME TypeOK, LimitInv, [Next]_vars, NEW t \in Threads, OpenFile(t)
    PROVE  /\ File(t)' = File(t) /\ path'[t] = path[t] /\ pc[t] = "open"
           /\ \/ pc'[t] = "for"
              \/ /\ pc'[t] = "read" /\ off'[t] = 0 /\ buff_rec_cntr'[t] = 0
                 /\ File(t).state = "ok"
<1>0. FileTypes /\ SenderTypes /\ UNCHANGED ff_paths
  BY Frames DEF TypeOK, jobVars
<1> QED
  BY <1>0 DEF OpenFile, File, GoTo, FileTypes, SenderTypes

\* The record just stored is the last one of the buffer.
LEMMA WriteEffect ==
    ASSUME TypeOK, LimitInv, NEW t \in Threads, NEW rec, WriteRecord(t, rec),
           buff_idx' = buff_idx, buff_rec_cntr[t] < BuffRecs
    PROVE  /\ buff_rec_cntr'[t] = buff_rec_cntr[t] + 1
           /\ \A i \in 1..buff_rec_cntr[t] : Cur(t)'[i] = Cur(t)[i]
           /\ Cur(t)'[buff_rec_cntr[t] + 1] = rec
<1> USE BoundsAssumption
<1>1. /\ buff_idx[t] \in {0, 1} /\ buff_rec_cntr[t] \in 0..BuffRecs
      /\ buff[t] \in [{0, 1} -> Buffer] /\ Cur(t) \in Buffer
  BY ThreadFacts
<1>2. buff \in [Threads -> [{0, 1} -> Buffer]] /\ buff_rec_cntr \in [Threads -> 0..BuffRecs]
  BY DEF TypeOK, SenderTypes
<1>3. Cur(t)' = [Cur(t) EXCEPT ![buff_rec_cntr[t] + 1] = rec]
  BY <1>1, <1>2 DEF WriteRecord, Cur
<1>4. buff_rec_cntr[t] + 1 \in 1..BuffRecs
  BY <1>1
<1>5. buff_rec_cntr'[t] = buff_rec_cntr[t] + 1
  BY <1>2 DEF WriteRecord
<1> QED
  BY <1>1, <1>3, <1>4, <1>5 DEF Buffer

\* The next record is skipped, stored, or found not to fit.
LEMMA ReadRecordEffect ==
    ASSUME TypeOK, LimitInv, [Next]_vars, NEW t \in Threads, ReadRecord(t)
    PROVE  /\ File(t)' = File(t) /\ path'[t] = path[t] /\ pc[t] = "read"
           /\ off[t] + 1 \in 1..Len(File(t).recs) /\ off'[t] = off[t] + 1
           /\ buff_idx'[t] = buff_idx[t] /\ UNCHANGED sent
           /\ \/ /\ ~File(t).recs[off[t] + 1] /\ pc'[t] = "read"
                 /\ buff'[t] = buff[t] /\ buff_rec_cntr'[t] = buff_rec_cntr[t]
              \/ /\ File(t).recs[off[t] + 1] /\ pc'[t] = "read"
                 /\ buff_rec_cntr'[t] = buff_rec_cntr[t] + 1
                 /\ \A i \in 1..buff_rec_cntr[t] : Cur(t)'[i] = Cur(t)[i]
                 /\ Cur(t)'[buff_rec_cntr[t] + 1] = <<SlaveOf[t], path[t], off[t] + 1>>
              \/ /\ File(t).recs[off[t] + 1] /\ pc'[t] = "full"
                 /\ buff'[t] = buff[t] /\ buff_rec_cntr'[t] = buff_rec_cntr[t]
<1>0. FileTypes /\ SenderTypes /\ UNCHANGED ff_paths
  BY Frames DEF TypeOK, jobVars
<1>1. /\ File(t)' = File(t) /\ path'[t] = path[t] /\ pc[t] = "read"
      /\ buff_idx' = buff_idx /\ UNCHANGED sent
  BY <1>0 DEF ReadRecord, File, histVars
<1>2. off'[t] = off[t] + 1 /\ off[t] + 1 \in 1..Len(File(t).recs)
  <2>1. off[t] \in Nat /\ Len(File(t).recs) \in Nat /\ off[t] < Len(File(t).recs)
    BY <1>1, ThreadFacts DEF ReadRecord, InFile
  <2> QED
    BY <1>0, <2>1 DEF ReadRecord, FileTypes
<1>3. CASE UNCHANGED pc /\ WriteRecord(t, <<SlaveOf[t], path[t], off[t] + 1>>)
           /\ File(t).recs[off[t] + 1] /\ buff_rec_cntr[t] < BuffRecs
  BY <1>1, <1>2, <1>3, WriteEffect
<1>4. CASE ~File(t).recs[off[t] + 1] /\ UNCHANGED <<pc, buff, buff_rec_cntr>>
  BY <1>1, <1>2, <1>4
<1>5. CASE File(t).recs[off[t] + 1] /\ GoTo(t, "full") /\ UNCHANGED <<buff, buff_rec_cntr>>
  BY <1>0, <1>1, <1>2, <1>5 DEF GoTo, FileTypes
<1> QED
  BY <1>3, <1>4, <1>5 DEF ReadRecord

\* The records are dropped because of the flag, or about to be sent.
LEMMA BufferFullEffect ==
    ASSUME TypeOK, LimitInv, [Next]_vars, NEW t \in Threads, BufferFull(t)
    PROVE  /\ File(t)' = File(t) /\ path'[t] = path[t] /\ off'[t] = off[t]
           /\ buff'[t] = buff[t] /\ buff_idx'[t] = buff_idx[t]
           /\ pc[t] = "full" /\ UNCHANGED sent
           /\ \/ /\ pc'[t] = "rest" /\ buff_rec_cntr'[t] = 0
                 /\ rec_limit_reached[SlaveOf[t]]
              \/ pc'[t] = "isend" /\ buff_rec_cntr'[t] = buff_rec_cntr[t]
<1>0. FileTypes /\ SenderTypes /\ UNCHANGED ff_paths
  BY Frames DEF TypeOK, jobVars
<1> QED
  BY <1>0 DEF BufferFull, File, GoTo, FileTypes, SenderTypes, fileVars, histVars

\* The thread goes on with an empty buffer.
LEMMA CountFullEffect ==
    ASSUME TypeOK, LimitInv, [Next]_vars, NEW t \in Threads, CountFull(t)
    PROVE  /\ File(t)' = File(t) /\ path'[t] = path[t] /\ off'[t] = off[t]
           /\ pc[t] = "count" /\ pc'[t] = "check" /\ buff_rec_cntr'[t] = 0
           /\ UNCHANGED sent
<1>0. FileTypes /\ SenderTypes /\ UNCHANGED ff_paths
  BY Frames DEF TypeOK, jobVars
<1> QED
  BY <1>0 DEF CountFull, File, GoTo, FileTypes, SenderTypes, fileVars, histVars

\* The limit has been reached, or the record that did not fit is the first one
\* of the new buffer.
LEMMA CheckFullEffect ==
    ASSUME Inv, LimitInv, [Next]_vars, NEW t \in Threads, CheckFull(t)
    PROVE  /\ File(t)' = File(t) /\ path'[t] = path[t] /\ off'[t] = off[t]
           /\ pc[t] = "check" /\ buff_rec_cntr[t] = 0 /\ UNCHANGED sent
           /\ \/ /\ pc'[t] = "rest" /\ buff_rec_cntr'[t] = 0
                 /\ LimitReached(SlaveOf[t])
              \/ /\ pc'[t] = "read" /\ buff_rec_cntr'[t] = 1
                 /\ Cur(t)'[1] = <<SlaveOf[t], path[t], off[t]>>
<1>0. TypeOK /\ FileTypes /\ SenderTypes /\ UNCHANGED ff_paths /\ SenderInv(t)
  BY Frames DEF Inv, TypeOK, jobVars
<1>1. /\ File(t)' = File(t) /\ path'[t] = path[t] /\ off'[t] = off[t]
      /\ pc[t] = "check" /\ UNCHANGED sent /\ buff_idx' = buff_idx
  BY <1>0 DEF CheckFull, File, fileVars, histVars
<1>2. buff_rec_cntr[t] = 0 /\ buff_rec_cntr[t] < BuffRecs
  BY <1>0, <1>1, BoundsAssumption DEF SenderInv
<1>3. CASE LimitReached(SlaveOf[t]) /\ GoTo(t, "rest") /\ UNCHANGED buff_rec_cntr
  BY <1>0, <1>1, <1>2, <1>3 DEF GoTo, FileTypes
<1>4. CASE WriteRecord(t, <<SlaveOf[t], path[t], off[t]>>) /\ GoTo(t, "read")
  BY <1>0, <1>1, <1>2, <1>4, WriteEffect DEF GoTo, FileTypes
<1> QED
  BY <1>3, <1>4 DEF CheckFull

----------------------------------------------------------------------------
(* The records in the buffer in use.                                       *)

\* A step keeps FileInv.
LEMMA FilePosStep ==
    ASSUME Inv, LimitInv, [Next]_vars, NEW t \in Threads
    PROVE  FileInv(t)'
<1> USE DEF FileInv, Reading, Overdue
<1>0. TypeOK /\ FileInv(t) /\ off[t] \in Nat
  BY ThreadFacts DEF Inv, LimitInv
<1>1. CASE Quiet(t)
  <2>1. CASE pc'[t] \in Reading
    BY <1>0, <1>1, <2>1, QuietEffect
  <2>2. CASE pc'[t] \notin Reading
    BY <2>2
  <2> QED
    BY <2>1, <2>2
<1>2. CASE TakeFile(t)
  BY <1>0, <1>2, TakeFileLocal
<1>3. CASE OpenFile(t)
  <2>1. Len(File(t).recs) \in Nat
    BY <1>0, <1>3, ThreadFacts, OpenFileEffect DEF InFile
  <2> QED
    BY <1>0, <1>3, <2>1, OpenFileEffect
<1>4. CASE ReadRecord(t)
  BY <1>0, <1>4, ReadRecordEffect
<1>5. CASE BufferFull(t)
  BY <1>0, <1>5, BufferFullEffect
<1>6. CASE CountFull(t)
  BY <1>0, <1>6, CountFullEffect
<1>7. CASE CheckFull(t)
  BY <1>0, <1>7, CheckFullEffect
<1> QED
  BY <1>0, <1>1, <1>2, <1>3, <1>4, <1>5, <1>6, <1>7, StepKinds

\* A step keeps HeldInv.
LEMMA HeldStep ==
    ASSUME Inv, LimitInv, [Next]_vars, NEW t \in Threads
    PROVE  HeldInv(t)'
<1>0. /\ TypeOK /\ HeldInv(t) /\ FileInv(t) /\ off[t] \in Nat
      /\ buff_rec_cntr[t] \in Nat
  BY ThreadFacts, BoundsAssumption DEF Inv, LimitInv
<1>1. CASE Quiet(t)
  <2>1. CASE pc'[t] \in Reading
    BY <1>0, <1>1, <2>1, QuietEffect DEF HeldInv
  <2>2. CASE pc'[t] \notin Reading
    BY <2>2 DEF HeldInv
  <2> QED
    BY <2>1, <2>2
<1>2. CASE TakeFile(t)
  BY <1>0, <1>2, TakeFileLocal DEF HeldInv, Reading
<1>3. CASE OpenFile(t)
  BY <1>0, <1>3, OpenFileEffect DEF HeldInv, Reading
<1>4. CASE ReadRecord(t)
  <2>0. /\ pc[t] = "read" /\ path'[t] = path[t] /\ File(t)' = File(t)
        /\ Stored(t) = off[t] /\ pc[t] \in Reading
        /\ off'[t] = off[t] + 1 /\ pc'[t] \in {"read", "full"}
        /\ \/ Stored(t)' = off[t] + 1
           \/ Stored(t)' = off[t]
    BY <1>0, <1>4, ReadRecordEffect DEF Stored, Overdue, Reading
  <2>1. CASE buff'[t] = buff[t] /\ buff_rec_cntr'[t] = buff_rec_cntr[t]
    <3>1. Cur(t)' = Cur(t)
      BY <1>0, <1>4, <2>1, ReadRecordEffect DEF Cur
    <3> QED
      BY <1>0, <2>0, <2>1, <3>1 DEF HeldInv
  <2>2. CASE /\ File(t).recs[off[t] + 1] /\ pc'[t] = "read"
             /\ buff_rec_cntr'[t] = buff_rec_cntr[t] + 1
             /\ \A i \in 1..buff_rec_cntr[t] : Cur(t)'[i] = Cur(t)[i]
             /\ Cur(t)'[buff_rec_cntr[t] + 1] = <<SlaveOf[t], path[t], off[t] + 1>>
    <3>1. Stored(t)' = off[t] + 1
      BY <2>0, <2>2 DEF Stored, Overdue
    <3>2. ASSUME NEW i \in 1..buff_rec_cntr'[t]
          PROVE  /\ Cur(t)'[i] = <<SlaveOf[t], path'[t], Cur(t)'[i][3]>>
                 /\ Cur(t)'[i][3] \in 1..Stored(t)'
                 /\ File(t)'.recs[Cur(t)'[i][3]]
      <4>1. CASE i = buff_rec_cntr[t] + 1
        BY <1>0, <2>0, <2>2, <3>1, <4>1
      <4>2. CASE i \in 1..buff_rec_cntr[t]
        BY <1>0, <2>0, <2>2, <3>1, <4>2 DEF HeldInv
      <4> QED
        BY <1>0, <2>2, <4>1, <4>2, IndexSplit
    <3>3. ASSUME NEW i \in 1..buff_rec_cntr'[t], NEW j \in 1..buff_rec_cntr'[t], i < j
          PROVE  Cur(t)'[i][3] < Cur(t)'[j][3]
      <4>1. i \in 1..buff_rec_cntr[t]
        BY <1>0, <2>2, <3>3
      <4>2. Cur(t)'[i][3] = Cur(t)[i][3] /\ Cur(t)[i][3] \in 1..off[t]
        BY <1>0, <2>0, <2>2, <4>1 DEF HeldInv
      <4>3. CASE j = buff_rec_cntr[t] + 1
        BY <1>0, <2>2, <4>2, <4>3
      <4>4. CASE j \in 1..buff_rec_cntr[t]
        BY <1>0, <2>0, <2>2, <3>3, <4>1, <4>4 DEF HeldInv
      <4> QED
        BY <1>0, <2>2, <4>3, <4>4, IndexSplit
    <3> QED
      BY <3>2, <3>3 DEF HeldInv
  <2> QED
    BY <1>0, <1>4, <2>1, <2>2, ReadRecordEffect
<1>5. CASE BufferFull(t)
  <2>1. CASE buff_rec_cntr'[t] = 0
    BY <2>1 DEF HeldInv
  <2>2. CASE pc'[t] = "isend" /\ buff_rec_cntr'[t] = buff_rec_cntr[t]
    <3>1. Cur(t)' = Cur(t) /\ Stored(t)' = Stored(t) /\ pc[t] \in Reading
      BY <1>0, <1>5, <2>2, BufferFullEffect DEF Cur, Stored, Overdue, Reading
    <3> QED
      BY <1>0, <1>5, <2>2, <3>1, BufferFullEffect DEF HeldInv
  <2> QED
    BY <1>0, <1>5, <2>1, <2>2, BufferFullEffect
<1>6. CASE CountFull(t)
  BY <1>0, <1>6, CountFullEffect DEF HeldInv
<1>7. CASE CheckFull(t)
  <2>1. CASE buff_rec_cntr'[t] = 0
    BY <2>1 DEF HeldInv
  <2>2. CASE /\ pc'[t] = "read" /\ buff_rec_cntr'[t] = 1
             /\ Cur(t)'[1] = <<SlaveOf[t], path[t], off[t]>>
    <3>1. /\ path'[t] = path[t] /\ File(t)' = File(t) /\ off[t] # 0
          /\ File(t).recs[off[t]] /\ Stored(t)' = off[t]
      BY <1>0, <1>7, <2>2, CheckFullEffect DEF FileInv, Stored, Overdue
    <3> QED
      BY <1>0, <2>2, <3>1 DEF HeldInv
  <2> QED
    BY <1>0, <1>7, <2>1, <2>2, CheckFullEffect
<1> QED
  BY <1>0, <1>1, <1>2, <1>3, <1>4, <1>5, <1>6, <1>7, StepKinds

\* A buffer in use holds as many records as buff_rec_cntr says.
LEMMA HeldCard ==
    ASSUME TypeOK, LimitInv, NEW t \in Threads, pc[t] \in Reading
    PROVE  IsFiniteSet(Held(t)) /\ Cardinality(Held(t)) = buff_rec_cntr[t]
<1> DEFINE n == buff_rec_cntr[t]
           f == [i \in 1..n |-> Cur(t)[i]]
<1>1. n \in Nat /\ HeldInv(t)
  BY ThreadFacts, BoundsAssumption DEF LimitInv
<1>2. \A i, j \in 1..n : i # j => Cur(t)[i][3] # Cur(t)[j][3]
  <2> SUFFICES ASSUME NEW i \in 1..n, NEW j \in 1..n, i < j
               PROVE  Cur(t)[i][3] # Cur(t)[j][3]
    BY <1>1
  <2>1. Cur(t)[i][3] < Cur(t)[j][3] /\ Cur(t)[i][3] \in Int /\ Cur(t)[j][3] \in Int
    BY <1>1 DEF HeldInv
  <2> QED
    BY <2>1
<1>3. f \in [1..n -> Held(t)] /\ \A i, j \in 1..n : f[i] = f[j] => i = j
  BY <1>2 DEF Held
<1>4. \A r \in Held(t) : \E i \in 1..n : f[i] = r
  BY DEF Held
<1>5. ExistsBijection(1..n, Held(t))
  <2> HIDE DEF f
  <2> QED
    BY <1>3, <1>4, Fun_IsBij DEF ExistsBijection
<1>6. IsFiniteSet(1..n) /\ Cardinality(1..n) = n
  BY <1>1, FS_Interval
<1> QED
  BY <1>5, <1>6, FS_Bijection

\* The records in a buffer are records of the file of its thread.
LEMMA HeldFacts ==
    ASSUME TypeOK, LimitInv, NEW t \in Threads, pc[t] \in Reading, NEW r \in Held(t)
    PROVE  /\ r = <<SlaveOf[t], path[t], r[3]>> /\ r \in Rec
           /\ r[1] = SlaveOf[t] /\ r[2] = path[t] /\ r[3] \in 1..Stored(t)
           /\ r[2] < next_path[r[1]]
           /\ File(t).recs[r[3]]
<1>1. PICK i \in 1..buff_rec_cntr[t] : r = Cur(t)[i]
  BY DEF Held
<1>2. /\ r = <<SlaveOf[t], path[t], r[3]>> /\ r[3] \in 1..Stored(t)
      /\ File(t).recs[r[3]]
  BY <1>1 DEF LimitInv, HeldInv
<1>3. SlaveOf[t] \in Slaves /\ path[t] \in Nat /\ off[t] \in Nat /\ pc[t] \in Labels
  BY ThreadFacts
<1>4. r[3] \in Nat
  BY <1>2
<1>5. path[t] < next_path[SlaveOf[t]]
  BY DEF LimitInv, PathInv
<1>6. r \in Rec /\ r[1] = SlaveOf[t] /\ r[2] = path[t]
  BY <1>2, <1>3, <1>4 DEF Rec
<1> QED
  BY <1>2, <1>5, <1>6

\* No thread holds a record of the file of another.
LEMMA HeldForeign ==
    ASSUME TypeOK, LimitInv, NEW t \in Threads, NEW u \in Threads, t # u,
           pc[u] \in Reading, NEW r \in Held(u), pc[t] \in InFile
    PROVE  ~(r[1] = SlaveOf[t] /\ r[2] = path[t])
<1>1. r[1] = SlaveOf[u] /\ r[2] = path[u]
  BY HeldFacts
<1>2. path[t] # 0
  BY DEF LimitInv, PathInv
<1> QED
  BY <1>1, <1>2 DEF LimitInv, PathInv

\* What a thread has not sent off yet, nobody has.
LEMMA HeldUnsent ==
    ASSUME TypeOK, LimitInv, NEW t \in Threads, pc[t] \in Reading \ SentOff, NEW r \in Held(t)
    PROVE  r \notin sent
<1> SUFFICES ASSUME r \in sent PROVE FALSE
  OBVIOUS
<1>1. PICK i \in 1..buff_rec_cntr[t] : r = Cur(t)[i]
  BY DEF Held
<1>2. r[1] = SlaveOf[t] /\ r[2] = path[t] /\ r[3] \in Int
  BY HeldFacts
<1>3. r[3] < Cur(t)[i][3]
  BY <1>2 DEF LimitInv, FileSentInv
<1> QED
  BY <1>1, <1>2, <1>3

\* A send leaves the files and buffers of the other threads alone.
LEMMA SendOthers ==
    ASSUME TypeOK, NEW t \in Threads, NEW u \in Threads, t # u,
           SendFull(u) \/ SendRest(u)
    PROVE  UNCHANGED FileState(t)
<1>0. FileTypes
  BY DEF TypeOK
<1> QED
  BY <1>0 DEF SendFull, SendRest, GoTo, FileTypes, FileState, fileVars, buffVars

\* What a send does to its own thread.
LEMMA SendEffect ==
    ASSUME TypeOK, LimitInv, NEW t \in Threads, SendFull(t) \/ SendRest(t)
    PROVE  /\ pc[t] \in Reading \ SentOff /\ pc'[t] \in SentOff
           /\ sent' = sent \cup Held(t)
           /\ Held(t)' = Held(t) /\ Cur(t)' = Cur(t) /\ Stored(t)' = Stored(t)
           /\ path'[t] = path[t] /\ UNCHANGED buff_rec_cntr
<1>0. FileTypes
  BY DEF TypeOK
<1>1. /\ pc[t] \in {"isend", "rest"}
      /\ pc[t] = "isend" => pc'[t] = "count"
      /\ pc[t] = "rest" => pc'[t] = "countRest"
  BY <1>0 DEF SendFull, SendRest, GoTo, FileTypes
<1>2. UNCHANGED <<fileVars, buffVars>>
  BY DEF SendFull, SendRest
<1>3. Held(t)' = Held(t) /\ Cur(t)' = Cur(t) /\ Stored(t)' = Stored(t) /\ path'[t] = path[t]
  BY <1>1, <1>2 DEF Held, Cur, Stored, fileVars, buffVars, Overdue
<1>4. sent' = sent \cup Held(t)
  BY DEF SendFull, SendRest, Isend, Held, Cur
<1> QED
  BY <1>1, <1>2, <1>3, <1>4 DEF buffVars, Reading, SentOff

\* The loop counter of a slave does not go back.
LEMMA NextPathGrows ==
    ASSUME TypeOK, [Next]_vars, NEW s \in Slaves
    PROVE  next_path[s] \in Nat /\ next_path'[s] \in Nat /\ next_path[s] <= next_path'[s]
<1>0. next_path[s] \in Nat
  BY DEF TypeOK, SlaveTypes
<1>1. CASE \A t \in Threads : ~TakeFile(t)
  BY <1>0, <1>1, PathFrame
<1>2. ASSUME NEW t \in Threads, TakeFile(t)
      PROVE  next_path'[s] \in Nat /\ next_path[s] <= next_path'[s]
  BY <1>0, <1>2, TakeFileEffect
<1> QED
  BY <1>0, <1>1, <1>2

\* A step keeps SentInv.
LEMMA SentStep == TypeOK /\ LimitInv /\ [Next]_vars => SentInv'
<1> SUFFICES ASSUME TypeOK, LimitInv, [Next]_vars PROVE SentInv'
  OBVIOUS
<1>0. SentInv
  BY DEF LimitInv
<1>1. CASE sent' = sent
  <2>1. ASSUME NEW r \in sent PROVE r \in Rec /\ r[2] < next_path'[r[1]]
    <3>1. r \in Rec /\ r[2] < next_path[r[1]] /\ r[1] \in Slaves /\ r[2] \in Nat
      BY <1>0 DEF SentInv, Rec
    <3> QED
      BY <3>1, NextPathGrows
  <2> QED
    BY <1>0, <1>1, <2>1 DEF SentInv
<1>2. ASSUME NEW t \in Threads, SendFull(t) \/ SendRest(t), sent' = sent \cup Held(t)
      PROVE  SentInv'
  <2>1. pc[t] \in Reading
    BY <1>2, SendEffect
  <2>2. UNCHANGED next_path
    BY <1>2 DEF SendFull, SendRest, slaveVars
  <2>3. IsFiniteSet(sent')
    BY <1>0, <1>2, <2>1, HeldCard, FS_Union DEF SentInv
  <2> QED
    BY <1>0, <1>2, <2>1, <2>2, <2>3, HeldFacts DEF SentInv
<1> QED
  BY <1>1, <1>2, SentGrows

\* A step keeps FileSentInv: what a thread sends is behind what has been sent
\* of its file, and never of the file of another thread.
LEMMA FileSentStep ==
    ASSUME Inv, LimitInv, [Next]_vars, NEW t \in Threads
    PROVE  FileSentInv(t)'
<1>0. /\ TypeOK /\ HeldInv(t) /\ FileInv(t) /\ FileSentInv(t) /\ off[t] \in Nat
      /\ buff_rec_cntr[t] \in Nat /\ SentInv /\ SlaveOf[t] \in Slaves
      /\ \A r \in sent : r[3] \in Nat
  BY ThreadFacts, BoundsAssumption DEF Inv, LimitInv, SentInv, Rec
<1>1. CASE SendFull(t) \/ SendRest(t)
  <2>1. /\ pc[t] \in Reading \ SentOff /\ pc'[t] \in SentOff
        /\ sent' = sent \cup Held(t)
        /\ Held(t)' = Held(t) /\ Stored(t)' = Stored(t) /\ path'[t] = path[t]
    BY <1>0, <1>1, SendEffect
  <2>2. \A r \in Held(t) : r[3] <= Stored(t)
    BY <1>0, <2>1, HeldFacts DEF Stored
  <2> QED
    BY <1>0, <2>1, <2>2 DEF FileSentInv, SentOff, Reading
<1>2. ASSUME NEW u \in Threads, u # t, SendFull(u) \/ SendRest(u)
      PROVE  FileSentInv(t)'
  <2>1. UNCHANGED FileState(t)
    BY <1>0, <1>2, SendOthers
  <2>2. sent' = sent \cup Held(u) /\ pc[u] \in Reading
    BY <1>0, <1>2, SendEffect
  <2>3. pc[t] \in InFile => \A r \in Held(u) : ~(r[1] = SlaveOf[t] /\ r[2] = path[t])
    BY <1>0, <1>2, <2>2, HeldForeign
  <2>4. /\ pc'[t] = pc[t] /\ path'[t] = path[t] /\ Held(t)' = Held(t)
        /\ Cur(t)' = Cur(t) /\ Stored(t)' = Stored(t)
        /\ buff_rec_cntr'[t] = buff_rec_cntr[t]
    BY <2>1 DEF FileState, Held, Cur, Stored
  <2> QED
    BY <1>0, <2>2, <2>3, <2>4 DEF FileSentInv, InFile, Reading, SentOff
<1>3. ASSUME sent' = sent, ~(SendFull(t) \/ SendRest(t)) PROVE FileSentInv(t)'
  <2>1. CASE Quiet(t)
    <3>1. /\ pc'[t] = "open" => pc[t] = "open" \/ TakeFile(t)
          /\ pc[t] = "for" => pc'[t] # "open"
      BY <1>0, <2>1, LabelStep DEF Quiet, FileState, LeaveLoop, ReadEnd, SendFull,
        SendRest, NoRest, CountRest, CheckRest, FinishFile, TermStep,
        StartTerminator, FinishTerminator, GoTo, TypeOK, FileTypes
    <3>2. pc'[t] = "open" => pc[t] = "open"
      BY <3>1 DEF TakeFile
    <3>3. pc'[t] \in Reading => pc'[t] \in SentOff <=> pc[t] \in SentOff
      BY <1>0, <1>3, <2>1 DEF Quiet, FileState, LeaveLoop, ReadEnd,
        NoRest, CountRest, CheckRest, FinishFile, TermStep,
        StartTerminator, FinishTerminator, GoTo, TypeOK, FileTypes, SentOff, Reading
    <3> QED
      BY <1>0, <1>3, <2>1, <3>2, <3>3, QuietEffect DEF FileSentInv, SentOff, Reading
  <2>2. CASE TakeFile(t)
    <3>1. pc'[t] = "open" /\ path'[t] = next_path[SlaveOf[t]]
      BY <1>0, <2>2, TakeFileLocal, TakeFileEffect
    <3>2. ASSUME NEW r \in sent, r[1] = SlaveOf[t] PROVE r[2] # path'[t]
      <4>1. r[2] < next_path[SlaveOf[t]] /\ r[2] \in Nat
        BY <1>0, <3>2 DEF SentInv, Rec
      <4>2. next_path[SlaveOf[t]] \in Nat
        BY <1>0, NextPathGrows
      <4> QED
        BY <3>1, <4>1, <4>2
    <3> QED
      BY <1>3, <3>1, <3>2 DEF FileSentInv, SentOff, Reading
  <2>3. CASE OpenFile(t)
    BY <1>0, <1>3, <2>3, OpenFileEffect DEF FileSentInv, SentOff, Reading
  <2>4. CASE ReadRecord(t)
    <3>1. /\ pc[t] = "read" /\ pc'[t] \in {"read", "full"} /\ path'[t] = path[t]
          /\ Stored(t) = off[t] /\ off[t] <= Stored(t)'
      BY <1>0, <2>4, ReadRecordEffect DEF Stored, Overdue
    <3>2. ASSUME NEW r \in sent, r[1] = SlaveOf[t], r[2] = path[t],
                 NEW i \in 1..buff_rec_cntr'[t]
          PROVE  r[3] < Cur(t)'[i][3]
      <4>1. r[3] <= off[t] /\ \A j \in 1..buff_rec_cntr[t] : r[3] < Cur(t)[j][3]
        BY <1>0, <3>1, <3>2 DEF FileSentInv, Reading, SentOff
      <4>2. CASE buff'[t] = buff[t] /\ buff_rec_cntr'[t] = buff_rec_cntr[t]
        BY <1>0, <2>4, <4>1, <4>2, ReadRecordEffect DEF Cur
      <4>3. CASE /\ buff_rec_cntr'[t] = buff_rec_cntr[t] + 1
                 /\ \A j \in 1..buff_rec_cntr[t] : Cur(t)'[j] = Cur(t)[j]
                 /\ Cur(t)'[buff_rec_cntr[t] + 1] = <<SlaveOf[t], path[t], off[t] + 1>>
        BY <1>0, <4>1, <4>3, IndexSplit
      <4> QED
        BY <1>0, <2>4, <4>2, <4>3, ReadRecordEffect
    <3>3. Stored(t)' \in Nat
      BY <1>0, <2>4, ReadRecordEffect DEF Stored
    <3> QED
      BY <1>0, <1>3, <3>1, <3>2, <3>3 DEF FileSentInv, Reading, SentOff
  <2>5. CASE BufferFull(t)
    <3>1. /\ pc[t] = "full" /\ pc'[t] \in {"rest", "isend"} /\ path'[t] = path[t]
          /\ Cur(t)' = Cur(t) /\ Stored(t) \in Int /\ Stored(t)' \in Int
          /\ Stored(t) <= Stored(t)' /\ buff_rec_cntr'[t] \in {0, buff_rec_cntr[t]}
      BY <1>0, <2>5, BufferFullEffect DEF Stored, Overdue, Cur
    <3> QED
      BY <1>0, <1>3, <3>1 DEF FileSentInv, Reading, SentOff
  <2>6. CASE CountFull(t)
    <3>1. /\ pc[t] = "count" /\ pc'[t] = "check" /\ path'[t] = path[t]
          /\ Stored(t)' = Stored(t) /\ buff_rec_cntr'[t] = 0
      BY <1>0, <2>6, CountFullEffect DEF Stored, Overdue
    <3> QED
      BY <1>0, <1>3, <3>1 DEF FileSentInv, Reading, SentOff
  <2>7. CASE CheckFull(t)
    <3>1. /\ pc[t] = "check" /\ pc'[t] \in {"rest", "read"} /\ path'[t] = path[t]
          /\ Stored(t) = off[t] - 1 /\ Stored(t)' = off[t]
      BY <1>0, <2>7, CheckFullEffect DEF Stored, Overdue
    <3>2. \A r \in sent : r[1] = SlaveOf[t] /\ r[2] = path[t] => r[3] <= off[t] - 1
      BY <1>0, <3>1 DEF FileSentInv, Reading
    <3>3. \A i \in 1..buff_rec_cntr'[t] : Cur(t)'[i][3] = off[t]
      BY <1>0, <2>7, CheckFullEffect
    <3> QED
      BY <1>0, <1>3, <3>1, <3>2, <3>3 DEF FileSentInv, Reading, SentOff
  <2> QED
    BY <1>0, <2>1, <2>2, <2>3, <2>4, <2>5, <2>6, <2>7, StepKinds
<1> QED
  BY <1>0, <1>1, <1>2, <1>3, SentGrows

----------------------------------------------------------------------------
(* The shared counter and the flag.                                        *)

\* Sends and additions apart, a step leaves the records between send and
\* addition as they are.
LEMMA SentOffFrame ==
    ASSUME Inv, LimitInv, [Next]_vars, NEW t \in Threads,
           ~(SendFull(t) \/ SendRest(t) \/ CountFull(t) \/ CountRest(t))
    PROVE  /\ pc'[t] \in SentOff <=> pc[t] \in SentOff
           /\ pc[t] \in SentOff => Held(t)' = Held(t)
<1> USE DEF SentOff
<1>0. TypeOK /\ FileTypes
  BY DEF Inv, TypeOK
<1>1. CASE Quiet(t)
  BY <1>0, <1>1, QuietEffect DEF Quiet, FileState, LeaveLoop, ReadEnd, NoRest,
    CheckRest, FinishFile, TermStep, StartTerminator, FinishTerminator, GoTo,
    FileTypes
<1>2. CASE TakeFile(t)
  BY <1>0, <1>2, TakeFileLocal DEF TakeFile
<1>3. CASE OpenFile(t)
  BY <1>0, <1>3, OpenFileEffect
<1>4. CASE ReadRecord(t)
  BY <1>0, <1>4, ReadRecordEffect
<1>5. CASE BufferFull(t)
  BY <1>0, <1>5, BufferFullEffect
<1>6. CASE CheckFull(t)
  BY <1>0, <1>6, CheckFullEffect
<1> QED
  BY <1>0, <1>1, <1>2, <1>3, <1>4, <1>5, <1>6, StepKinds

\* What an addition does to its own thread and to the counters.
LEMMA AddEffect ==
    ASSUME TypeOK, [Next]_vars, NEW t \in Threads, CountFull(t) \/ CountRest(t)
    PROVE  /\ pc[t] \in SentOff /\ pc'[t] \notin SentOff /\ UNCHANGED sent
           /\ proc_rec_cntr'[SlaveOf[t]] = proc_rec_cntr[SlaveOf[t]] + buff_rec_cntr[t]
           /\ \A s \in Slaves : s # SlaveOf[t] => proc_rec_cntr'[s] = proc_rec_cntr[s]
           /\ \A u \in Threads : u # t => UNCHANGED FileState(u)
<1>0. SlaveTypes /\ FileTypes /\ SenderTypes /\ SlaveOf[t] \in Slaves
  BY ThreadsAssumption DEF TypeOK
<1>1. \A u \in Threads : u # t => UNCHANGED FileState(u)
  BY <1>0 DEF CountFull, CountRest, GoTo, FileTypes, SenderTypes, FileState,
    fileVars, buffVars
<1>2. pc[t] \in SentOff /\ pc'[t] \notin SentOff /\ UNCHANGED sent
  BY <1>0 DEF CountFull, CountRest, GoTo, FileTypes, SentOff, histVars
<1>3. /\ proc_rec_cntr'[SlaveOf[t]] = proc_rec_cntr[SlaveOf[t]] + buff_rec_cntr[t]
      /\ \A s \in Slaves : s # SlaveOf[t] => proc_rec_cntr'[s] = proc_rec_cntr[s]
  BY <1>0 DEF CountFull, CountRest, SlaveTypes
<1> QED
  BY <1>1, <1>2, <1>3

\* Additions apart, a step leaves the shared counters as they are.
LEMMA CounterFrame ==
    ASSUME [Next]_vars, \A t \in Threads : ~(CountFull(t) \/ CountRest(t))
    PROVE  UNCHANGED proc_rec_cntr
  BY Frames DEF slaveVars, TakeFile, LeaveLoop, CheckFull, CheckRest

\* Sets that have nothing in common.
LEMMA DisjointUnion ==
    ASSUME NEW S, NEW T, IsFiniteSet(S), IsFiniteSet(T), S \cap T = {}
    PROVE  IsFiniteSet(S \cup T) /\ Cardinality(S \cup T) = Cardinality(S) + Cardinality(T)
<1>1. Cardinality(S) \in Nat /\ Cardinality(T) \in Nat
  BY FS_CardinalityType
<1>2. Cardinality(S \cap T) = 0
  BY FS_EmptySet
<1>3. /\ IsFiniteSet(S \cup T)
      /\ Cardinality(S \cup T) = Cardinality(S) + Cardinality(T) - Cardinality(S \cap T)
  BY FS_Union
<1> QED
  BY <1>1, <1>2, <1>3

\* A step keeps CountInv: every record sent is added to the counter once.
LEMMA CountStep == Inv /\ LimitInv /\ [Next]_vars => CountInv'
<1> SUFFICES ASSUME Inv, LimitInv, [Next]_vars, NEW s \in Slaves
             PROVE  proc_rec_cntr'[s] = Cardinality(Counted(s)')
  BY DEF CountInv
<1>0. /\ TypeOK /\ SentInv /\ proc_rec_cntr[s] = Cardinality(Counted(s))
      /\ proc_rec_cntr[s] \in Nat
  BY DEF Inv, LimitInv, CountInv, TypeOK, SlaveTypes
<1>1. ASSUME NEW t \in Threads, SendFull(t) \/ SendRest(t)
      PROVE  proc_rec_cntr'[s] = Cardinality(Counted(s)')
  <2>1. /\ pc[t] \in Reading \ SentOff /\ pc'[t] \in SentOff
        /\ sent' = sent \cup Held(t) /\ Held(t)' = Held(t)
    BY <1>0, <1>1, SendEffect
  <2>2. \A u \in Threads : u # t => pc'[u] = pc[u] /\ Held(u)' = Held(u)
    BY <1>0, <1>1, SendOthers DEF FileState, Held, Cur
  <2>3. \A r \in Held(t) : r \notin sent
    BY <1>0, <2>1, HeldUnsent
  <2>4. Counted(s)' = Counted(s)
    BY <2>1, <2>2, <2>3 DEF Counted
  <2>5. UNCHANGED proc_rec_cntr
    BY <1>1 DEF SendFull, SendRest, slaveVars
  <2> QED
    BY <1>0, <2>4, <2>5
<1>2. ASSUME NEW t \in Threads, CountFull(t) \/ CountRest(t)
      PROVE  proc_rec_cntr'[s] = Cardinality(Counted(s)')
  <2>1. /\ pc[t] \in SentOff /\ pc'[t] \notin SentOff /\ UNCHANGED sent
        /\ \A u \in Threads : u # t => pc'[u] = pc[u] /\ Held(u)' = Held(u)
    BY <1>0, <1>2, AddEffect DEF FileState, Held, Cur
  <2>2. /\ Held(t) \subseteq sent /\ pc[t] \in Reading
        /\ \A r \in Held(t) : r[1] = SlaveOf[t]
    BY <1>0, <2>1, HeldFacts DEF LimitInv, FileSentInv, SentOff, Reading
  <2>3. CASE s # SlaveOf[t]
    <3>1. Counted(s)' = Counted(s)
      BY <2>1, <2>2, <2>3 DEF Counted
    <3> QED
      BY <1>0, <1>2, <2>3, <3>1, AddEffect
  <2>4. CASE s = SlaveOf[t]
    <3>1. ASSUME NEW u \in Threads, u # t, pc[u] \in SentOff, NEW r \in Held(t)
          PROVE  r \notin Held(u)
      <4>1. pc[t] \in InFile /\ pc[u] \in Reading
        BY <2>1, <3>1 DEF SentOff, InFile, Reading
      <4>2. r[1] = SlaveOf[t] /\ r[2] = path[t]
        BY <1>0, <2>2, HeldFacts
      <4> QED
        BY <1>0, <3>1, <4>1, <4>2, HeldForeign
    <3>2. Counted(s)' = Counted(s) \cup Held(t) /\ Counted(s) \cap Held(t) = {}
      BY <2>1, <2>2, <2>4, <3>1 DEF Counted
    <3>3. IsFiniteSet(Counted(s)) /\ Counted(s) \subseteq sent
      BY <1>0, FS_Subset DEF SentInv, Counted
    <3>4. IsFiniteSet(Held(t)) /\ Cardinality(Held(t)) = buff_rec_cntr[t]
      BY <1>0, <2>2, HeldCard
    <3>5. Cardinality(Counted(s)') = Cardinality(Counted(s)) + buff_rec_cntr[t]
      <4>1. Cardinality(Counted(s) \cup Held(t)) = Cardinality(Counted(s)) + Cardinality(Held(t))
        BY <3>2, <3>3, <3>4, DisjointUnion
      <4> QED
        BY <3>2, <3>4, <4>1
    <3> QED
      BY <1>0, <1>2, <2>4, <3>5, AddEffect
  <2> QED
    BY <2>3, <2>4
<1>3. ASSUME \A t \in Threads :
                ~(SendFull(t) \/ SendRest(t) \/ CountFull(t) \/ CountRest(t))
      PROVE  proc_rec_cntr'[s] = Cardinality(Counted(s)')
  <2>1. sent' = sent /\ UNCHANGED proc_rec_cntr
    BY <1>0, <1>3, SentGrows, CounterFrame
  <2>2. Counted(s)' = Counted(s)
    BY <1>3, <2>1, SentOffFrame DEF Counted
  <2> QED
    BY <1>0, <2>1, <2>2
<1> QED
  BY <1>1, <1>2, <1>3

\* A step keeps FlagInv: the flag is set at the limit only, and the counter
\* does not fall.
LEMMA FlagStep == TypeOK /\ LimitInv /\ [Next]_vars => FlagInv'
<1> SUFFICES ASSUME TypeOK, LimitInv, [Next]_vars, NEW s \in Slaves,
                    rec_limit_reached'[s]
             PROVE  LimitReached(s)'
  BY DEF FlagInv
<1> USE ThreadsAssumption
<1>0. SlaveTypes
  BY DEF TypeOK
<1>1. rec_limit_reached[s] \/ LimitReached(s)
  <2>1. CASE UNCHANGED slaveVars
    BY <2>1 DEF slaveVars
  <2>2. ASSUME NEW t \in Threads, TakeFile(t) \/ LeaveLoop(t) \/ CountFull(t) \/ CountRest(t)
        PROVE  rec_limit_reached[s]
    BY <2>2 DEF TakeFile, LeaveLoop, CountFull, CountRest
  <2>3. ASSUME NEW t \in Threads, CheckFull(t) \/ CheckRest(t)
        PROVE  rec_limit_reached[s] \/ LimitReached(s)
    BY <1>0, <2>3 DEF CheckFull, CheckRest, SlaveTypes
  <2> QED
    BY <2>1, <2>2, <2>3, Frames
<1>2. LimitReached(s)
  BY <1>1 DEF LimitInv, FlagInv
<1> QED
  BY <1>2, LimitStable

\* A step keeps RestInv.
LEMMA RestStep ==
    ASSUME Inv, LimitInv, [Next]_vars, NEW t \in Threads
    PROVE  RestInv(t)'
<1> DEFINE Rest == {"rest", "countRest", "checkRest"}
<1>0. /\ TypeOK /\ FileTypes /\ RestInv(t) /\ FlagInv /\ SlaveOf[t] \in Slaves
      /\ UNCHANGED ff_paths
  BY Frames, ThreadFacts DEF Inv, TypeOK, LimitInv, jobVars
<1>1. CASE LimitReached(SlaveOf[t])
  BY <1>0, <1>1, LimitStable DEF RestInv
<1>2. CASE ~LimitReached(SlaveOf[t])
  <2>1. CASE pc[t] \in Rest
    <3>1. off'[t] = off[t] /\ lnf_ret'[t] = lnf_ret[t] /\ File(t)' = File(t)
      <4>1. CASE UNCHANGED FileState(t)
        BY <1>0, <4>1 DEF FileState, File
      <4>2. CASE ThreadStep(t)
        <5>1. SendRest(t) \/ NoRest(t) \/ CountRest(t) \/ CheckRest(t)
          BY <2>1, <4>2 DEF ThreadStep, FileStep, TakeFile, LeaveLoop, OpenFile,
            SendStep, ReadRecord, ReadEnd, BufferFull, SendFull, CountFull,
            CheckFull, FinishFile, TermStep, StartTerminator, FinishTerminator
        <5> QED
          BY <1>0, <5>1 DEF SendRest, NoRest, CountRest, CheckRest, fileVars, File
      <4> QED
        BY <1>0, <4>1, <4>2, OwnFile
    <3> QED
      BY <1>0, <1>2, <2>1, <3>1 DEF RestInv
  <2>2. CASE pc[t] \notin Rest /\ ~ReadEnd(t)
    <3>1. ~rec_limit_reached[SlaveOf[t]]
      BY <1>0, <1>2 DEF FlagInv
    <3>2. pc'[t] \notin Rest
      <4>1. CASE UNCHANGED FileState(t)
        BY <2>2, <4>1 DEF FileState
      <4>2. CASE FileStep(t)
        BY <1>0, <4>2 DEF FileStep, TakeFile, LeaveLoop, OpenFile, GoTo, FileTypes
      <4>3. CASE TermStep(t)
        BY <1>0, <4>3 DEF TermStep, StartTerminator, FinishTerminator, GoTo, FileTypes
      <4>4. CASE SendStep(t)
        BY <1>0, <1>2, <2>2, <3>1, <4>4 DEF SendStep, ReadRecord, BufferFull,
          SendFull, CountFull, CheckFull, SendRest, NoRest, CountRest, CheckRest,
          FinishFile, GoTo, FileTypes
      <4> QED
        BY <1>0, <4>1, <4>2, <4>3, <4>4, OwnFile DEF ThreadStep
    <3> QED
      BY <3>2 DEF RestInv
  <2>3. CASE ReadEnd(t)
    <3>1. /\ off'[t] = off[t] /\ off[t] = Len(File(t).recs) /\ File(t)' = File(t)
          /\ lnf_ret'[t] = IF File(t).eof THEN "eof" ELSE "err"
      BY <1>0, <2>3 DEF ReadEnd, File, FileTypes
    <3> QED
      BY <3>1 DEF RestInv
  <2> QED
    BY <2>1, <2>2, <2>3
<1> QED
  BY <1>1, <1>2

\* A step keeps NoSpuriousWarning.
LEMMA WarnStep == TypeOK /\ LimitInv /\ [Next]_vars => NoSpuriousWarning'
<1> SUFFICES ASSUME TypeOK, LimitInv, [Next]_vars PROVE NoSpuriousWarning'
  OBVIOUS
<1>0. NoSpuriousWarning /\ UNCHANGED ff_paths
  BY Frames DEF LimitInv, jobVars
<1>1. CASE UNCHANGED warned
  BY <1>0, <1>1 DEF NoSpuriousWarning
<1>2. ASSUME NEW t \in Threads, CheckRest(t) PROVE NoSpuriousWarning'
  <2>1. CASE UNCHANGED warned
    BY <1>0, <2>1 DEF NoSpuriousWarning
  <2>2. CASE ~LimitReached(SlaveOf[t]) /\ lnf_ret[t] # "eof"
             /\ warned' = warned \cup {<<SlaveOf[t], path[t]>>}
    <3>1. ~File(t).eof
      BY <1>2, <2>2 DEF LimitInv, RestInv, CheckRest
    <3> QED
      BY <1>0, <2>2, <3>1 DEF NoSpuriousWarning, File
  <2> QED
    BY <1>2, <2>1, <2>2 DEF CheckRest
<1>3. ASSUME NEW t \in Threads, SendFull(t) \/ SendRest(t) \/ StartTerminator(t)
      PROVE  UNCHANGED warned
  BY <1>3 DEF SendFull, SendRest, StartTerminator
<1> QED
  BY <1>1, <1>2, <1>3, Frames DEF histVars, ProcessRecord

----------------------------------------------------------------------------
(* The theorem.                                                            *)

\* A step keeps the inductive invariant.
LEMMA LimitStep == Inv /\ LimitInv /\ [Next]_vars => LimitInv'
<1> SUFFICES ASSUME Inv, LimitInv, [Next]_vars PROVE LimitInv'
  OBVIOUS
<1>1. TypeOK
  BY DEF Inv
<1>2. \A t \in Threads : (FileInv(t) /\ HeldInv(t) /\ FileSentInv(t) /\ RestInv(t))'
  BY FilePosStep, HeldStep, FileSentStep, RestStep
<1> QED
  BY <1>1, <1>2, PathStep, SentStep, CountStep, FlagStep, WarnStep DEF LimitInv

\* The inductive invariant holds throughout.
LEMMA LimitInvariance == Spec => []LimitInv
  BY LimitInit, LimitStep, Invariance, PTL DEF Spec

\* The threads of a slave decide rightly about the record limit, whatever their
\* number and however their sends, additions and checks interleave: the flag on
\* whose strength records are dropped and files passed over is set only when
\* rec_limit different records of the slave have been handed to MPI, and a file
\* left because of it is not reported as damaged.
THEOREM LimitSound == Spec => []LimitDecisionsSound
<1>1. Inv /\ LimitInv => LimitDecisionsSound
  <2> SUFFICES ASSUME Inv, LimitInv PROVE LimitFlagSound
    BY DEF LimitInv, LimitDecisionsSound
  <2> SUFFICES ASSUME NEW s \in Slaves, rec_limit_reached[s]
               PROVE  /\ rec_limit # 0
                      /\ Cardinality({r \in sent : r[1] = s}) >= rec_limit
    BY DEF LimitFlagSound
  <2>1. LimitReached(s) /\ proc_rec_cntr[s] = Cardinality(Counted(s))
    BY DEF LimitInv, FlagInv, CountInv
  <2> DEFINE S == {r \in sent : r[1] = s}
  <2>2. IsFiniteSet(S)
    BY FS_Subset DEF LimitInv, SentInv
  <2>3. Counted(s) \in SUBSET S
    BY DEF Counted
  <2>4. Cardinality(Counted(s)) <= Cardinality(S) /\ Cardinality(S) \in Nat
    BY <2>2, <2>3, FS_Subset, FS_CardinalityType
  <2>5. rec_limit \in Nat /\ proc_rec_cntr[s] \in Nat
    BY BoundsAssumption DEF Inv, TypeOK, SlaveTypes
  <2> HIDE DEF S
  <2>6. rec_limit # 0 /\ Cardinality(S) >= rec_limit
    BY <2>1, <2>4, <2>5 DEF LimitReached
  <2> QED
    BY <2>6 DEF S
<1> QED
  BY <1>1, Invariance, LimitInvariance, PTL

----------------------------------------------------------------------------
(***************************************************************************)
(* The output.  The invariant follows every record from the file to the    *)
(* output.  On its way a record is in one place at a time: in a message,   *)
(* in the buffer a receive has completed, in the message being processed,  *)
(* or in the output; and a record that matches is lost only after the      *)
(* limit has been reached.                                                 *)
(***************************************************************************)

\* The bytes of the i-th message of a thread, the records it carries, and the
\* records of all messages of a thread that no receive has matched.
Text(t, i) == Payload(t, chan[t][i])
Body(t, i) == {Text(t, i)[k] : k \in 1..chan[t][i].len}
Mail(t) == UNION {Body(t, i) : i \in 1..Len(chan[t])}

\* The records of the message that has completed the receive, and those of the
\* message being processed that have not been printed yet.
Arriving ==
    IF rrequest = "complete" THEN {rec_buff[rbuff_idx][k] : k \in 1..msg_size} ELSE {}
Processing ==
    IF mpc = "process" THEN {rec_buff[rec_ptr.buff][k] : k \in rec_ptr.pos..msg_end}
    ELSE {}

Distinct(b, S) == \A k, l \in S : k # l => b[k] # b[l]

\* No record is twice in the messages of a thread.
MailInv(t) ==
    /\ \A i \in 1..Len(chan[t]) : Distinct(Text(t, i), 1..chan[t][i].len)
    /\ \A i, j \in 1..Len(chan[t]) : i # j => Body(t, i) \cap Body(t, j) = {}

\* None is twice in a buffer of the master, and the message being processed is
\* not in the buffer of the receive.
RecvInv ==
    /\ rrequest = "complete" => Distinct(rec_buff[rbuff_idx], 1..msg_size)
    /\ mpc = "process" => /\ Distinct(rec_buff[rec_ptr.buff], rec_ptr.pos..msg_end)
                          /\ rec_ptr.buff # rbuff_idx

\* A record is in one place at a time.
Apart ==
    /\ \A t \in Threads : /\ Mail(t) \subseteq sent
                          /\ Mail(t) \cap (Arriving \cup Processing \cup printed) = {}
    /\ \A t, u \in Threads : t # u => Mail(t) \cap Mail(u) = {}
    /\ Arriving \cup Processing \cup printed \subseteq sent
    /\ Arriving \cap (Processing \cup printed) = {}
    /\ Processing \cap printed = {}

\* Until the master has printed enough nothing that has been sent is lost.
Arrives ==
    ~limit_exceeded =>
        \A r \in sent : \/ r \in Arriving \cup Processing \cup printed
                        \/ \E t \in Threads : r \in Mail(t)

\* rec_cntr counts the output, and limit_exceeded says that it is complete.
PrintInv ==
    /\ IsFiniteSet(printed)
    /\ Cardinality(printed) = rec_cntr
    /\ limit_exceeded <=> (rec_limit # 0 /\ rec_cntr = rec_limit)
    /\ rec_limit = 0 \/ rec_cntr <= rec_limit
    /\ mpc = "process" => ~limit_exceeded

\* Only matching records are sent.
SentExpected == sent \subseteq Expected

\* A matching record of a file that has been taken is sent, or some thread is
\* going to send it, or the limit has been reached.
Pending(t, r) ==
    /\ SlaveOf[t] = r[1]
    /\ path[t] = r[2]
    /\ \/ pc[t] = "open"
       \/ pc[t] \in Reading /\ (r[3] > Stored(t) \/ r \in Held(t))

NoneMissed ==
    \A r \in Expected : r[2] < next_path[r[1]] =>
        LimitReached(r[1]) \/ r \in sent \/ \E t \in Threads : Pending(t, r)

\* A thread leaves the loop over the files when all have been taken.
AllTaken ==
    \A t \in Threads : pc[t] \in {"post", "term", "done"} =>
        next_path[SlaveOf[t]] > Len(ff_paths[SlaveOf[t]])

OutputInv ==
    /\ \A t \in Threads : MailInv(t)
    /\ RecvInv
    /\ Apart
    /\ Arrives
    /\ PrintInv
    /\ SentExpected
    /\ NoneMissed
    /\ AllTaken

----------------------------------------------------------------------------

\* The initial states satisfy the invariant.
LEMMA OutputInit == Init => OutputInv
<1> SUFFICES ASSUME Init PROVE OutputInv
  OBVIOUS
<1>1. \A t \in Threads : MailInv(t) /\ Mail(t) = {}
  BY DEF Init, MailInv, Mail
<1>2. Arriving = {} /\ Processing = {} /\ RecvInv
  BY DEF Init, Arriving, Processing, RecvInv
<1>3. Apart /\ Arrives /\ SentExpected
  BY <1>1, <1>2 DEF Init, Apart, Arrives, SentExpected
<1>4. PrintInv
  <2>1. rec_limit \in Nat /\ Cardinality({}) = 0 /\ IsFiniteSet({})
    BY BoundsAssumption, FS_EmptySet DEF Init
  <2> QED
    BY <2>1 DEF Init, PrintInv
<1>5. NoneMissed
  <2> SUFFICES ASSUME NEW r \in Expected, r[2] < next_path[r[1]] PROVE FALSE
    BY DEF NoneMissed
  <2>1. PICK s \in Slaves : \E f \in 1..Len(ff_paths[s]) : \E i : r = <<s, f, i>>
    BY DEF Expected
  <2> QED
    BY <2>1 DEF Init
<1>6. AllTaken
  BY DEF Init, AllTaken
<1> QED
  BY <1>1, <1>2, <1>3, <1>4, <1>5, <1>6 DEF OutputInv

----------------------------------------------------------------------------
(* The messages of a thread.                                               *)

\* A message whose bytes are still at its sender is not in the buffer in use
\* while that is being written: the bytes stay what they were.
LEMMA TextStable ==
    ASSUME Inv, LimitInv, [Next]_vars, NEW t \in Threads, NEW i \in 1..Len(chan[t]),
           chan'[t][i] = chan[t][i]
    PROVE  Text(t, i)' = Text(t, i)
<1>0. TypeOK /\ SenderTypes /\ SenderInv(t) /\ chan[t][i] \in Msg
  BY DEF Inv, TypeOK, SenderTypes
<1>1. CASE chan[t][i].at = InMpi
  BY <1>1 DEF Text, Payload
<1>2. CASE chan[t][i].at # InMpi
  <2>1. chan[t][i].at = request[t] /\ chan[t][i].at \in {0, 1}
    BY <1>0, <1>2 DEF SenderInv, Msg, InMpi
  <2>2. buff'[t][request[t]] = buff[t][request[t]]
    <3>1. CASE buff'[t] = buff[t]
      BY <3>1
    <3>2. ASSUME NEW rec, WriteRecord(t, rec), pc[t] \in {"read", "check"}
          PROVE  buff'[t][request[t]] = buff[t][request[t]]
      <4>1. request[t] # buff_idx[t]
        BY <1>0, <3>2 DEF SenderInv
      <4>2. buff \in [Threads -> [{0, 1} -> Buffer]] /\ buff_idx[t] \in {0, 1}
        BY <1>0 DEF SenderTypes
      <4> QED
        BY <2>1, <3>2, <4>1, <4>2 DEF WriteRecord
    <3>3. CASE Quiet(t)
      BY <1>0, <3>3, QuietEffect
    <3>4. CASE TakeFile(t) \/ OpenFile(t) \/ BufferFull(t) \/ CountFull(t)
      BY <3>4 DEF TakeFile, OpenFile, BufferFull, CountFull, buffVars
    <3>5. CASE ReadRecord(t) \/ CheckFull(t)
      BY <3>1, <3>2, <3>5 DEF ReadRecord, CheckFull
    <3> QED
      BY <1>0, <3>3, <3>4, <3>5, StepKinds
  <2> QED
    BY <1>2, <2>1, <2>2 DEF Text, Payload
<1> QED
  BY <1>1, <1>2

\* A send adds one message with the records of the buffer in use.
LEMMA SendMail ==
    ASSUME Inv, LimitInv, [Next]_vars, NEW t \in Threads, NEW len \in 0..BuffRecs,
           Isend(t, len), UNCHANGED buffVars
    PROVE  /\ Len(chan[t]) \in Nat /\ Len(chan'[t]) = Len(chan[t]) + 1
           /\ \A i \in 1..Len(chan[t]) :
                 chan'[t][i].len = chan[t][i].len /\ Text(t, i)' = Text(t, i)
           /\ chan'[t][Len(chan[t]) + 1].len = len
           /\ Text(t, Len(chan[t]))' = Cur(t)
<1>0. SenderTypes
  BY DEF Inv, TypeOK
<1>1. /\ Len(chan'[t]) = Len(chan[t]) + 1
      /\ \A i \in 1..Len(chan[t]) : chan'[t][i] = chan[t][i]
      /\ chan'[t][Len(chan[t]) + 1].at = buff_idx[t]
      /\ chan'[t][Len(chan[t]) + 1].len = len
  BY <1>0, IsendEffect
<1>2. Text(t, Len(chan[t]))' = Cur(t)
  <2> DEFINE m == chan[t][Len(chan[t])]
  <2>1. buff_idx[t] \in {0, 1} /\ m'.at = buff_idx[t]
    BY <1>0, <1>1 DEF SenderTypes
  <2>2. UNCHANGED buff /\ m'.at # InMpi
    BY <2>1 DEF buffVars, InMpi
  <2>3. Text(t, Len(chan[t]))' = buff'[t][m'.at]
    BY <2>2 DEF Text, Payload
  <2> QED
    BY <2>1, <2>2, <2>3 DEF Cur
<1>3. Len(chan[t]) \in Nat
  BY <1>0 DEF SenderTypes
<1> QED
  BY <1>1, <1>2, <1>3, TextStable

\* The delivery takes the first message away.
LEMMA DeliverMail ==
    ASSUME Inv, LimitInv, [Next]_vars, NEW t \in Threads, Deliver(t)
    PROVE  /\ Len(chan[t]) \in Nat \ {0} /\ Len(chan'[t]) = Len(chan[t]) - 1
           /\ \A i \in 1..Len(chan'[t]) : /\ chan'[t][i].len = chan[t][i + 1].len
                                          /\ Text(t, i)' = Text(t, i + 1)
<1>0. SenderTypes /\ chan[t] \in Seq(Msg) /\ chan[t] # <<>>
  BY DEF Inv, TypeOK, SenderTypes, Deliver
<1>1. /\ Len(chan[t]) \in Nat \ {0} /\ Len(chan'[t]) = Len(chan[t]) - 1
      /\ \A j \in 1..Len(chan'[t]) : chan'[t][j] = chan[t][j + 1]
  BY <1>0 DEF Deliver, SenderTypes
<1>2. UNCHANGED buff
  BY DEF Deliver, threadVars, buffVars
<1> QED
  BY <1>1, <1>2 DEF Text, Payload

\* Nothing else changes what a thread's messages say.
LEMMA KeepMail ==
    ASSUME Inv, LimitInv, [Next]_vars, NEW t \in Threads,
           ~(SendFull(t) \/ SendRest(t) \/ StartTerminator(t) \/ Deliver(t))
    PROVE  /\ Len(chan'[t]) = Len(chan[t])
           /\ \A i \in 1..Len(chan[t]) :
                 chan'[t][i].len = chan[t][i].len /\ Text(t, i)' = Text(t, i)
<1>0. TypeOK /\ SenderTypes /\ SenderInv(t) /\ chan[t] \in Seq(Msg)
  BY DEF Inv, TypeOK, SenderTypes
<1>1. CASE chan'[t] = chan[t]
  BY <1>1, TextStable
<1>2. CASE Transfer(t)
  <2>1. PICK j \in 1..Len(chan[t]) :
          chan' = [chan EXCEPT ![t][j] =
                     [at |-> InMpi, len |-> chan[t][j].len,
                      data |-> Payload(t, chan[t][j])]]
    BY <1>2 DEF Transfer
  <2>2. UNCHANGED buff
    BY <1>2 DEF Transfer, threadVars, buffVars
  <2>3. /\ Len(chan'[t]) = Len(chan[t])
        /\ chan'[t][j] = [at |-> InMpi, len |-> chan[t][j].len,
                          data |-> Payload(t, chan[t][j])]
        /\ \A i \in 1..Len(chan[t]) : i # j => chan'[t][i] = chan[t][i]
    BY <1>0, <2>1 DEF SenderTypes
  <2>4. chan'[t][j].len = chan[t][j].len /\ Text(t, j)' = Text(t, j)
    BY <2>2, <2>3 DEF Text, Payload
  <2> QED
    BY <2>3, <2>4, TextStable
<1>3. CASE ThreadStep(t)
  <2>1. UNCHANGED chan
    BY <1>3 DEF ThreadStep, FileStep, TakeFile, LeaveLoop, OpenFile, SendStep,
      ReadRecord, ReadEnd, BufferFull, CountFull, CheckFull, NoRest, CountRest,
      CheckRest, FinishFile, TermStep, FinishTerminator
  <2> QED
    BY <1>1, <2>1
<1> QED
  BY <1>0, <1>1, <1>2, <1>3, OwnSends DEF SendState

\* So do the steps of the other threads.
LEMMA ForeignMail ==
    ASSUME Inv, LimitInv, [Next]_vars, NEW t \in Threads, chan'[t] = chan[t]
    PROVE  Mail(t)' = Mail(t)
  BY TextStable DEF Mail, Body

\* In terms of records: a send adds those of the buffer,
LEMMA SendBodies ==
    ASSUME Inv, LimitInv, [Next]_vars, NEW t \in Threads, NEW len \in 0..BuffRecs,
           Isend(t, len), UNCHANGED buffVars
    PROVE  /\ Len(chan[t]) \in Nat /\ Len(chan'[t]) = Len(chan[t]) + 1
           /\ \A i \in 1..Len(chan[t]) : Body(t, i)' = Body(t, i)
           /\ \A n : n = Len(chan[t]) + 1 => Body(t, n)' = {Cur(t)[k] : k \in 1..len}
           /\ Mail(t)' = Mail(t) \cup {Cur(t)[k] : k \in 1..len}
<1>1. /\ Len(chan[t]) \in Nat /\ Len(chan'[t]) = Len(chan[t]) + 1
      /\ \A i \in 1..Len(chan[t]) :
            chan'[t][i].len = chan[t][i].len /\ Text(t, i)' = Text(t, i)
      /\ chan'[t][Len(chan[t]) + 1].len = len
      /\ Text(t, Len(chan[t]))' = Cur(t)
  BY SendMail
<1>2. \A i \in 1..Len(chan[t]) : Body(t, i)' = Body(t, i)
  BY <1>1 DEF Body
<1>3. ASSUME NEW n, n = Len(chan[t]) + 1
      PROVE  Body(t, n)' = {Cur(t)[k] : k \in 1..len}
  <2>1. Text(t, n)' = Cur(t) /\ chan'[t][n].len = len
    BY <1>1, <1>3
  <2> QED
    BY <2>1 DEF Body
<1>4. Mail(t)' = UNION {Body(t, i)' : i \in 1..(Len(chan[t]) + 1)}
  BY <1>1 DEF Mail
<1>5. Mail(t)' = Mail(t) \cup {Cur(t)[k] : k \in 1..len}
  <2>1. ASSUME NEW r \in Mail(t)' PROVE r \in Mail(t) \cup {Cur(t)[k] : k \in 1..len}
    <3>1. PICK i \in 1..(Len(chan[t]) + 1) : r \in Body(t, i)'
      BY <1>4, <2>1
    <3>2. CASE i \in 1..Len(chan[t])
      BY <1>2, <3>1, <3>2 DEF Mail
    <3>3. CASE i = Len(chan[t]) + 1
      BY <1>3, <3>1, <3>3
    <3> QED
      BY <1>1, <3>2, <3>3, IndexSplit
  <2>2. ASSUME NEW r \in Mail(t) PROVE r \in Mail(t)'
    <3>1. PICK i \in 1..Len(chan[t]) : r \in Body(t, i)
      BY <2>2 DEF Mail
    <3>2. i \in 1..(Len(chan[t]) + 1) /\ r \in Body(t, i)'
      BY <1>1, <1>2, <3>1
    <3> QED
      BY <1>4, <3>2
  <2>3. ASSUME NEW r \in {Cur(t)[k] : k \in 1..len} PROVE r \in Mail(t)'
    <3>1. PICK n \in 1..(Len(chan[t]) + 1) : n = Len(chan[t]) + 1
      BY <1>1
    <3>2. r \in Body(t, n)'
      BY <1>3, <2>3, <3>1
    <3> QED
      BY <1>4, <3>2
  <2> QED
    BY <2>1, <2>2, <2>3
<1> QED
  BY <1>1, <1>2, <1>3, <1>5

\* and the delivery takes those of the first message away.
LEMMA DeliverBodies ==
    ASSUME Inv, LimitInv, [Next]_vars, NEW t \in Threads, Deliver(t), MailInv(t)
    PROVE  /\ Len(chan[t]) \in Nat \ {0} /\ Len(chan'[t]) = Len(chan[t]) - 1
           /\ \A i \in 1..Len(chan'[t]) : Body(t, i)' = Body(t, i + 1)
           /\ Mail(t) = Mail(t)' \cup Body(t, 1)
           /\ Mail(t)' \cap Body(t, 1) = {}
<1>1. /\ Len(chan[t]) \in Nat \ {0} /\ Len(chan'[t]) = Len(chan[t]) - 1
      /\ \A i \in 1..Len(chan'[t]) : /\ chan'[t][i].len = chan[t][i + 1].len
                                     /\ Text(t, i)' = Text(t, i + 1)
  BY DeliverMail
<1>2. \A i \in 1..Len(chan'[t]) : Body(t, i)' = Body(t, i + 1)
  BY <1>1 DEF Body
<1>3. ASSUME NEW r \in Mail(t)' PROVE r \in Mail(t) /\ r \notin Body(t, 1)
  <2>1. PICK i \in 1..Len(chan'[t]) : r \in Body(t, i)'
    BY <1>3 DEF Mail
  <2>2. i + 1 \in 1..Len(chan[t]) /\ 1 \in 1..Len(chan[t]) /\ i + 1 # 1
    BY <1>1, <2>1
  <2>3. r \in Body(t, i + 1)
    BY <1>2, <2>1
  <2> QED
    BY <2>2, <2>3 DEF Mail, MailInv
<1>4. ASSUME NEW r \in Mail(t), r \notin Body(t, 1) PROVE r \in Mail(t)'
  <2>1. PICK i \in 1..Len(chan[t]) : r \in Body(t, i)
    BY <1>4 DEF Mail
  <2>2. i # 1 /\ i - 1 \in 1..Len(chan'[t]) /\ (i - 1) + 1 = i
    BY <1>1, <1>4, <2>1
  <2>3. r \in Body(t, i - 1)'
    BY <1>2, <2>1, <2>2
  <2> QED
    BY <2>2, <2>3 DEF Mail
<1>5. Body(t, 1) \subseteq Mail(t)
  <2>1. 1 \in 1..Len(chan[t])
    BY <1>1
  <2> QED
    BY <2>1 DEF Mail
<1> QED
  BY <1>1, <1>2, <1>3, <1>4, <1>5

\* A step keeps the records in a thread's messages different.
LEMMA MailStep ==
    ASSUME Inv, LimitInv, OutputInv, [Next]_vars, NEW t \in Threads
    PROVE  MailInv(t)'
<1>0. /\ TypeOK /\ SenderTypes /\ MailInv(t) /\ Mail(t) \subseteq sent
      /\ buff_rec_cntr[t] \in 0..BuffRecs /\ buff_rec_cntr[t] \in Nat
  BY BoundsAssumption DEF Inv, TypeOK, SenderTypes, OutputInv, Apart
<1>1. ASSUME NEW len \in 0..BuffRecs, Isend(t, len), UNCHANGED buffVars,
             Distinct(Cur(t), 1..len), {Cur(t)[k] : k \in 1..len} \cap sent = {}
      PROVE  MailInv(t)'
  <2>1. /\ Len(chan[t]) \in Nat /\ Len(chan'[t]) = Len(chan[t]) + 1
        /\ \A i \in 1..Len(chan[t]) :
              /\ chan'[t][i].len = chan[t][i].len /\ Text(t, i)' = Text(t, i)
              /\ Body(t, i)' = Body(t, i) /\ Body(t, i) \subseteq sent
        /\ chan'[t][Len(chan[t]) + 1].len = len
        /\ Text(t, Len(chan[t]))' = Cur(t)
        /\ \A n : n = Len(chan[t]) + 1 => Body(t, n)' = {Cur(t)[k] : k \in 1..len}
    <3>1. \A i \in 1..Len(chan[t]) : Body(t, i) \subseteq sent
      BY <1>0 DEF Mail
    <3>2. /\ \A i \in 1..Len(chan[t]) : Body(t, i)' = Body(t, i)
          /\ \A n : n = Len(chan[t]) + 1 => Body(t, n)' = {Cur(t)[k] : k \in 1..len}
      BY <1>1, SendBodies
    <3>3. /\ Len(chan[t]) \in Nat /\ Len(chan'[t]) = Len(chan[t]) + 1
          /\ \A i \in 1..Len(chan[t]) :
                chan'[t][i].len = chan[t][i].len /\ Text(t, i)' = Text(t, i)
          /\ chan'[t][Len(chan[t]) + 1].len = len
          /\ Text(t, Len(chan[t]))' = Cur(t)
      BY <1>1, SendMail
    <3> QED
      BY <3>1, <3>2, <3>3
  <2>2. ASSUME NEW i \in 1..Len(chan'[t])
        PROVE  Distinct(Text(t, i)', 1..chan'[t][i].len)
    <3>1. CASE i \in 1..Len(chan[t])
      BY <1>0, <2>1, <3>1 DEF MailInv
    <3>2. CASE i = Len(chan[t]) + 1
      BY <1>1, <2>1, <3>2
    <3> QED
      BY <2>1, <3>1, <3>2, IndexSplit
  <2>3. ASSUME NEW i \in 1..Len(chan'[t]), NEW j \in 1..Len(chan'[t]), i # j
        PROVE  Body(t, i)' \cap Body(t, j)' = {}
    <3>1. i \in 1..Len(chan[t]) \/ i = Len(chan[t]) + 1
      BY <2>1, IndexSplit
    <3>2. j \in 1..Len(chan[t]) \/ j = Len(chan[t]) + 1
      BY <2>1, IndexSplit
    <3>3. CASE i \in 1..Len(chan[t]) /\ j \in 1..Len(chan[t])
      BY <1>0, <2>1, <2>3, <3>3 DEF MailInv
    <3>4. CASE i = Len(chan[t]) + 1 /\ j \in 1..Len(chan[t])
      BY <1>1, <2>1, <3>4
    <3>5. CASE i \in 1..Len(chan[t]) /\ j = Len(chan[t]) + 1
      BY <1>1, <2>1, <3>5
    <3> QED
      BY <2>3, <3>1, <3>2, <3>3, <3>4, <3>5
  <2> QED
    BY <2>2, <2>3 DEF MailInv, Distinct
<1>2. CASE SendFull(t) \/ SendRest(t)
  <2>1. pc[t] \in Reading \ SentOff
    BY <1>0, <1>2, SendEffect
  <2>2. Held(t) \cap sent = {}
    BY <1>0, <2>1, HeldUnsent
  <2>3. ASSUME NEW k \in 1..buff_rec_cntr[t], NEW l \in 1..buff_rec_cntr[t], k # l
        PROVE  Cur(t)[k] # Cur(t)[l]
    <3>1. /\ \A i \in 1..buff_rec_cntr[t] : Cur(t)[i][3] \in 1..Stored(t)
          /\ \A i, j \in 1..buff_rec_cntr[t] : i < j => Cur(t)[i][3] < Cur(t)[j][3]
      BY <2>1 DEF LimitInv, HeldInv
    <3>2. k < l \/ l < k
      BY <1>0, <2>3
    <3>3. Cur(t)[k][3] \in Int /\ Cur(t)[l][3] \in Int
      BY <3>1
    <3> QED
      BY <3>1, <3>2, <3>3
  <2>4. Isend(t, buff_rec_cntr[t]) /\ UNCHANGED buffVars
    BY <1>2 DEF SendFull, SendRest
  <2>5. Distinct(Cur(t), 1..buff_rec_cntr[t])
    BY <2>3 DEF Distinct
  <2> QED
    BY <1>0, <1>1, <2>2, <2>4, <2>5 DEF Held
<1>3. CASE StartTerminator(t)
  <2>1. Isend(t, 0) /\ UNCHANGED buffVars
    BY <1>3 DEF StartTerminator
  <2>2. 0 \in 0..BuffRecs /\ 1..0 = {}
    BY BoundsAssumption
  <2>3. Distinct(Cur(t), 1..0) /\ {Cur(t)[k] : k \in 1..0} \cap sent = {}
    BY <2>2 DEF Distinct
  <2> QED
    BY <1>1, <2>1, <2>2, <2>3
<1>4. CASE Deliver(t)
  <2>1. /\ Len(chan[t]) \in Nat \ {0} /\ Len(chan'[t]) = Len(chan[t]) - 1
        /\ \A i \in 1..Len(chan'[t]) : /\ chan'[t][i].len = chan[t][i + 1].len
                                       /\ Text(t, i)' = Text(t, i + 1)
                                       /\ Body(t, i)' = Body(t, i + 1)
    BY <1>0, <1>4, DeliverMail, DeliverBodies
  <2>2. \A i \in 1..Len(chan'[t]) : i + 1 \in 1..Len(chan[t])
    BY <2>1
  <2>3. ASSUME NEW i \in 1..Len(chan'[t]), NEW j \in 1..Len(chan'[t]), i # j
        PROVE  Body(t, i)' \cap Body(t, j)' = {}
    <3>1. i + 1 # j + 1
      BY <2>1, <2>3
    <3> QED
      BY <1>0, <2>1, <2>2, <3>1 DEF MailInv
  <2>4. \A i \in 1..Len(chan'[t]) : Distinct(Text(t, i)', 1..chan'[t][i].len)
    BY <1>0, <2>1, <2>2 DEF MailInv
  <2> QED
    BY <2>3, <2>4 DEF MailInv, Distinct
<1>5. CASE ~(SendFull(t) \/ SendRest(t) \/ StartTerminator(t) \/ Deliver(t))
  <2>1. /\ Len(chan'[t]) = Len(chan[t])
        /\ \A i \in 1..Len(chan[t]) :
              chan'[t][i].len = chan[t][i].len /\ Text(t, i)' = Text(t, i)
    BY <1>5, KeepMail
  <2>2. \A i \in 1..Len(chan[t]) : Body(t, i)' = Body(t, i)
    BY <2>1 DEF Body
  <2>3. \A i \in 1..Len(chan[t]) : Distinct(Text(t, i), 1..chan[t][i].len)'
    BY <1>0, <2>1 DEF MailInv, Distinct
  <2> QED
    BY <1>0, <2>1, <2>2, <2>3 DEF MailInv
<1> QED
  BY <1>2, <1>3, <1>4, <1>5

----------------------------------------------------------------------------
(* The way of the records: four kinds of steps.                            *)

\* A thread hands the records it holds to MPI.
Sends(t) ==
    /\ SendFull(t) \/ SendRest(t)
    /\ sent' = sent \cup Held(t)
    /\ Mail(t)' = Mail(t) \cup Held(t)
    /\ \A u \in Threads : u # t => Mail(u)' = Mail(u)
    /\ UNCHANGED masterVars

\* The first message of a thread arrives.
Arrival(t) ==
    /\ Deliver(t)
    /\ Mail(t) = Mail(t)' \cup Body(t, 1)
    /\ Mail(t)' \cap Body(t, 1) = {}
    /\ \A u \in Threads : u # t => Mail(u)' = Mail(u)
    /\ UNCHANGED sent

\* No message changes, and the master may take a step.
NoMail ==
    /\ \A u \in Threads : Mail(u)' = Mail(u)
    /\ UNCHANGED sent
    /\ MasterStep \/ UNCHANGED masterVars

\* Every step is of one of these kinds.
LEMMA RecordsMove ==
    ASSUME Inv, LimitInv, OutputInv, [Next]_vars
    PROVE  (\E t \in Threads : Sends(t) \/ Arrival(t)) \/ NoMail
<1>0. TypeOK /\ SenderTypes
  BY DEF Inv, TypeOK
<1>1. ASSUME NEW t \in Threads, SendFull(t) \/ SendRest(t)
      PROVE  Sends(t)
  <2>1. sent' = sent \cup Held(t)
    BY <1>0, <1>1, SendEffect
  <2>2. Isend(t, buff_rec_cntr[t]) /\ UNCHANGED buffVars /\ UNCHANGED masterVars
    BY <1>1 DEF SendFull, SendRest
  <2>3. Mail(t)' = Mail(t) \cup Held(t)
    <3>1. buff_rec_cntr[t] \in 0..BuffRecs
      BY <1>0 DEF SenderTypes
    <3> QED
      BY <2>2, <3>1, SendBodies DEF Held
  <2>4. \A u \in Threads : u # t => chan'[u] = chan[u]
    BY <1>0, <2>2 DEF Isend, SenderTypes
  <2> QED
    BY <1>1, <2>1, <2>2, <2>3, <2>4, ForeignMail DEF Sends
<1>2. ASSUME NEW t \in Threads, Deliver(t)
      PROVE  Arrival(t)
  <2>1. Mail(t) = Mail(t)' \cup Body(t, 1) /\ Mail(t)' \cap Body(t, 1) = {}
    BY <1>2, DeliverBodies DEF OutputInv
  <2>2. \A u \in Threads : u # t => chan'[u] = chan[u]
    BY <1>0, <1>2 DEF Deliver, SenderTypes
  <2>3. UNCHANGED sent
    BY <1>2 DEF Deliver, histVars
  <2> QED
    BY <1>2, <2>1, <2>2, <2>3, ForeignMail DEF Arrival
<1>3. ASSUME NEW t \in Threads, StartTerminator(t)
      PROVE  NoMail
  <2>1. Isend(t, 0) /\ UNCHANGED buffVars /\ UNCHANGED masterVars
    BY <1>3 DEF StartTerminator
  <2>2. 0 \in 0..BuffRecs /\ 1..0 = {}
    BY BoundsAssumption
  <2>3. Mail(t)' = Mail(t)
    <3>1. Mail(t)' = Mail(t) \cup {Cur(t)[k] : k \in 1..0}
      BY <2>1, <2>2, SendBodies
    <3>2. {Cur(t)[k] : k \in 1..0} = {}
      BY <2>2
    <3> QED
      BY <3>1, <3>2
  <2>4. \A u \in Threads : u # t => chan'[u] = chan[u]
    BY <1>0, <2>1 DEF Isend, SenderTypes
  <2>5. UNCHANGED sent
    BY <2>1, <2>2 DEF Isend
  <2> QED
    BY <2>1, <2>3, <2>4, <2>5, ForeignMail DEF NoMail
<1>4. CASE \A t \in Threads : ~(SendFull(t) \/ SendRest(t) \/ StartTerminator(t) \/ Deliver(t))
  <2>1. ASSUME NEW u \in Threads PROVE Mail(u)' = Mail(u)
    <3>1. /\ Len(chan'[u]) = Len(chan[u])
          /\ \A i \in 1..Len(chan[u]) :
                chan'[u][i].len = chan[u][i].len /\ Text(u, i)' = Text(u, i)
      BY <1>4, KeepMail
    <3> QED
      BY <3>1 DEF Mail, Body
  <2>2. UNCHANGED sent
    BY <1>0, <1>4, SentGrows
  <2>3. MasterStep \/ UNCHANGED masterVars
    <3>1. ASSUME NEW t \in Threads, ThreadStep(t) \/ Transfer(t)
          PROVE  UNCHANGED masterVars
      BY <3>1 DEF ThreadStep, FileStep, TakeFile, LeaveLoop, OpenFile, SendStep,
        ReadRecord, ReadEnd, BufferFull, SendFull, CountFull, CheckFull, SendRest,
        NoRest, CountRest, CheckRest, FinishFile, TermStep, StartTerminator,
        FinishTerminator, Transfer
    <3>2. CASE Finished \/ UNCHANGED vars
      BY <3>2 DEF Finished, vars
    <3> QED
      BY <1>4, <3>1, <3>2 DEF Next
  <2> QED
    BY <2>1, <2>2, <2>3 DEF NoMail
<1> QED
  BY <1>1, <1>2, <1>3, <1>4

\* What arrives is the message, and the message being processed is elsewhere.
LEMMA ArrivalEffect ==
    ASSUME Inv, RecvInv, NEW t \in Threads, Deliver(t)
    PROVE  /\ Arriving = {} /\ Arriving' = Body(t, 1)
           /\ Processing' = Processing
           /\ UNCHANGED <<mpc, rbuff_idx, rec_ptr, msg_end, rec_cntr, limit_exceeded, printed>>
           /\ rrequest' = "complete" /\ msg_size' = chan[t][1].len
           /\ \A k \in 1..msg_size' : rec_buff'[rbuff_idx][k] = Text(t, 1)[k]
           /\ rec_buff'[1 - rbuff_idx] = rec_buff[1 - rbuff_idx]
<1>0. /\ MasterTypes /\ rbuff_idx \in {0, 1} /\ rec_buff \in [{0, 1} -> Buffer]
      /\ chan[t] \in Seq(Msg) /\ chan[t] # <<>>
  BY DEF Inv, TypeOK, SenderTypes, MasterTypes, Deliver
<1>1. Head(chan[t]) = chan[t][1] /\ 1 \in 1..Len(chan[t]) /\ chan[t][1] \in Msg
  BY <1>0
<1>2. /\ UNCHANGED <<mpc, rbuff_idx, rec_ptr, msg_end, rec_cntr, limit_exceeded, printed>>
      /\ rrequest = "posted" /\ rrequest' = "complete" /\ msg_size' = chan[t][1].len
      /\ rec_buff' = [rec_buff EXCEPT ![rbuff_idx] =
                        [i \in 1..BuffRecs |->
                           IF i <= chan[t][1].len THEN Text(t, 1)[i] ELSE @[i]]]
  BY <1>1 DEF Deliver, Text
<1>3. chan[t][1].len \in 0..BuffRecs
  BY <1>1 DEF Msg
<1>4. \A k \in 1..msg_size' : rec_buff'[rbuff_idx][k] = Text(t, 1)[k]
  BY <1>0, <1>2, <1>3, BoundsAssumption
<1>5. rec_buff'[1 - rbuff_idx] = rec_buff[1 - rbuff_idx] /\ 1 - rbuff_idx \in {0, 1}
  BY <1>0, <1>2
<1>6. Arriving' = Body(t, 1)
  BY <1>2, <1>4 DEF Arriving, Body
<1>7. Processing' = Processing
  <2>1. CASE mpc = "process"
    <3>1. rec_ptr.buff = 1 - rbuff_idx
      BY <1>0, <2>1 DEF RecvInv, MasterTypes
    <3> QED
      BY <1>2, <1>5, <3>1 DEF Processing
  <2>2. CASE mpc # "process"
    BY <1>2, <2>2 DEF Processing
  <2> QED
    BY <2>1, <2>2
<1> QED
  BY <1>2, <1>4, <1>5, <1>6, <1>7 DEF Arriving

\* The master counts a terminator; starts with the message that has arrived, or
\* drops it when it has printed enough; or prints one record.
LEMMA MasterEffect ==
    ASSUME Inv, RecvInv, PrintInv, MasterStep
    PROVE  \/ /\ RecvTerminator
              /\ Arriving = {} /\ Arriving' = {} /\ Processing' = Processing
              /\ UNCHANGED <<printed, rec_cntr, limit_exceeded>>
           \/ /\ RecvData
              /\ Arriving' = {} /\ Processing = {}
              /\ Processing' = IF limit_exceeded THEN {} ELSE Arriving
              /\ UNCHANGED <<printed, rec_cntr, limit_exceeded>>
           \/ /\ ProcessRecord /\ ~limit_exceeded
              /\ Arriving' = Arriving
              /\ \E r \in Processing : /\ printed' = printed \cup {r}
                                       /\ Processing' \subseteq Processing \ {r}
                                       /\ ~limit_exceeded' => Processing' = Processing \ {r}
<1>0. MasterTypes /\ msg_size \in Nat
  BY BoundsAssumption DEF Inv, TypeOK, MasterTypes
<1>1. CASE RecvTerminator
  <2>1. /\ rrequest' # "complete" /\ msg_size = 0 /\ mpc = "wait" /\ mpc' # "process"
        /\ UNCHANGED <<printed, rec_cntr, limit_exceeded>>
    BY <1>1 DEF RecvTerminator
  <2>2. 1..0 = {}
    OBVIOUS
  <2> QED
    BY <1>1, <2>1, <2>2 DEF Arriving, Processing
<1>2. CASE RecvData
  <2>1. /\ rrequest = "complete" /\ rrequest' = "posted" /\ mpc = "wait"
        /\ mpc' = IF limit_exceeded THEN "wait" ELSE "process"
        /\ UNCHANGED <<rec_buff, printed, rec_cntr, limit_exceeded>>
        /\ rec_ptr' = [buff |-> rbuff_idx, pos |-> 1] /\ msg_end' = msg_size
    BY <1>2 DEF RecvData
  <2>2. rec_ptr'.buff = rbuff_idx /\ rec_ptr'.pos = 1
    BY <2>1
  <2>3. Arriving' = {} /\ Processing = {}
    BY <2>1 DEF Arriving, Processing
  <2>4. Processing' = IF limit_exceeded THEN {} ELSE Arriving
    BY <2>1, <2>2 DEF Arriving, Processing
  <2> QED
    BY <1>2, <2>1, <2>3, <2>4
<1>3. CASE ProcessRecord
  <2> DEFINE r == rec_buff[rec_ptr.buff][rec_ptr.pos]
  <2>1. /\ rec_ptr.pos \in 1..msg_end /\ rec_ptr.pos \in Nat /\ msg_end \in Nat
        /\ rec_ptr \in [buff: {0, 1}, pos: Nat] /\ mpc = "process"
    BY <1>0, <1>3, BoundsAssumption DEF ProcessRecord, Inv, ReceiverInv, MasterTypes
  <2>2. /\ printed' = printed \cup {r} /\ rec_ptr' = [rec_ptr EXCEPT !.pos = @ + 1]
        /\ mpc' = (IF limit_exceeded' \/ rec_ptr.pos = msg_end THEN "wait" ELSE "process")
        /\ UNCHANGED recvVars /\ UNCHANGED msg_end
    BY <1>3 DEF ProcessRecord
  <2>3. Arriving' = Arriving
    BY <2>2 DEF Arriving, recvVars
  <2>4. rec_ptr'.buff = rec_ptr.buff /\ rec_ptr'.pos = rec_ptr.pos + 1
    BY <2>1, <2>2
  <2>5. r \in Processing
    BY <2>1 DEF Processing
  <2>6. r \notin {rec_buff[rec_ptr.buff][k] : k \in (rec_ptr.pos + 1)..msg_end}
    <3>1. \A k \in (rec_ptr.pos + 1)..msg_end :
             k \in rec_ptr.pos..msg_end /\ rec_ptr.pos \in rec_ptr.pos..msg_end /\ k # rec_ptr.pos
      BY <2>1
    <3> QED
      BY <2>1, <3>1 DEF RecvInv, Distinct
  <2>7. Processing \ {r} = {rec_buff[rec_ptr.buff][k] : k \in (rec_ptr.pos + 1)..msg_end}
    <3>1. \A k \in rec_ptr.pos..msg_end : k = rec_ptr.pos \/ k \in (rec_ptr.pos + 1)..msg_end
      BY <2>1
    <3>2. \A k \in (rec_ptr.pos + 1)..msg_end : k \in rec_ptr.pos..msg_end
      BY <2>1
    <3> QED
      BY <2>1, <2>6, <3>1, <3>2 DEF Processing
  <2>8. CASE mpc' = "process"
    <3>1. Processing' = {rec_buff[rec_ptr.buff][k] : k \in (rec_ptr.pos + 1)..msg_end}
      BY <2>2, <2>4, <2>8 DEF Processing, recvVars
    <3> QED
      BY <1>3, <2>1, <2>2, <2>3, <2>5, <2>7, <3>1 DEF PrintInv
  <2>9. CASE mpc' = "wait"
    <3>1. Processing' = {}
      BY <2>9 DEF Processing
    <3>2. ~limit_exceeded' => Processing \ {r} = {}
      <4>1. ~limit_exceeded' => rec_ptr.pos = msg_end
        BY <2>2, <2>9
      <4>2. (msg_end + 1)..msg_end = {}
        BY <2>1
      <4> QED
        BY <2>7, <4>1, <4>2
    <3> QED
      BY <1>3, <2>1, <2>2, <2>3, <2>5, <3>1, <3>2 DEF PrintInv
  <2> QED
    BY <2>2, <2>8, <2>9
<1> QED
  BY <1>1, <1>2, <1>3 DEF MasterStep

----------------------------------------------------------------------------
(* A step keeps each part of the invariant.                                *)

\* What stays with the master when it takes no step and nothing arrives.
LEMMA MasterIdle ==
    ASSUME UNCHANGED masterVars
    PROVE  /\ Arriving' = Arriving /\ Processing' = Processing
           /\ UNCHANGED <<printed, rec_cntr, limit_exceeded, mpc>>
           /\ RecvInv => RecvInv'
  BY DEF masterVars, recvVars, Arriving, Processing, RecvInv, Distinct

\* No record is twice in a buffer of the master.
LEMMA RecvStep == Inv /\ LimitInv /\ OutputInv /\ [Next]_vars => RecvInv'
<1> SUFFICES ASSUME Inv, LimitInv, OutputInv, [Next]_vars PROVE RecvInv'
  OBVIOUS
<1>0. /\ RecvInv /\ MasterTypes /\ rbuff_idx \in {0, 1}
      /\ \A t \in Threads : MailInv(t)
  BY DEF Inv, TypeOK, MasterTypes, OutputInv
<1>1. ASSUME NEW t \in Threads, Deliver(t) PROVE RecvInv'
  <2>1. /\ UNCHANGED <<mpc, rbuff_idx, rec_ptr, msg_end>>
        /\ msg_size' = chan[t][1].len
        /\ \A k \in 1..msg_size' : rec_buff'[rbuff_idx][k] = Text(t, 1)[k]
        /\ rec_buff'[1 - rbuff_idx] = rec_buff[1 - rbuff_idx]
    BY <1>0, <1>1, ArrivalEffect
  <2>2. 1 \in 1..Len(chan[t])
    BY <1>1, DeliverMail
  <2>3. Distinct(Text(t, 1), 1..chan[t][1].len)
    BY <1>0, <2>2 DEF MailInv
  <2>4. Distinct(rec_buff'[rbuff_idx], 1..msg_size')
    BY <2>1, <2>3 DEF Distinct
  <2>5. mpc' = "process" => /\ Distinct(rec_buff'[rec_ptr.buff], rec_ptr.pos..msg_end)
                            /\ rec_ptr.buff # rbuff_idx
    <3> SUFFICES ASSUME mpc = "process"
                 PROVE  Distinct(rec_buff'[rec_ptr.buff], rec_ptr.pos..msg_end)
      BY <1>0, <2>1 DEF RecvInv
    <3>1. rec_ptr.buff = 1 - rbuff_idx
      BY <1>0 DEF RecvInv, MasterTypes
    <3> QED
      BY <1>0, <2>1, <3>1 DEF RecvInv
  <2> QED
    BY <2>1, <2>4, <2>5 DEF RecvInv, Distinct
<1>2. CASE RecvTerminator
  BY <1>2 DEF RecvTerminator, RecvInv
<1>3. CASE RecvData
  <2>1. /\ rrequest = "complete" /\ rrequest' = "posted"
        /\ UNCHANGED rec_buff /\ rbuff_idx' = 1 - rbuff_idx
        /\ rec_ptr' = [buff |-> rbuff_idx, pos |-> 1] /\ msg_end' = msg_size
    BY <1>3 DEF RecvData
  <2>2. rec_ptr'.buff = rbuff_idx /\ rec_ptr'.pos = 1 /\ rbuff_idx' # rbuff_idx
    BY <1>0, <2>1
  <2>3. Distinct(rec_buff[rbuff_idx], 1..msg_size)
    BY <1>0, <2>1 DEF RecvInv
  <2> QED
    BY <2>1, <2>2, <2>3 DEF RecvInv, Distinct
<1>4. CASE ProcessRecord
  <2>1. /\ UNCHANGED <<rec_buff, rbuff_idx, rrequest, msg_size, msg_end>>
        /\ mpc = "process" /\ rec_ptr' = [rec_ptr EXCEPT !.pos = @ + 1]
    BY <1>4 DEF ProcessRecord, recvVars
  <2>2. rec_ptr'.buff = rec_ptr.buff /\ rec_ptr'.pos = rec_ptr.pos + 1
    BY <1>0, <2>1 DEF MasterTypes
  <2>3. (rec_ptr.pos + 1)..msg_end \subseteq rec_ptr.pos..msg_end
    BY <1>0, BoundsAssumption DEF MasterTypes
  <2>4. Distinct(rec_buff[rec_ptr.buff], rec_ptr.pos..msg_end) /\ rec_ptr.buff # rbuff_idx
    BY <1>0, <2>1 DEF RecvInv
  <2> QED
    BY <1>0, <2>1, <2>2, <2>3, <2>4 DEF RecvInv, Distinct
<1>5. CASE UNCHANGED masterVars
  BY <1>0, <1>5, MasterIdle
<1> QED
  BY <1>1, <1>2, <1>3, <1>4, <1>5, RecordsMove DEF Sends, Arrival, NoMail, MasterStep

\* A record stays in one place, and what has been sent arrives.
LEMMA PlacesStep == Inv /\ LimitInv /\ OutputInv /\ [Next]_vars => Apart' /\ Arrives'
<1> SUFFICES ASSUME Inv, LimitInv, OutputInv, [Next]_vars PROVE Apart' /\ Arrives'
  OBVIOUS
<1>0. TypeOK /\ RecvInv /\ PrintInv /\ Apart /\ Arrives
  BY DEF Inv, OutputInv
<1>1. ASSUME NEW t \in Threads, Sends(t) PROVE Apart' /\ Arrives'
  <2>1. /\ sent' = sent \cup Held(t) /\ Mail(t)' = Mail(t) \cup Held(t)
        /\ \A u \in Threads : u # t => Mail(u)' = Mail(u)
        /\ Arriving' = Arriving /\ Processing' = Processing
        /\ UNCHANGED <<printed, limit_exceeded>>
    BY <1>1, MasterIdle DEF Sends
  <2>2. Held(t) \cap sent = {}
    BY <1>0, <1>1, SendEffect, HeldUnsent DEF Sends
  <2>3. Apart'
    BY <1>0, <2>1, <2>2 DEF Apart
  <2>4. Arrives'
    BY <1>0, <2>1 DEF Arrives
  <2> QED
    BY <2>3, <2>4
<1>2. ASSUME NEW t \in Threads, Arrival(t) PROVE Apart' /\ Arrives'
  <2>1. /\ Arriving = {} /\ Arriving' = Body(t, 1) /\ Processing' = Processing
        /\ UNCHANGED <<printed, limit_exceeded>>
    BY <1>0, <1>2, ArrivalEffect DEF Arrival
  <2>2. /\ Mail(t) = Mail(t)' \cup Body(t, 1) /\ Mail(t)' \cap Body(t, 1) = {}
        /\ \A u \in Threads : u # t => Mail(u)' = Mail(u)
        /\ UNCHANGED sent
    BY <1>2 DEF Arrival
  <2>3. Apart'
    BY <1>0, <2>1, <2>2 DEF Apart
  <2>4. Arrives'
    BY <1>0, <2>1, <2>2 DEF Arrives
  <2> QED
    BY <2>3, <2>4
<1>3. CASE NoMail /\ UNCHANGED masterVars
  <2>1. /\ \A u \in Threads : Mail(u)' = Mail(u)
        /\ Arriving' = Arriving /\ Processing' = Processing
        /\ UNCHANGED <<sent, printed, limit_exceeded>>
    BY <1>3, MasterIdle DEF NoMail
  <2> QED
    BY <1>0, <2>1 DEF Apart, Arrives
<1>4. CASE NoMail /\ MasterStep
  <2>1. (\A u \in Threads : Mail(u)' = Mail(u)) /\ UNCHANGED sent
    BY <1>4 DEF NoMail
  <2>2. CASE /\ Arriving = {} /\ Arriving' = {} /\ Processing' = Processing
             /\ UNCHANGED <<printed, rec_cntr, limit_exceeded>>
    BY <1>0, <2>1, <2>2 DEF Apart, Arrives
  <2>3. CASE /\ Arriving' = {} /\ Processing = {}
             /\ Processing' = IF limit_exceeded THEN {} ELSE Arriving
             /\ UNCHANGED <<printed, rec_cntr, limit_exceeded>>
    <3>1. Apart'
      BY <1>0, <2>1, <2>3 DEF Apart
    <3>2. Arrives'
      BY <1>0, <2>1, <2>3 DEF Arrives
    <3> QED
      BY <3>1, <3>2
  <2>4. ASSUME NEW r \in Processing, printed' = printed \cup {r}, ~limit_exceeded,
               Arriving' = Arriving, Processing' \subseteq Processing \ {r},
               ~limit_exceeded' => Processing' = Processing \ {r}
        PROVE  Apart' /\ Arrives'
    <3>1. Apart'
      BY <1>0, <2>1, <2>4 DEF Apart
    <3>2. Arrives'
      BY <1>0, <2>1, <2>4 DEF Arrives
    <3> QED
      BY <3>1, <3>2
  <2> QED
    BY <1>0, <1>4, <2>2, <2>3, <2>4, MasterEffect
<1> QED
  BY <1>1, <1>2, <1>3, <1>4, RecordsMove DEF NoMail

\* Every printed record is counted once, and printing stops at the limit.
LEMMA PrintStep == Inv /\ LimitInv /\ OutputInv /\ [Next]_vars => PrintInv'
<1> SUFFICES ASSUME Inv, LimitInv, OutputInv, [Next]_vars PROVE PrintInv'
  OBVIOUS
<1>0. /\ RecvInv /\ PrintInv /\ Apart /\ rec_cntr \in Nat /\ rec_limit \in Nat
      /\ UNCHANGED rec_limit /\ limit_exceeded \in BOOLEAN
  BY Frames, BoundsAssumption DEF Inv, TypeOK, MasterTypes, OutputInv, jobVars
<1>1. CASE UNCHANGED <<printed, rec_cntr, limit_exceeded>> /\ (mpc' = "process" => ~limit_exceeded)
  BY <1>0, <1>1 DEF PrintInv
<1>2. CASE ProcessRecord
  <2>1. PICK r \in Processing : printed' = printed \cup {r}
    <3>1. MasterStep /\ ~RecvTerminator /\ ~RecvData
      BY <1>2 DEF MasterStep, ProcessRecord, RecvTerminator, RecvData
    <3> QED
      BY <1>0, <3>1, MasterEffect
  <2>2. /\ mpc = "process" /\ rec_cntr' = rec_cntr + 1
        /\ limit_exceeded' = (rec_cntr + 1 = rec_limit)
        /\ mpc' = IF limit_exceeded' \/ rec_ptr.pos = msg_end THEN "wait" ELSE "process"
    BY <1>2 DEF ProcessRecord
  <2>3. r \notin printed
    BY <1>0, <2>1 DEF Apart
  <2>4. IsFiniteSet(printed') /\ Cardinality(printed') = rec_cntr'
    BY <1>0, <2>1, <2>2, <2>3, FS_AddElement DEF PrintInv
  <2>5. rec_limit = 0 \/ rec_cntr < rec_limit
    BY <1>0, <2>2 DEF PrintInv
  <2>6. rec_cntr + 1 = rec_limit <=> rec_limit # 0 /\ rec_cntr' = rec_limit
    BY <1>0, <2>2
  <2>7. limit_exceeded' <=> rec_limit # 0 /\ rec_cntr' = rec_limit
    BY <2>2, <2>6, Zenon
  <2>8. mpc' = "process" => ~limit_exceeded'
    BY <2>2
  <2>9. rec_limit = 0 \/ rec_cntr' <= rec_limit
    BY <1>0, <2>2, <2>5
  <2> QED
    BY <1>0, <2>4, <2>7, <2>8, <2>9 DEF PrintInv
<1>3. CASE RecvTerminator \/ RecvData
  BY <1>0, <1>1, <1>3 DEF RecvTerminator, RecvData
<1>4. ASSUME NEW t \in Threads, Deliver(t) PROVE PrintInv'
  BY <1>0, <1>1, <1>4 DEF Deliver, PrintInv
<1>5. CASE UNCHANGED masterVars
  BY <1>0, <1>1, <1>5 DEF masterVars, PrintInv
<1> QED
  BY <1>2, <1>3, <1>4, <1>5, RecordsMove DEF Sends, Arrival, NoMail, MasterStep

\* The membership of Expected.
LEMMA ExpectedRecord ==
    ASSUME TypeOK, NEW s \in Slaves, NEW f \in 1..Len(ff_paths[s]),
           NEW i \in 1..Len(ff_paths[s][f].recs)
    PROVE  <<s, f, i>> \in Expected <=>
              ff_paths[s][f].state # "unopenable" /\ ff_paths[s][f].recs[i]
<1>1. ff_paths[s][f].state # "unopenable" /\ ff_paths[s][f].recs[i] => <<s, f, i>> \in Expected
  BY DEF Expected
<1>2. ASSUME <<s, f, i>> \in Expected
      PROVE  ff_paths[s][f].state # "unopenable" /\ ff_paths[s][f].recs[i]
  <2>1. PICK s1 \in Slaves : \E f1 \in 1..Len(ff_paths[s1]) :
           \E i1 \in {k \in 1..Len(ff_paths[s1][f1].recs) :
                        /\ ff_paths[s1][f1].state # "unopenable"
                        /\ ff_paths[s1][f1].recs[k]} : <<s, f, i>> = <<s1, f1, i1>>
    BY <1>2 DEF Expected
  <2> QED
    BY <2>1
<1> QED
  BY <1>1, <1>2

\* What a record the query asks for looks like.
LEMMA ExpectedForm ==
    ASSUME TypeOK, NEW r \in Expected
    PROVE  /\ r = <<r[1], r[2], r[3]>> /\ r[1] \in Slaves
           /\ r[2] \in 1..Len(ff_paths[r[1]])
           /\ r[3] \in 1..Len(ff_paths[r[1]][r[2]].recs)
           /\ ff_paths[r[1]][r[2]] \in FlowFile
           /\ ff_paths[r[1]][r[2]].state # "unopenable"
           /\ ff_paths[r[1]][r[2]].recs[r[3]]
<1> DEFINE Of(s, f) == {<<s, f, i>> : i \in {k \in 1..Len(ff_paths[s][f].recs) :
                                               /\ ff_paths[s][f].state # "unopenable"
                                               /\ ff_paths[s][f].recs[k]}}
<1>1. PICK s \in Slaves : r \in UNION {Of(s, f) : f \in 1..Len(ff_paths[s])}
  BY Zenon DEF Expected
<1>2. PICK f \in 1..Len(ff_paths[s]) : r \in Of(s, f)
  BY <1>1
<1>3. PICK i \in 1..Len(ff_paths[s][f].recs) :
         /\ ff_paths[s][f].state # "unopenable"
         /\ ff_paths[s][f].recs[i]
         /\ r = <<s, f, i>>
  BY <1>2
<1>4. ff_paths[s] \in Seq(FlowFile)
  BY FlowFilesAssumption DEF TypeOK
<1>5. ff_paths[s][f] \in FlowFile
  BY <1>4
<1> QED
  BY <1>3, <1>5

\* Only matching records are sent.
LEMMA SentExpectedStep == Inv /\ LimitInv /\ SentExpected /\ [Next]_vars => SentExpected'
<1> SUFFICES ASSUME Inv, LimitInv, SentExpected, [Next]_vars PROVE SentExpected'
  OBVIOUS
<1>0. TypeOK /\ UNCHANGED ff_paths
  BY Frames DEF Inv, jobVars
<1>1. Expected' = Expected
  BY <1>0 DEF Expected
<1>2. ASSUME NEW t \in Threads, SendFull(t) \/ SendRest(t), NEW r \in Held(t)
      PROVE  r \in Expected
  <2>1. pc[t] \in Reading /\ pc[t] \in InFile
    BY <1>0, <1>2, SendEffect DEF Reading, InFile
  <2>2. /\ r = <<SlaveOf[t], path[t], r[3]>> /\ r[3] \in 1..Stored(t)
        /\ File(t).recs[r[3]]
    BY <1>0, <1>2, <2>1, HeldFacts
  <2>3. /\ SlaveOf[t] \in Slaves /\ path[t] \in 1..Len(ff_paths[SlaveOf[t]])
        /\ File(t).state = "ok" /\ off[t] <= Len(File(t).recs)
        /\ off[t] \in Nat /\ Len(File(t).recs) \in Nat
    BY <1>0, <2>1, ThreadFacts DEF LimitInv, PathInv, FileInv
  <2>4. r[3] \in 1..Len(File(t).recs)
    BY <2>2, <2>3 DEF Stored
  <2> QED
    BY <1>0, <2>2, <2>3, <2>4, ExpectedRecord DEF File
<1> QED
  BY <1>0, <1>1, <1>2, SentGrows DEF SentExpected

\* The shared flag stands for the limit.
LEMMA FlagMeans ==
    ASSUME TypeOK, LimitInv, [Next]_vars, NEW t \in Threads,
           rec_limit_reached[SlaveOf[t]] \/ LimitReached(SlaveOf[t])
    PROVE  LimitReached(SlaveOf[t])'
  BY ThreadFacts, LimitStable DEF LimitInv, FlagInv

\* A record that a thread was going to send is still going to be, or has been
\* sent, or is not needed any more.
LEMMA PendingStep ==
    ASSUME Inv, LimitInv, [Next]_vars, NEW r \in Expected, NEW t \in Threads, Pending(t, r)
    PROVE  LimitReached(r[1])' \/ r \in sent' \/ Pending(t, r)'
<1>0. /\ TypeOK /\ SlaveOf[t] = r[1] /\ path[t] = r[2] /\ r[1] \in Slaves
      /\ r = <<r[1], r[2], r[3]>>
      /\ File(t) = ff_paths[r[1]][r[2]] /\ File(t) \in FlowFile
      /\ r[3] \in 1..Len(File(t).recs) /\ File(t).recs[r[3]]
      /\ File(t).state # "unopenable"
  BY ExpectedForm DEF Inv, Pending, File
<1>1. /\ pc[t] \in InFile
      /\ \/ pc[t] = "open"
         \/ pc[t] \in Reading /\ (r[3] > Stored(t) \/ r \in Held(t))
  BY DEF Pending, Reading, InFile
<1>2. /\ off[t] \in Nat /\ Len(File(t).recs) \in Nat /\ r[3] \in Nat
      /\ buff_rec_cntr[t] \in Nat
  BY <1>0, <1>1, ThreadFacts, BoundsAssumption
<1>3. sent \subseteq sent'
  BY <1>0, SentGrows
<1>4. CASE Quiet(t)
  <2>1. /\ path'[t] = path[t] /\ off'[t] = off[t] /\ Held(t)' = Held(t)
        /\ pc'[t] \in Reading => pc[t] \in Reading /\ Stored(t)' = Stored(t)
    BY <1>0, <1>4, QuietEffect
  <2>2. CASE pc'[t] \in Reading
    <3>1. pc[t] \in Reading /\ pc[t] # "open"
      BY <2>1, <2>2 DEF Reading
    <3> QED
      BY <1>0, <1>1, <2>1, <2>2, <3>1 DEF Pending
  <2>3. CASE pc'[t] = pc[t]
    BY <1>0, <1>1, <2>1, <2>2, <2>3 DEF Pending
  <2>4. CASE NoRest(t)
    <3>1. pc[t] = "rest" /\ pc[t] \in Reading /\ pc[t] \notin Overdue /\ buff_rec_cntr[t] = 0
      BY <1>4, <2>4 DEF NoRest, Reading, Overdue
    <3>2. Held(t) = {} /\ Stored(t) = off[t]
      BY <3>1 DEF Held, Stored
    <3>3. LimitReached(SlaveOf[t]) \/ off[t] = Len(File(t).recs)
      BY <3>1 DEF LimitInv, RestInv
    <3> QED
      BY <1>0, <1>1, <1>2, <3>1, <3>2, <3>3, LimitStable
  <2>5. CASE CountRest(t)
    <3>1. pc[t] = "countRest" /\ pc[t] \in Reading /\ pc[t] \notin Overdue /\ pc[t] \in SentOff
      BY <1>4, <2>5 DEF CountRest, Reading, Overdue, SentOff
    <3>2. Held(t) \subseteq sent /\ Stored(t) = off[t]
      BY <3>1 DEF LimitInv, FileSentInv, Stored
    <3>3. LimitReached(SlaveOf[t]) \/ off[t] = Len(File(t).recs)
      BY <3>1 DEF LimitInv, RestInv
    <3> QED
      BY <1>0, <1>1, <1>2, <1>3, <3>1, <3>2, <3>3, LimitStable
  <2>6. CASE ReadEnd(t) \/ SendFull(t) \/ SendRest(t)
    <3>1. pc'[t] \in Reading
      BY <1>0, <2>6 DEF ReadEnd, SendFull, SendRest, GoTo, TypeOK, FileTypes, Reading
    <3> QED
      BY <2>2, <3>1
  <2>7. CASE LeaveLoop(t) \/ CheckRest(t) \/ FinishFile(t) \/ TermStep(t)
    BY <1>1, <2>7 DEF LeaveLoop, CheckRest, FinishFile, TermStep, StartTerminator,
      FinishTerminator, Reading
  <2> QED
    BY <1>4, <2>3, <2>4, <2>5, <2>6, <2>7 DEF Quiet, FileState
<1>5. CASE TakeFile(t)
  BY <1>1, <1>5 DEF TakeFile, Reading
<1>6. CASE OpenFile(t)
  <2>1. /\ path'[t] = path[t]
        /\ \/ pc'[t] = "for"
           \/ pc'[t] = "read" /\ off'[t] = 0 /\ buff_rec_cntr'[t] = 0
    BY <1>0, <1>6, OpenFileEffect
  <2>2. CASE pc'[t] = "read" /\ off'[t] = 0
    <3>1. Stored(t)' = 0 /\ pc'[t] \in Reading
      BY <2>2 DEF Stored, Overdue, Reading
    <3> QED
      BY <1>0, <2>1, <3>1 DEF Pending
  <2>3. CASE pc'[t] = "for"
    <3>1. File(t).state # "ok" \/ rec_limit_reached[SlaveOf[t]]
      BY <1>0, <1>6, <2>3 DEF OpenFile, GoTo, TypeOK, FileTypes
    <3>2. File(t).state = "ok"
      BY <1>0 DEF FlowFile
    <3> QED
      BY <1>0, <3>1, <3>2, FlagMeans
  <2> QED
    BY <2>1, <2>2, <2>3
<1>7. CASE ReadRecord(t)
  <2>1. /\ path'[t] = path[t] /\ pc[t] = "read" /\ off'[t] = off[t] + 1
        /\ buff_idx'[t] = buff_idx[t]
    BY <1>0, <1>7, ReadRecordEffect
  <2>2. Stored(t) = off[t]
    BY <2>1 DEF Stored, Overdue
  <2>3. CASE /\ ~File(t).recs[off[t] + 1] /\ pc'[t] = "read"
             /\ buff'[t] = buff[t] /\ buff_rec_cntr'[t] = buff_rec_cntr[t]
    <3>1. Held(t)' = Held(t)
      BY <2>1, <2>3 DEF Held, Cur
    <3>2. Stored(t)' = off[t] + 1 /\ pc'[t] \in Reading
      BY <2>1, <2>3 DEF Stored, Overdue, Reading
    <3>3. r[3] > off[t] => r[3] > off[t] + 1
      BY <1>0, <1>2, <2>3
    <3> QED
      BY <1>0, <1>1, <2>1, <2>2, <3>1, <3>2, <3>3 DEF Pending
  <2>4. CASE /\ pc'[t] = "read" /\ buff_rec_cntr'[t] = buff_rec_cntr[t] + 1
             /\ \A i \in 1..buff_rec_cntr[t] : Cur(t)'[i] = Cur(t)[i]
             /\ Cur(t)'[buff_rec_cntr[t] + 1] = <<SlaveOf[t], path[t], off[t] + 1>>
    <3>1. Held(t) \subseteq Held(t)' /\ <<SlaveOf[t], path[t], off[t] + 1>> \in Held(t)'
      BY <1>2, <2>4 DEF Held
    <3>2. Stored(t)' = off[t] + 1 /\ pc'[t] \in Reading
      BY <2>1, <2>4 DEF Stored, Overdue, Reading
    <3>3. r[3] > off[t] => r[3] > off[t] + 1 \/ r[3] = off[t] + 1
      BY <1>2
    <3> QED
      BY <1>0, <1>1, <2>1, <2>2, <3>1, <3>2, <3>3 DEF Pending
  <2>5. CASE /\ pc'[t] = "full"
             /\ buff'[t] = buff[t] /\ buff_rec_cntr'[t] = buff_rec_cntr[t]
    <3>1. Held(t)' = Held(t)
      BY <2>1, <2>5 DEF Held, Cur
    <3>2. Stored(t)' = off[t] /\ pc'[t] \in Reading
      BY <1>2, <2>1, <2>5 DEF Stored, Overdue, Reading
    <3> QED
      BY <1>0, <1>1, <2>1, <2>2, <3>1, <3>2 DEF Pending
  <2> QED
    BY <1>0, <1>7, <2>3, <2>4, <2>5, ReadRecordEffect
<1>8. CASE BufferFull(t)
  <2>1. /\ path'[t] = path[t] /\ off'[t] = off[t] /\ buff'[t] = buff[t]
        /\ buff_idx'[t] = buff_idx[t] /\ pc[t] = "full"
        /\ \/ rec_limit_reached[SlaveOf[t]]
           \/ pc'[t] = "isend" /\ buff_rec_cntr'[t] = buff_rec_cntr[t]
    BY <1>0, <1>8, BufferFullEffect
  <2>2. CASE rec_limit_reached[SlaveOf[t]]
    BY <1>0, <2>2, FlagMeans
  <2>3. CASE pc'[t] = "isend" /\ buff_rec_cntr'[t] = buff_rec_cntr[t]
    <3>1. Held(t)' = Held(t) /\ Stored(t)' = Stored(t) /\ pc'[t] \in Reading
      BY <2>1, <2>3 DEF Held, Cur, Stored, Overdue, Reading
    <3> QED
      BY <1>0, <1>1, <2>1, <3>1 DEF Pending
  <2> QED
    BY <2>1, <2>2, <2>3
<1>9. CASE CountFull(t)
  <2>1. /\ path'[t] = path[t] /\ off'[t] = off[t] /\ pc[t] = "count" /\ pc'[t] = "check"
    BY <1>0, <1>9, CountFullEffect
  <2>2. Held(t) \subseteq sent
    BY <2>1 DEF LimitInv, FileSentInv, SentOff
  <2>3. Stored(t)' = Stored(t) /\ pc'[t] \in Reading
    BY <2>1 DEF Stored, Overdue, Reading
  <2> QED
    BY <1>0, <1>1, <1>3, <2>1, <2>2, <2>3 DEF Pending
<1>10. CASE CheckFull(t)
  <2>1. /\ path'[t] = path[t] /\ off'[t] = off[t] /\ pc[t] = "check" /\ buff_rec_cntr[t] = 0
        /\ \/ LimitReached(SlaveOf[t])
           \/ /\ pc'[t] = "read" /\ buff_rec_cntr'[t] = 1
              /\ Cur(t)'[1] = <<SlaveOf[t], path[t], off[t]>>
    BY <1>10, CheckFullEffect
  <2>2. CASE LimitReached(SlaveOf[t])
    BY <1>0, <2>2, LimitStable
  <2>3. CASE /\ pc'[t] = "read" /\ buff_rec_cntr'[t] = 1
             /\ Cur(t)'[1] = <<SlaveOf[t], path[t], off[t]>>
    <3>1. Held(t) = {} /\ Stored(t) = off[t] - 1
      BY <2>1 DEF Held, Stored, Overdue
    <3>2. <<SlaveOf[t], path[t], off[t]>> \in Held(t)' /\ Stored(t)' = off[t] /\ pc'[t] \in Reading
      BY <2>1, <2>3 DEF Held, Stored, Overdue, Reading
    <3>3. r[3] > off[t] - 1 => r[3] > off[t] \/ r[3] = off[t]
      BY <1>2
    <3> QED
      BY <1>0, <1>1, <2>1, <3>1, <3>2, <3>3 DEF Pending
  <2> QED
    BY <2>1, <2>2, <2>3
<1> QED
  BY <1>0, <1>4, <1>5, <1>6, <1>7, <1>8, <1>9, <1>10, StepKinds

\* No matching record is missed.
LEMMA NoneMissedStep == Inv /\ LimitInv /\ NoneMissed /\ [Next]_vars => NoneMissed'
<1> SUFFICES ASSUME Inv, LimitInv, NoneMissed, [Next]_vars PROVE NoneMissed'
  OBVIOUS
<1>0. TypeOK /\ UNCHANGED ff_paths
  BY Frames DEF Inv, jobVars
<1>1. Expected' = Expected
  BY <1>0 DEF Expected
<1> SUFFICES ASSUME NEW r \in Expected, r[2] < next_path'[r[1]]
             PROVE  LimitReached(r[1])' \/ r \in sent' \/ \E t \in Threads : Pending(t, r)'
  BY <1>1 DEF NoneMissed
<1>2. r[1] \in Slaves /\ r[2] \in Nat /\ next_path[r[1]] \in Nat
  BY <1>0, ExpectedForm DEF TypeOK, SlaveTypes
<1>3. CASE r[2] < next_path[r[1]]
  <2>1. CASE LimitReached(r[1])
    BY <1>0, <1>2, <2>1, LimitStable
  <2>2. CASE r \in sent
    BY <1>0, <2>2, SentGrows
  <2>3. ASSUME NEW t \in Threads, Pending(t, r)
        PROVE  LimitReached(r[1])' \/ r \in sent' \/ Pending(t, r)'
    BY <2>3, PendingStep
  <2> QED
    BY <1>3, <2>1, <2>2, <2>3 DEF NoneMissed
<1>4. CASE ~(r[2] < next_path[r[1]])
  <2>1. PICK t \in Threads : TakeFile(t)
    BY <1>0, <1>4, PathFrame
  <2>2. /\ path'[t] = next_path[SlaveOf[t]] /\ pc'[t] = "open"
        /\ next_path'[SlaveOf[t]] = next_path[SlaveOf[t]] + 1
        /\ \A s \in Slaves : s # SlaveOf[t] => next_path'[s] = next_path[s]
    BY <1>0, <2>1, TakeFileEffect, TakeFileLocal
  <2>3. SlaveOf[t] = r[1] /\ path'[t] = r[2]
    BY <1>2, <1>4, <2>2
  <2>4. Pending(t, r)'
    BY <2>2, <2>3 DEF Pending
  <2> QED
    BY <2>4
<1> QED
  BY <1>3, <1>4

\* A thread leaves the loop over the files when none is left.
LEMMA AllTakenStep == Inv /\ AllTaken /\ [Next]_vars => AllTaken'
<1> SUFFICES ASSUME Inv, AllTaken, [Next]_vars, NEW t \in Threads,
                    pc'[t] \in {"post", "term", "done"}
             PROVE  next_path'[SlaveOf[t]] > Len(ff_paths'[SlaveOf[t]])
  BY DEF AllTaken
<1>0. /\ TypeOK /\ UNCHANGED ff_paths /\ SlaveOf[t] \in Slaves
      /\ ff_paths[SlaveOf[t]] \in Seq(FlowFile)
  BY Frames, ThreadsAssumption, FlowFilesAssumption DEF Inv, TypeOK, jobVars
<1>1. /\ next_path[SlaveOf[t]] \in Nat /\ next_path'[SlaveOf[t]] \in Nat
      /\ next_path[SlaveOf[t]] <= next_path'[SlaveOf[t]]
      /\ Len(ff_paths[SlaveOf[t]]) \in Nat
  BY <1>0, NextPathGrows
<1>2. pc[t] \in {"post", "term", "done"} \/ LeaveLoop(t)
  <2>1. UNCHANGED FileState(t) \/ ThreadStep(t)
    BY <1>0, OwnFile
  <2> QED
    BY <1>0, <2>1 DEF FileState, ThreadStep, FileStep, TakeFile, OpenFile, SendStep,
      ReadRecord, ReadEnd, BufferFull, SendFull, CountFull, CheckFull, SendRest, NoRest,
      CountRest, CheckRest, FinishFile, TermStep, StartTerminator, FinishTerminator,
      GoTo, TypeOK, FileTypes
<1>3. CASE pc[t] \in {"post", "term", "done"}
  BY <1>0, <1>1, <1>3 DEF AllTaken
<1>4. CASE LeaveLoop(t)
  BY <1>0, <1>1, <1>4 DEF LeaveLoop
<1> QED
  BY <1>2, <1>3, <1>4

----------------------------------------------------------------------------

\* Every step keeps the invariant.
LEMMA OutputStep == Inv /\ LimitInv /\ OutputInv /\ [Next]_vars => OutputInv'
<1> SUFFICES ASSUME Inv, LimitInv, OutputInv, [Next]_vars PROVE OutputInv'
  OBVIOUS
<1>1. \A t \in Threads : MailInv(t)'
  BY MailStep
<1>2. SentExpected' /\ NoneMissed' /\ AllTaken'
  BY SentExpectedStep, NoneMissedStep, AllTakenStep DEF OutputInv
<1> QED
  BY <1>1, <1>2, RecvStep, PlacesStep, PrintStep DEF OutputInv

\* The inductive invariant holds throughout.
LEMMA OutputInvariance == Spec => []OutputInv
  BY OutputInit, OutputStep, LimitInvariance, Invariance, PTL DEF Spec

----------------------------------------------------------------------------
(* The summary.  The records of a slave that have been sent can be shared  *)
(* out between its counter and the private counters of the threads that    *)
(* are still in the loop over the files.                                   *)

InLoop(t) == pc[t] \notin {"post", "term", "done"}

Shares(s, g, own) ==
    /\ IsFiniteSet(g) /\ Cardinality(g) <= summ[s]
    /\ \A t \in Threads : IsFiniteSet(own[t]) /\ Cardinality(own[t]) <= thread_summ[t]
    /\ \A t \in Threads : pc[t] \in Reading => Held(t) \subseteq own[t]
    /\ \A r \in sent : r[1] = s =>
          r \in g \/ \E t \in ThreadsOf(s) : InLoop(t) /\ r \in own[t]

SummaryInv ==
    \A s \in Slaves : \E g : \E own \in [Threads -> SUBSET Rec] : Shares(s, g, own)

\* Initially there is nothing to share.
LEMMA SummaryInit == Init => SummaryInv
<1> SUFFICES ASSUME Init, NEW s \in Slaves
             PROVE  \E g : \E own \in [Threads -> SUBSET Rec] : Shares(s, g, own)
  BY DEF SummaryInv
<1> DEFINE own == [t \in Threads |-> {}]
<1>1. own \in [Threads -> SUBSET Rec]
  OBVIOUS
<1>2. Shares(s, {}, own)
  BY FS_EmptySet DEF Init, Shares, Reading
<1> QED
  BY <1>1, <1>2

\* What a step does to the private counters and to the records in the buffers:
\* a record is stored and counted, or nothing is added to a buffer.
LEMMA StoreStep ==
    ASSUME Inv, LimitInv, [Next]_vars, NEW t \in Threads
    PROVE  \/ /\ thread_summ'[t] = thread_summ[t]
              /\ pc'[t] \in Reading => \/ pc[t] \in Reading /\ Held(t)' \subseteq Held(t)
                                       \/ Held(t)' = {}
           \/ /\ thread_summ'[t] = thread_summ[t] + 1
              /\ pc[t] \in Reading
              /\ \E rec \in Rec : Held(t)' \subseteq Held(t) \cup {rec}
<1>0. /\ TypeOK /\ thread_summ \in [Threads -> Nat] /\ SlaveOf[t] \in Slaves
      /\ path[t] \in Nat /\ off[t] \in Nat /\ buff_rec_cntr[t] \in Nat
  BY ThreadFacts, BoundsAssumption DEF Inv, TypeOK, FileTypes
<1>1. CASE Quiet(t)
  <2>1. thread_summ'[t] = thread_summ[t]
    <3>1. CASE ThreadStep(t)
      <4>1. ~ReadRecord(t) /\ ~CheckFull(t) => UNCHANGED thread_summ
        BY <3>1 DEF ThreadStep, FileStep, TakeFile, LeaveLoop, OpenFile, SendStep,
          ReadEnd, BufferFull, SendFull, CountFull, SendRest, NoRest, CountRest,
          CheckRest, FinishFile, TermStep, StartTerminator, FinishTerminator
      <4>2. CASE ReadRecord(t)
        <5>1. off'[t] = off[t] + 1
          BY <1>0, <4>2, ReadRecordEffect
        <5>2. off'[t] = off[t]
          BY <1>0, <1>1, QuietEffect
        <5> QED
          BY <1>0, <5>1, <5>2
      <4>3. CASE CheckFull(t)
        <5>1. buff_rec_cntr[t] = 0 /\ buff_rec_cntr'[t] = buff_rec_cntr[t]
          BY <1>0, <1>1, <4>3, CheckFullEffect, QuietEffect
        <5>2. WriteRecord(t, <<SlaveOf[t], path[t], off[t]>>) => buff_rec_cntr'[t] # 0
          BY <1>0, <5>1, ThreadFacts DEF WriteRecord, TypeOK, SenderTypes
        <5> QED
          BY <4>3, <5>1, <5>2 DEF CheckFull
      <4> QED
        BY <4>1, <4>2, <4>3
    <3>2. ASSUME NEW u \in Threads, u # t, ThreadStep(u)
          PROVE  thread_summ'[t] = thread_summ[t]
      BY <1>0, <3>2 DEF ThreadStep, FileStep, TakeFile, LeaveLoop, OpenFile, SendStep,
        ReadRecord, ReadEnd, BufferFull, SendFull, CountFull, CheckFull, SendRest,
        NoRest, CountRest, CheckRest, FinishFile, TermStep, StartTerminator,
        FinishTerminator, WriteRecord
    <3> QED
      BY <3>1, <3>2, Frames
  <2> QED
    BY <1>0, <1>1, <2>1, QuietEffect
<1>2. CASE TakeFile(t)
  <2>1. pc'[t] = "open" /\ UNCHANGED thread_summ
    BY <1>0, <1>2, TakeFileLocal DEF TakeFile
  <2> QED
    BY <2>1 DEF Reading
<1>3. CASE OpenFile(t)
  <2>1. pc'[t] = "for" \/ buff_rec_cntr'[t] = 0
    BY <1>0, <1>3, OpenFileEffect
  <2>2. UNCHANGED thread_summ
    BY <1>3 DEF OpenFile
  <2> QED
    BY <2>1, <2>2 DEF Reading, Held
<1>4. CASE ReadRecord(t)
  <2>1. pc[t] \in Reading /\ buff_idx'[t] = buff_idx[t]
    BY <1>0, <1>4, ReadRecordEffect DEF Reading
  <2>2. CASE buff'[t] = buff[t] /\ buff_rec_cntr'[t] = buff_rec_cntr[t]
    <3>1. Held(t)' = Held(t)
      BY <2>1, <2>2 DEF Held, Cur
    <3>2. thread_summ'[t] = thread_summ[t]
      BY <1>0, <1>4, <2>2 DEF ReadRecord, WriteRecord, TypeOK, SenderTypes
    <3> QED
      BY <2>1, <3>1, <3>2
  <2>3. CASE /\ buff_rec_cntr'[t] = buff_rec_cntr[t] + 1
             /\ \A i \in 1..buff_rec_cntr[t] : Cur(t)'[i] = Cur(t)[i]
             /\ Cur(t)'[buff_rec_cntr[t] + 1] = <<SlaveOf[t], path[t], off[t] + 1>>
    <3>1. Held(t)' \subseteq Held(t) \cup {<<SlaveOf[t], path[t], off[t] + 1>>}
      <4> SUFFICES ASSUME NEW i \in 1..(buff_rec_cntr[t] + 1)
                   PROVE  Cur(t)'[i] \in Held(t) \cup {<<SlaveOf[t], path[t], off[t] + 1>>}
        BY <2>3 DEF Held
      <4>1. i \in 1..buff_rec_cntr[t] \/ i = buff_rec_cntr[t] + 1
        BY <1>0, IndexSplit
      <4> QED
        BY <2>3, <4>1 DEF Held
    <3>2. thread_summ'[t] = thread_summ[t] + 1
      <4>1. UNCHANGED <<buff, buff_rec_cntr, thread_summ>> => FALSE
        BY <1>0, <2>3
      <4>2. thread_summ' = [thread_summ EXCEPT ![t] = @ + 1]
        BY <1>4, <4>1 DEF ReadRecord, WriteRecord
      <4> QED
        BY <1>0, <4>2
    <3>3. <<SlaveOf[t], path[t], off[t] + 1>> \in Rec
      BY <1>0 DEF Rec
    <3> QED
      BY <2>1, <3>1, <3>2, <3>3
  <2> QED
    BY <1>0, <1>4, <2>2, <2>3, ReadRecordEffect
<1>5. CASE BufferFull(t)
  <2>1. /\ buff'[t] = buff[t] /\ buff_idx'[t] = buff_idx[t] /\ pc[t] = "full"
        /\ buff_rec_cntr'[t] = 0 \/ buff_rec_cntr'[t] = buff_rec_cntr[t]
    BY <1>0, <1>5, BufferFullEffect
  <2>2. UNCHANGED thread_summ
    BY <1>5 DEF BufferFull
  <2> QED
    BY <2>1, <2>2 DEF Reading, Held, Cur
<1>6. CASE CountFull(t)
  <2>1. buff_rec_cntr'[t] = 0
    BY <1>0, <1>6, CountFullEffect
  <2>2. UNCHANGED thread_summ
    BY <1>6 DEF CountFull
  <2> QED
    BY <2>1, <2>2 DEF Held
<1>7. CASE CheckFull(t)
  <2>1. pc[t] = "check" /\ pc[t] \in Reading
    BY <1>7 DEF CheckFull, Reading
  <2>2. CASE buff_rec_cntr'[t] = 0
    <3>1. thread_summ'[t] = thread_summ[t]
      BY <1>0, <1>7, <2>2, ThreadFacts DEF CheckFull, WriteRecord, TypeOK, SenderTypes
    <3> QED
      BY <2>2, <3>1 DEF Held
  <2>3. CASE buff_rec_cntr'[t] = 1 /\ Cur(t)'[1] = <<SlaveOf[t], path[t], off[t]>>
    <3>1. Held(t)' \subseteq Held(t) \cup {<<SlaveOf[t], path[t], off[t]>>}
      BY <2>3 DEF Held
    <3>2. thread_summ'[t] = thread_summ[t] + 1
      <4>1. UNCHANGED <<buff, buff_rec_cntr, thread_summ>> => FALSE
        BY <1>7, <2>3, CheckFullEffect
      <4>2. thread_summ' = [thread_summ EXCEPT ![t] = @ + 1]
        BY <1>7, <4>1 DEF CheckFull, WriteRecord
      <4> QED
        BY <1>0, <4>2
    <3>3. <<SlaveOf[t], path[t], off[t]>> \in Rec
      BY <1>0 DEF Rec
    <3> QED
      BY <2>1, <3>1, <3>2, <3>3
  <2> QED
    BY <1>7, <2>2, <2>3, CheckFullEffect
<1> QED
  BY <1>0, <1>1, <1>2, <1>3, <1>4, <1>5, <1>6, <1>7, StepKinds

\* A thread leaves the loop and adds its counter to the shared one, or both stay.
LEMMA LeaveEffect ==
    ASSUME TypeOK, [Next]_vars
    PROVE  \/ \E t \in Threads :
                /\ InLoop(t)
                /\ summ'[SlaveOf[t]] = summ[SlaveOf[t]] + thread_summ[t]
                /\ \A s \in Slaves : s # SlaveOf[t] => summ'[s] = summ[s]
                /\ \A u \in Threads : u # t /\ InLoop(u) => InLoop(u)'
                /\ UNCHANGED <<sent, thread_summ>>
           \/ UNCHANGED summ /\ \A u \in Threads : InLoop(u) => InLoop(u)'
<1>0. FileTypes /\ SlaveTypes
  BY DEF TypeOK
<1>1. ASSUME NEW t \in Threads, LeaveLoop(t)
      PROVE  /\ InLoop(t)
             /\ summ'[SlaveOf[t]] = summ[SlaveOf[t]] + thread_summ[t]
             /\ \A s \in Slaves : s # SlaveOf[t] => summ'[s] = summ[s]
             /\ \A u \in Threads : u # t /\ InLoop(u) => InLoop(u)'
             /\ UNCHANGED <<sent, thread_summ>>
  <2>1. /\ pc[t] = "for" /\ pc' = [pc EXCEPT ![t] = "post"]
        /\ summ' = [summ EXCEPT ![SlaveOf[t]] = @ + thread_summ[t]]
        /\ UNCHANGED <<sent, thread_summ>>
    BY <1>1 DEF LeaveLoop, GoTo, histVars
  <2>2. SlaveOf[t] \in Slaves /\ summ \in [Slaves -> Nat] /\ pc \in [Threads -> Labels]
    BY <1>0, ThreadsAssumption DEF FileTypes, SlaveTypes
  <2> QED
    BY <2>1, <2>2 DEF InLoop
<1>2. CASE \A t \in Threads : ~LeaveLoop(t)
  <2>1. UNCHANGED summ
    BY <1>2, Frames DEF slaveVars, TakeFile, CountFull, CheckFull, CountRest, CheckRest
  <2>2. ASSUME NEW u \in Threads, InLoop(u) PROVE InLoop(u)'
    <3>1. UNCHANGED FileState(u) \/ ThreadStep(u)
      BY OwnFile
    <3>2. CASE UNCHANGED FileState(u)
      BY <2>2, <3>2 DEF FileState, InLoop
    <3>3. CASE ThreadStep(u)
      BY <1>0, <1>2, <2>2, <3>3 DEF InLoop, ThreadStep, FileStep, TakeFile, OpenFile,
        SendStep, ReadRecord, ReadEnd, BufferFull, SendFull, CountFull, CheckFull,
        SendRest, NoRest, CountRest, CheckRest, FinishFile, TermStep,
        StartTerminator, FinishTerminator, GoTo, FileTypes
    <3> QED
      BY <3>1, <3>2, <3>3
  <2> QED
    BY <2>1, <2>2
<1> QED
  BY <1>1, <1>2

\* A step keeps the shares.
LEMMA SummaryStep == Inv /\ LimitInv /\ SummaryInv /\ [Next]_vars => SummaryInv'
<1> SUFFICES ASSUME Inv, LimitInv, SummaryInv, [Next]_vars, NEW s \in Slaves
             PROVE  \E g : \E own \in [Threads -> SUBSET Rec] : Shares(s, g, own)'
  BY DEF SummaryInv
<1>0. /\ TypeOK /\ thread_summ \in [Threads -> Nat] /\ summ \in [Slaves -> Nat]
      /\ summ' \in [Slaves -> Nat]
  BY SlaveTypesStep DEF Inv, TypeOK, FileTypes, SlaveTypes
<1>1. PICK g : \E own \in [Threads -> SUBSET Rec] : Shares(s, g, own)
  BY DEF SummaryInv
<1>2. PICK own \in [Threads -> SUBSET Rec] : Shares(s, g, own)
  BY <1>1
<1> DEFINE New(t) == CHOOSE rec \in Rec : Held(t)' \subseteq Held(t) \cup {rec}
           ow == [t \in Threads |-> IF thread_summ'[t] = thread_summ[t] THEN own[t]
                                    ELSE own[t] \cup {New(t)}]
<1>3. ASSUME NEW t \in Threads
      PROVE  /\ ow[t] \subseteq Rec /\ own[t] \subseteq ow[t]
             /\ IsFiniteSet(ow[t]) /\ Cardinality(ow[t]) <= thread_summ'[t]
             /\ pc'[t] \in Reading => Held(t)' \subseteq ow[t]
  <2>1. /\ own[t] \subseteq Rec /\ IsFiniteSet(own[t]) /\ Cardinality(own[t]) \in Nat
        /\ Cardinality(own[t]) <= thread_summ[t] /\ thread_summ[t] \in Nat
        /\ pc[t] \in Reading => Held(t) \subseteq own[t]
    BY <1>0, <1>2, FS_CardinalityType DEF Shares
  <2>2. CASE /\ thread_summ'[t] = thread_summ[t]
             /\ pc'[t] \in Reading => \/ pc[t] \in Reading /\ Held(t)' \subseteq Held(t)
                                      \/ Held(t)' = {}
    <3>1. ow[t] = own[t]
      BY <2>2
    <3> QED
      BY <2>1, <2>2, <3>1
  <2>3. CASE /\ thread_summ'[t] = thread_summ[t] + 1
             /\ pc[t] \in Reading
             /\ \E rec \in Rec : Held(t)' \subseteq Held(t) \cup {rec}
    <3>1. New(t) \in Rec /\ Held(t)' \subseteq Held(t) \cup {New(t)}
      BY <2>3, Zenon
    <3>2. ow[t] = own[t] \cup {New(t)}
      BY <2>1, <2>3
    <3> HIDE DEF ow, New
    <3>3. IsFiniteSet(ow[t]) /\ Cardinality(ow[t]) <= Cardinality(own[t]) + 1
      <4>1. /\ IsFiniteSet(own[t] \cup {New(t)})
            /\ Cardinality(own[t] \cup {New(t)}) =
                  IF New(t) \in own[t] THEN Cardinality(own[t]) ELSE Cardinality(own[t]) + 1
        BY <2>1, FS_AddElement
      <4> QED
        BY <2>1, <3>2, <4>1
    <3>4. Cardinality(ow[t]) \in Nat
      BY <3>3, FS_CardinalityType
    <3>5. Cardinality(ow[t]) <= thread_summ'[t]
      BY <2>1, <2>3, <3>3, <3>4
    <3> QED
      BY <2>1, <2>3, <3>1, <3>2, <3>3, <3>5
  <2> QED
    BY <2>2, <2>3, StoreStep
<1>4. ow \in [Threads -> SUBSET Rec]
  <2>1. \A t \in Threads : ow[t] \in SUBSET Rec
    BY <1>3
  <2> QED
    BY <2>1
<1>5. PICK own2 \in [Threads -> SUBSET Rec] : \A t \in Threads :
         /\ own[t] \subseteq own2[t]
         /\ IsFiniteSet(own2[t]) /\ Cardinality(own2[t]) <= thread_summ'[t]
         /\ pc'[t] \in Reading => Held(t)' \subseteq own2[t]
  BY <1>3, <1>4, Zenon
<1>6. ASSUME NEW t \in Threads, SendFull(t) \/ SendRest(t), NEW r \in Held(t), r[1] = s
      PROVE  t \in ThreadsOf(s) /\ InLoop(t)' /\ r \in own2[t]
  <2>1. pc[t] \in Reading /\ pc'[t] \in SentOff
    BY <1>0, <1>6, SendEffect
  <2>2. r[1] = SlaveOf[t] /\ r \in own[t]
    BY <1>0, <1>2, <1>6, <2>1, HeldFacts DEF Shares
  <2> QED
    BY <1>5, <1>6, <2>1, <2>2 DEF ThreadsOf, InLoop, SentOff
<1>7. ASSUME NEW g2, IsFiniteSet(g2), Cardinality(g2) <= summ'[s], g \subseteq g2,
             \A t \in ThreadsOf(s) : InLoop(t) => InLoop(t)' \/ own[t] \subseteq g2
      PROVE  Shares(s, g2, own2)'
  <2>1. ASSUME NEW r \in sent', r[1] = s
        PROVE  r \in g2 \/ \E t \in ThreadsOf(s) : InLoop(t)' /\ r \in own2[t]
    <3>1. CASE r \in sent
      <4>1. CASE r \in g
        BY <1>7, <4>1
      <4>2. ASSUME NEW t \in ThreadsOf(s), InLoop(t), r \in own[t]
            PROVE  r \in g2 \/ (InLoop(t)' /\ r \in own2[t])
        BY <1>5, <1>7, <4>2 DEF ThreadsOf
      <4> QED
        BY <1>2, <2>1, <3>1, <4>1, <4>2 DEF Shares
    <3>2. CASE r \notin sent
      <4>1. PICK t \in Threads : (SendFull(t) \/ SendRest(t)) /\ sent' = sent \cup Held(t)
        BY <1>0, <2>1, <3>2, SentGrows
      <4> QED
        BY <1>6, <2>1, <3>2, <4>1
    <3> QED
      BY <3>1, <3>2
  <2> QED
    BY <1>5, <1>7, <2>1 DEF Shares, ThreadsOf
<1>8. CASE UNCHANGED summ /\ \A u \in Threads : InLoop(u) => InLoop(u)'
  <2>1. Shares(s, g, own2)'
    BY <1>2, <1>7, <1>8 DEF Shares, ThreadsOf
  <2> QED
    BY <2>1
<1>9. ASSUME NEW t \in Threads, InLoop(t),
             summ'[SlaveOf[t]] = summ[SlaveOf[t]] + thread_summ[t],
             \A q \in Slaves : q # SlaveOf[t] => summ'[q] = summ[q],
             \A u \in Threads : u # t /\ InLoop(u) => InLoop(u)'
      PROVE  \E g2 : \E own3 \in [Threads -> SUBSET Rec] : Shares(s, g2, own3)'
  <2>1. CASE SlaveOf[t] # s
    <3>1. Shares(s, g, own2)'
      BY <1>2, <1>7, <1>9, <2>1 DEF Shares, ThreadsOf
    <3> QED
      BY <3>1
  <2>2. CASE SlaveOf[t] = s
    <3>1. /\ IsFiniteSet(g) /\ Cardinality(g) <= summ[s]
          /\ IsFiniteSet(own[t]) /\ Cardinality(own[t]) <= thread_summ[t]
      BY <1>2 DEF Shares
    <3>2. /\ IsFiniteSet(g \cup own[t])
          /\ Cardinality(g \cup own[t]) <= Cardinality(g) + Cardinality(own[t])
          /\ Cardinality(g) \in Nat /\ Cardinality(own[t]) \in Nat
          /\ Cardinality(g \cup own[t]) \in Nat
      <4>1. /\ IsFiniteSet(g \cup own[t]) /\ IsFiniteSet(g \cap own[t])
            /\ Cardinality(g \cup own[t]) =
                  Cardinality(g) + Cardinality(own[t]) - Cardinality(g \cap own[t])
        BY <3>1, FS_Union, FS_Intersection
      <4>2. /\ Cardinality(g) \in Nat /\ Cardinality(own[t]) \in Nat
            /\ Cardinality(g \cap own[t]) \in Nat /\ Cardinality(g \cup own[t]) \in Nat
        BY <3>1, <4>1, FS_CardinalityType
      <4> QED
        BY <4>1, <4>2
    <3>3. Cardinality(g \cup own[t]) <= summ'[s]
      BY <1>0, <1>9, <2>2, <3>1, <3>2
    <3>4. Shares(s, g \cup own[t], own2)'
      BY <1>7, <1>9, <3>2, <3>3 DEF ThreadsOf
    <3> QED
      BY <3>4
  <2> QED
    BY <2>1, <2>2
<1> QED
  BY <1>0, <1>8, <1>9, LeaveEffect

\* The shares exist throughout.
LEMMA SummaryInvariance == Spec => []SummaryInv
  BY SummaryInit, SummaryStep, LimitInvariance, Invariance, PTL DEF Spec

\* The output is accounted for, whatever the number of threads and however their
\* messages interleave: the master prints no record twice, and the "processed
\* records" summary of a slave whose threads have left the loop over the files
\* covers everything of it that is printed.
THEOREM OutputCounted == Spec => []OutputAccounted
<1>1. Inv /\ LimitInv /\ OutputInv /\ SummaryInv => OutputAccounted
  <2> SUFFICES ASSUME Inv, LimitInv, OutputInv, SummaryInv PROVE OutputAccounted
    OBVIOUS
  <2>1. NoRecordTwice
    BY DEF NoRecordTwice, OutputInv, PrintInv
  <2>2. ASSUME NEW s \in Slaves,
               \A t \in ThreadsOf(s) : pc[t] \in {"post", "term", "done"}
        PROVE  summ[s] >= Cardinality({r \in printed : r[1] = s})
    <3> DEFINE mine == {r \in printed : r[1] = s}
    <3>1. PICK g : \E own \in [Threads -> SUBSET Rec] : Shares(s, g, own)
      BY DEF SummaryInv
    <3>2. PICK own \in [Threads -> SUBSET Rec] : Shares(s, g, own)
      BY <3>1
    <3>3. printed \subseteq sent
      BY DEF OutputInv, Apart
    <3>4. mine \subseteq g
      BY <2>2, <3>2, <3>3 DEF Shares, InLoop
    <3>5. IsFiniteSet(g) /\ Cardinality(g) <= summ[s] /\ summ[s] \in Nat
      BY <3>2 DEF Shares, Inv, TypeOK, SlaveTypes
    <3>6. Cardinality(mine) <= Cardinality(g) /\ IsFiniteSet(mine)
      BY <3>4, <3>5, FS_Subset
    <3>7. Cardinality(g) \in Nat /\ Cardinality(mine) \in Nat
      BY <3>5, <3>6, FS_CardinalityType
    <3> QED
      BY <3>5, <3>6, <3>7
  <2> QED
    BY <2>1, <2>2 DEF OutputAccounted, SummaryCoversOutput
<1> QED
  BY <1>1, Invariance, LimitInvariance, OutputInvariance, SummaryInvariance, PTL

----------------------------------------------------------------------------
(* The query implements the safety part of Listing.                        *)

\* The image of a finite set under a function, and a union over a finite set,
\* are finite.
LEMMA FiniteUnion ==
    ASSUME NEW S, IsFiniteSet(S), NEW g, \A x \in S : IsFiniteSet(g[x])
    PROVE  IsFiniteSet(UNION {g[x] : x \in S})
<1> DEFINE T == {g[x] : x \in S}
           f == [x \in S |-> g[x]]
<1>1. f \in [S -> T] /\ \A y \in T : \E x \in S : f[x] = y
  OBVIOUS
<1>2. f \in Surjection(S, T)
  BY <1>1, Fun_IsSurj
<1> HIDE DEF f
<1>3. IsFiniteSet(T)
  BY <1>2, FS_Surjection
<1>4. \A U \in T : IsFiniteSet(U)
  OBVIOUS
<1> HIDE DEF T
<1>5. IsFiniteSet(UNION T)
  BY <1>3, <1>4, FS_UNION
<1> QED
  BY <1>5 DEF T

\* There are finitely many slaves, as each has a thread.
LEMMA SlavesFinite == IsFiniteSet(Slaves)
<1>1. SlaveOf \in [Threads -> Slaves] /\ \A s \in Slaves : \E t \in Threads : SlaveOf[t] = s
  BY ThreadsAssumption, TeamsAssumption DEF ThreadsOf
<1>2. SlaveOf \in Surjection(Threads, Slaves)
  BY <1>1, Fun_IsSurj
<1> QED
  BY <1>2, ThreadsAssumption, FS_Surjection

\* The query asks for finitely many records.
LEMMA ExpectedFinite == TypeOK => IsFiniteSet(Expected)
<1> SUFFICES ASSUME TypeOK PROVE IsFiniteSet(Expected)
  OBVIOUS
<1> DEFINE Positions(s, f) == {k \in 1..Len(ff_paths[s][f].recs) :
                                 /\ ff_paths[s][f].state # "unopenable"
                                 /\ ff_paths[s][f].recs[k]}
           Of(s, f) == {<<s, f, i>> : i \in Positions(s, f)}
           OfSlave(s) == UNION {Of(s, f) : f \in 1..Len(ff_paths[s])}
<1>1. Expected = UNION {OfSlave(s) : s \in Slaves}
  BY DEF Expected
<1>2. ASSUME NEW s \in Slaves PROVE IsFiniteSet(OfSlave(s))
  <2>1. ff_paths[s] \in Seq(FlowFile)
    BY FlowFilesAssumption DEF TypeOK
  <2>2. ASSUME NEW f \in 1..Len(ff_paths[s]) PROVE IsFiniteSet(Of(s, f))
    <3>1. ff_paths[s][f].recs \in Seq(BOOLEAN)
      BY <2>1 DEF FlowFile
    <3>2. Len(ff_paths[s][f].recs) \in Int /\ 1 \in Int
      BY <3>1
    <3>3. IsFiniteSet(1..Len(ff_paths[s][f].recs))
      BY <3>2, FS_Interval
    <3>4. Positions(s, f) \in SUBSET (1..Len(ff_paths[s][f].recs))
      OBVIOUS
    <3> HIDE DEF Positions
    <3>5. IsFiniteSet(Positions(s, f))
      BY <3>3, <3>4, FS_Subset
    <3> DEFINE h == [i \in Positions(s, f) |-> <<s, f, i>>]
    <3>6. h \in [Positions(s, f) -> Of(s, f)] /\ \A y \in Of(s, f) : \E i \in Positions(s, f) : h[i] = y
      OBVIOUS
    <3>7. h \in Surjection(Positions(s, f), Of(s, f))
      BY <3>6, Fun_IsSurj
    <3> HIDE DEF h, Of
    <3> QED
      BY <3>5, <3>7, FS_Surjection
  <2> HIDE DEF Of
  <2>3. 1 \in Int /\ Len(ff_paths[s]) \in Int
    BY <2>1
  <2>4. IsFiniteSet(1..Len(ff_paths[s]))
    BY <2>3, FS_Interval
  <2> DEFINE g == [f \in 1..Len(ff_paths[s]) |-> Of(s, f)]
  <2>5. \A f \in 1..Len(ff_paths[s]) : IsFiniteSet(g[f])
    BY <2>2
  <2>6. {g[f] : f \in 1..Len(ff_paths[s])} = {Of(s, f) : f \in 1..Len(ff_paths[s])}
    OBVIOUS
  <2> HIDE DEF g
  <2>7. IsFiniteSet(UNION {g[f] : f \in 1..Len(ff_paths[s])})
    BY <2>4, <2>5, FiniteUnion
  <2> QED
    BY <2>6, <2>7
<1> HIDE DEF OfSlave
<1> DEFINE g == [s \in Slaves |-> OfSlave(s)]
<1>3. \A s \in Slaves : IsFiniteSet(g[s])
  BY <1>2
<1>4. {g[s] : s \in Slaves} = {OfSlave(s) : s \in Slaves}
  OBVIOUS
<1> HIDE DEF g
<1>5. IsFiniteSet(UNION {g[s] : s \in Slaves})
  BY <1>3, SlavesFinite, FiniteUnion
<1> QED
  BY <1>1, <1>4, <1>5

\* Listing counts as ListQuery does.
LEMMA SameCount == \A S : Listed!Cardinality(S) = Cardinality(S)
  BY DEF Listed!Cardinality, Cardinality

\* When the master counts the last terminator nothing is on its way.
LEMMA LastTerminator ==
    ASSUME Inv, OutputInv, RecvTerminator, mpc' = "done"
    PROVE  /\ \A t \in Threads : pc[t] \in {"term", "done"} /\ Mail(t) = {}
           /\ Arriving = {} /\ Processing = {}
<1>1. /\ active_sources' = active_sources - 1 /\ active_sources' = 0
      /\ rrequest = "complete" /\ msg_size = 0 /\ mpc = "wait"
  BY DEF RecvTerminator
<1>2. active_sources = 1 /\ Arrived = 1
  BY <1>1 DEF Inv, TypeOK, MasterTypes, Arrived
<1>3. IsFiniteSet(Live) /\ Cardinality(Live) \in Nat
  BY FS_Subset, FS_CardinalityType, ThreadsAssumption DEF Live
<1>4. Cardinality(Live) = 0
  BY <1>2, <1>3 DEF Inv, TerminatorsCounted
<1>5. Live = {}
  BY <1>3, <1>4, FS_EmptySet
<1>6. ASSUME NEW t \in Threads PROVE pc[t] \in {"term", "done"} /\ Mail(t) = {}
  <2>1. pc[t] \in {"term", "done"} /\ chan[t] = <<>>
    BY <1>5 DEF Live, Terminating
  <2>2. 1..Len(chan[t]) = {}
    BY <2>1
  <2> QED
    BY <2>1, <2>2 DEF Mail
<1>7. 1..msg_size = {}
  BY <1>1
<1> QED
  BY <1>1, <1>6, <1>7 DEF Arriving, Processing

\* The query is complete by then.
LEMMA QuotaReached ==
    ASSUME Inv, LimitInv, OutputInv, RecvTerminator, mpc' = "done"
    PROVE  Cardinality(printed) = Listed!Quota
<1>0. /\ TypeOK /\ PrintInv /\ rec_cntr \in Nat /\ rec_limit \in Nat
      /\ IsFiniteSet(printed) /\ Cardinality(printed) = rec_cntr
      /\ rec_limit = 0 \/ rec_cntr <= rec_limit
  BY BoundsAssumption DEF Inv, TypeOK, MasterTypes, OutputInv, PrintInv
<1>1. IsFiniteSet(Expected) /\ Cardinality(Expected) \in Nat
  BY <1>0, ExpectedFinite, FS_CardinalityType
<1>2. printed \subseteq sent /\ sent \subseteq Expected
  BY DEF OutputInv, Apart, SentExpected
<1>3. Cardinality(printed) <= Cardinality(Expected)
  BY <1>1, <1>2, FS_Subset
<1>4. CASE limit_exceeded
  <2>1. rec_limit # 0 /\ rec_cntr = rec_limit
    BY <1>0, <1>4 DEF PrintInv
  <2> QED
    BY <1>0, <1>1, <1>3, <2>1, SameCount DEF Listed!Quota
<1>5. CASE ~limit_exceeded
  <2>1. rec_limit = 0 \/ rec_cntr < rec_limit
    BY <1>0, <1>5 DEF PrintInv
  <2>2. sent = printed
    BY <1>2, <1>5, LastTerminator DEF OutputInv, Arrives
  <2>3. ASSUME NEW s \in Slaves PROVE ~LimitReached(s)
    <3>1. IsFiniteSet(Counted(s)) /\ Cardinality(Counted(s)) <= Cardinality(sent)
      BY FS_Subset DEF LimitInv, SentInv, Counted
    <3>2. proc_rec_cntr[s] = Cardinality(Counted(s)) /\ proc_rec_cntr[s] \in Nat
      BY <1>0 DEF LimitInv, CountInv, TypeOK, SlaveTypes
    <3> QED
      BY <1>0, <2>1, <2>2, <3>1, <3>2 DEF LimitReached
  <2>4. ASSUME NEW r \in Expected PROVE r \in sent
    <3>1. r[1] \in Slaves /\ r[2] \in 1..Len(ff_paths[r[1]])
      BY <1>0, ExpectedForm
    <3>2. PICK t \in Threads : SlaveOf[t] = r[1]
      BY <3>1, TeamsAssumption DEF ThreadsOf
    <3>3. next_path[r[1]] > Len(ff_paths[r[1]])
      BY <3>2, LastTerminator DEF OutputInv, AllTaken
    <3>4. ff_paths[r[1]] \in Seq(FlowFile) /\ next_path[r[1]] \in Nat
      BY <1>0, <3>1, FlowFilesAssumption DEF TypeOK, SlaveTypes
    <3>5. r[2] < next_path[r[1]]
      BY <3>1, <3>3, <3>4
    <3>6. \A u \in Threads : ~Pending(u, r)
      BY LastTerminator DEF Pending, Reading
    <3> QED
      BY <2>3, <3>1, <3>5, <3>6 DEF OutputInv, NoneMissed
  <2>5. printed = Expected
    BY <1>2, <2>2, <2>4
  <2> QED
    BY <1>0, <1>1, <2>1, <2>5, SameCount DEF Listed!Quota
<1> QED
  BY <1>4, <1>5

\* A record that is printed is one more of those the query asks for.
LEMMA PrintsOneMore ==
    ASSUME Inv, LimitInv, OutputInv, [Next]_vars, ProcessRecord
    PROVE  Listed!PrintRecord
<1>0. /\ TypeOK /\ RecvInv /\ PrintInv /\ Apart /\ rec_cntr \in Nat /\ rec_limit \in Nat
      /\ IsFiniteSet(printed) /\ Cardinality(printed) = rec_cntr
  BY BoundsAssumption DEF Inv, TypeOK, MasterTypes, OutputInv, PrintInv
<1>1. UNCHANGED <<ff_paths, rec_limit>> /\ Expected' = Expected
  BY Frames DEF jobVars, Expected
<1>2. MasterStep /\ ~RecvTerminator /\ ~RecvData /\ mpc = "process" /\ mpc' # "done"
  BY DEF MasterStep, ProcessRecord, RecvTerminator, RecvData
<1>3. PICK r \in Processing : printed' = printed \cup {r}
  BY <1>0, <1>2, MasterEffect
<1>4. r \notin printed /\ r \in Expected /\ printed \subseteq Expected
  BY <1>0, <1>3 DEF Apart, OutputInv, SentExpected
<1>5. IsFiniteSet(printed \cup {r}) /\ Cardinality(printed \cup {r}) = rec_cntr + 1
  BY <1>0, <1>4, FS_AddElement
<1>6. IsFiniteSet(Expected) /\ Cardinality(Expected) \in Nat
  BY <1>0, ExpectedFinite, FS_CardinalityType
<1>7. Cardinality(printed \cup {r}) <= Cardinality(Expected)
  <2>1. printed \cup {r} \in SUBSET Expected
    BY <1>4
  <2> QED
    BY <1>6, <2>1, FS_Subset
<1>8. rec_limit = 0 \/ rec_cntr < rec_limit
  BY <1>0, <1>2 DEF PrintInv
<1>9. Cardinality(printed) < Listed!Quota
  BY <1>0, <1>5, <1>6, <1>7, <1>8, SameCount DEF Listed!Quota
<1> QED
  BY <1>1, <1>2, <1>3, <1>4, <1>9, SameCount DEF Listed!PrintRecord

\* Step by step, the query does what Listing allows.
LEMMA ListingStep ==
    Inv /\ LimitInv /\ OutputInv /\ [Next]_vars => [Listed!Next]_(Listed!vars)
<1> SUFFICES ASSUME Inv, LimitInv, OutputInv, [Next]_vars
             PROVE  [Listed!Next]_(Listed!vars)
  OBVIOUS
<1>1. UNCHANGED <<ff_paths, rec_limit>> /\ Expected' = Expected
  BY Frames DEF jobVars, Expected
<1>2. CASE ProcessRecord
  BY <1>2, PrintsOneMore DEF Listed!Next
<1>3. CASE RecvTerminator /\ mpc' = "done"
  <2>1. mpc = "wait" /\ UNCHANGED printed
    BY <1>3 DEF RecvTerminator
  <2>2. Listed!Finish
    BY <1>1, <1>3, <2>1, QuotaReached, SameCount DEF Listed!Finish
  <2> QED
    BY <2>2 DEF Listed!Next
<1>4. CASE UNCHANGED printed /\ (mpc' = "done") = (mpc = "done")
  BY <1>1, <1>4 DEF Listed!vars
<1>5. CASE RecvTerminator /\ mpc' # "done"
  BY <1>4, <1>5 DEF RecvTerminator
<1>6. CASE RecvData
  BY <1>4, <1>6 DEF RecvData
<1>7. ASSUME NEW t \in Threads, Deliver(t) PROVE [Listed!Next]_(Listed!vars)
  BY <1>4, <1>7 DEF Deliver
<1>8. CASE UNCHANGED masterVars
  BY <1>4, <1>8 DEF masterVars
<1> QED
  BY <1>2, <1>3, <1>5, <1>6, <1>7, <1>8, RecordsMove DEF Sends, Arrival, NoMail, MasterStep

\* A listing query never prints a record the filter does not match, none twice and
\* none beyond the limit, and it ends only when it has printed as many as it
\* should: all that match, or rec_limit of them.  Every step of the threads, of MPI
\* and of the master is a step of Listing or changes nothing the user sees.
THEOREM ListingImplemented == Spec => Listed!Safety
<1>1. Init => Listed!Init
  BY DEF Init, Listed!Init
<1> QED
  BY <1>1, ListingStep, Invariance, LimitInvariance, OutputInvariance, PTL
    DEF Spec, Listed!Safety

============================================================================
