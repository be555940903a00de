--------------------------- MODULE RawMem_proofs ---------------------------
(***************************************************************************)
(* Proofs about RawMem for any number of threads, records and rounds and   *)
(* any sizes: type correctness (no access outside of a buffer),            *)
(* RawBuffersNotShared, MessagesWellFormed and RoundsApart; and that the   *)
(* records reach the master as Gathering promises, none lost, none twice.  *)
(***************************************************************************)
EXTENDS RawMem, FiniteSetTheorems, SequenceTheorems, TLAPS

(***************************************************************************)
(* Types beyond TypeOK: what is in the buffers, the messages and the job.  *)
(***************************************************************************)
Record == Threads \X Nat
Unit == {Blank} \cup {<<n>> : n \in Nat} \cup (Record \X Nat)
Buffer == [0..(BuffSize - 1) -> Unit]
Msg == [tag: Nat, at: {0, 1, InMpi, InSend}, len: 0..BuffSize, data: Buffer]

JobTypes ==
    /\ rec_len \in 1..MaxRawLen
    /\ rounds \in Seq([Threads -> [mem: Seq(Record), limit: Nat]])
    /\ rounds # <<>>

BufferTypes ==
    /\ buff \in [Threads -> [{0, 1} -> Buffer]]
    /\ chan \in [Threads -> Seq(Msg)]
    /\ rec_buff \in [{0, 1} -> Buffer]
    /\ msg_end \in 0..BuffSize

(***************************************************************************)
(* The inductive invariant.  SenderInv: only the send a thread's request   *)
(* stands for can be incomplete, and it is not that of the buffer in use.  *)
(***************************************************************************)
SenderInv(t) ==
    /\ \A i \in 1..Len(chan[t]) : chan[t][i].at # InMpi => chan[t][i].at = request[t]
    /\ pc[t] \in {"single", "done"} => request[t] = NoRequest
    /\ pc[t] = "loop" => request[t] # buff_idx[t]

\* The rounds: a thread is at most one round behind the master and then between
\* two of its own, and what it has sent is of its round.
Ended == {"term", "single", "done"}

RoundInv(t) ==
    /\ round[t] \in {mround - 1, mround}
    /\ round[t] < mround => pc[t] \in Ended /\ chan[t] = <<>>
    /\ \A i \in 1..Len(chan[t]) : chan[t][i].tag = round[t]

\* A thread's messages are not empty, but for a terminator at the very end.
TerminatorLast(t) ==
    /\ pc[t] \notin Ended => \A i \in 1..Len(chan[t]) : chan[t][i].len # 0
    /\ pc[t] \in Ended =>
          \A i \in 1..Len(chan[t]) : chan[t][i].len = 0 <=> i = Len(chan[t])

\* The threads whose terminator of the master's round has not been matched yet,
\* and the terminator that has and is not counted.
Live == {t \in Threads : round[t] < mround \/ pc[t] \notin Ended \/ chan[t] # <<>>}
Arrived == IF rrequest = "complete" /\ msg_size = 0 THEN 1 ELSE 0

TerminatorsCounted == active_sources = Cardinality(Live) + Arrived

ReceiverInv ==
    /\ mpc \in {"next", "done"} <=> rrequest = "null"
    /\ mpc \in {"next", "done"} => active_sources = 0
    /\ mpc = "next" => mround < Len(rounds)

\* The first len units of a buffer are records behind their sizes: F is the set
\* of the offsets at which a record begins, and len, at which the last one ends.
Frames(b, len, F) ==
    /\ F \subseteq 0..len
    /\ {0, len} \subseteq F
    /\ \A o \in F \ {len} : o + HdrSize + rec_len \in F /\ b[o] = <<rec_len>>

Framed(b, len) == \E F \in SUBSET (0..len) : Frames(b, len, F)

\* What a thread fills and what it has sent is framed,
FrameInv(t) ==
    /\ pc[t] = "loop" => Framed(buff[t][buff_idx[t]], buff_off[t])
    /\ pc[t] = "loop" /\ buff_rec_cntr[t] # 0 => buff_off[t] # 0
    /\ \A i \in 1..Len(chan[t]) : Framed(Payload(t, chan[t][i]), chan[t][i].len)

\* and so is what the master has received; it is at the beginning of a record.
RecvFrames ==
    /\ rrequest = "complete" => Framed(rec_buff[rbuff_idx], msg_size)
    /\ mpc = "process" =>
          /\ rec_ptr.buff # rbuff_idx
          /\ rec_ptr.pos # msg_end
          /\ \E F \in SUBSET (0..msg_end) :
                Frames(rec_buff[rec_ptr.buff], msg_end, F) /\ rec_ptr.pos \in F

Inv ==
    /\ TypeOK /\ JobTypes /\ BufferTypes
    /\ ReceiverInv
    /\ TerminatorsCounted
    /\ RecvFrames
    /\ \A t \in Threads : SenderInv(t) /\ RoundInv(t) /\ TerminatorLast(t) /\ FrameInv(t)

----------------------------------------------------------------------------
(* The arithmetic of the space left in a buffer.                           *)

\* The remainders of numbers below the modulus, of small negative ones, and of
\* those beyond it.
LEMMA ModSmall == ASSUME NEW n \in Nat, NEW m \in Nat \ {0}, n < m PROVE n % m = n
  OBVIOUS

\* A space left below zero, as send_raw_mem computes it, wraps around to a huge one.
LEMMA ModNegative ==
    ASSUME NEW n \in Nat \ {0}, NEW m \in Nat, n <= m PROVE (-n) % m = m - n
  OBVIOUS

\* What wraps around any number of times comes back to the same size.
LEMMA ModShift ==
    ASSUME NEW n \in Nat, NEW m \in Nat \ {0}, NEW k \in Nat, n < m
    PROVE  (n + k * m) % m = n
  OBVIOUS

\* The sizes that leave nothing over are the multiples.
LEMMA ModZero == ASSUME NEW n \in Nat, NEW m \in Nat \ {0}, n % m = 0
                 PROVE  \E q \in Nat : n = m * q
  OBVIOUS

\* The test for enough space is exact: neither the wrap-around of size_t nor the
\* conversion to int makes a record fit that does not, or not fit one that does.
LEMMA FitsMeans ==
    ASSUME TypeOK, JobTypes, NEW t \in Threads
    PROVE  Fits(t) <=> buff_off[t] + HdrSize + rec_len <= BuffSize
<1> DEFINE d == BuffSize - buff_off[t] - HdrSize
<1>0. /\ BuffSize \in Nat /\ HdrSize \in Nat /\ HdrSize <= BuffSize /\ rec_len \in Nat \ {0}
      /\ IntRange \in Nat \ {0} /\ IntRange % 2 = 0 /\ 2 * BuffSize < IntRange
      /\ SizeRange \in Nat \ {0} /\ SizeRange % IntRange = 0
      /\ buff_off[t] \in 0..BuffSize
  BY RawSizesAssumption DEF TypeOK, JobTypes
<1>1. d \in Int /\ 2 * (IntRange \div 2) = IntRange /\ IntRange \div 2 \in Nat
  BY <1>0
<1>2. PICK q \in Nat : SizeRange = IntRange * q
  BY <1>0, ModZero
<1>3. q # 0 /\ q - 1 \in Nat /\ SizeRange = IntRange + (q - 1) * IntRange
  BY <1>0, <1>2
<1>4. SizeRange >= IntRange
  BY <1>0, <1>3
<1>5. CASE d >= 0
  <2>1. d \in Nat /\ d < SizeRange /\ d < IntRange /\ d < IntRange \div 2
    BY <1>0, <1>1, <1>4, <1>5
  <2>2. d % SizeRange = d /\ d % IntRange = d
    BY <1>0, <2>1, ModSmall
  <2>3. ToInt(BuffRemaining(t)) = d
    BY <2>1, <2>2 DEF ToInt, BuffRemaining
  <2> QED
    BY <1>0, <2>3 DEF Fits
<1>6. CASE d < 0
  <2> DEFINE n == -d
  <2>1. /\ n \in Nat \ {0} /\ n <= SizeRange /\ d = -n
        /\ IntRange - n \in Nat /\ IntRange - n < IntRange
        /\ ~(IntRange - n < IntRange \div 2)
    BY <1>0, <1>1, <1>4, <1>6
  <2> HIDE DEF n
  <2>2. d % SizeRange = SizeRange - n
    BY <1>0, <2>1, ModNegative
  <2>3. SizeRange - n = (IntRange - n) + (q - 1) * IntRange
    BY <1>0, <1>3, <2>1
  <2>4. (SizeRange - n) % IntRange = IntRange - n
    <3>1. \A x \in Nat, k \in Nat : x < IntRange => (x + k * IntRange) % IntRange = x
      BY <1>0, ModShift
    <3> QED
      BY <1>3, <2>1, <2>3, <3>1
  <2>5. ToInt(BuffRemaining(t)) = d
    BY <1>0, <2>1, <2>2, <2>4 DEF ToInt, BuffRemaining
  <2> QED
    BY <1>0, <1>6, <2>5 DEF Fits
<1> QED
  BY <1>1, <1>5, <1>6

----------------------------------------------------------------------------
(* Records in a buffer.                                                    *)

\* Blank buffers are buffers, and the numbers used throughout.
LEMMA Sizes ==
    /\ HdrSize \in Nat \ {0} /\ BuffSize \in Nat /\ MaxRawLen \in Nat
    /\ HdrSize + MaxRawLen <= BuffSize
    /\ BlankBuffer \in Buffer
  BY RawSizesAssumption DEF BlankBuffer, Buffer, Unit

\* Nothing is framed by nothing.
LEMMA FrameEmpty == ASSUME NEW b PROVE Framed(b, 0)
<1>1. {0} \in SUBSET (0..0) /\ Frames(b, 0, {0})
  BY DEF Frames
<1> QED
  BY <1>1 DEF Framed

\* Frames depend on the units before the end only.
LEMMA FrameCopy ==
    ASSUME NEW b, NEW c, NEW len \in Nat, NEW F \in SUBSET (0..len), Frames(b, len, F),
           \A o \in 0..(len - 1) : c[o] = b[o]
    PROVE  Frames(c, len, F)
<1>1. \A o \in F \ {len} : o \in 0..(len - 1)
  OBVIOUS
<1> QED
  BY <1>1 DEF Frames

\* A copy of a framed part of a buffer, as MPI delivers it, is framed as well.
LEMMA FramedCopy ==
    ASSUME NEW b, NEW c, NEW len \in Nat, Framed(b, len), \A o \in 0..(len - 1) : c[o] = b[o]
    PROVE  Framed(c, len)
  BY FrameCopy DEF Framed

\* A record written behind the others keeps the buffer a buffer and is framed.
LEMMA WrittenEffect ==
    ASSUME JobTypes, NEW b \in Buffer, NEW off \in 0..BuffSize, NEW rec \in Record,
           off + HdrSize + rec_len <= BuffSize, Framed(b, off)
    PROVE  /\ Written(b, off, rec) \in Buffer
           /\ Framed(Written(b, off, rec), off + HdrSize + rec_len)
<1> DEFINE c == Written(b, off, rec)
           end == off + HdrSize + rec_len
<1>0. /\ HdrSize \in Nat \ {0} /\ BuffSize \in Nat /\ rec_len \in Nat \ {0}
      /\ off \in Nat /\ end \in Nat /\ off < end
      /\ DOMAIN b = 0..(BuffSize - 1)
  BY Sizes DEF JobTypes, Buffer
<1>1. ASSUME NEW i \in 0..(BuffSize - 1)
      PROVE  c[i] = CASE i = off -> <<rec_len>>
                      [] i \in (off + HdrSize)..(off + HdrSize + rec_len - 1) ->
                            Raw(rec)[i - off - HdrSize + 1]
                      [] OTHER -> b[i]
  BY <1>0 DEF Written
<1>2. c[off] = <<rec_len>>
  <2>1. off \in 0..(BuffSize - 1)
    BY <1>0
  <2> QED
    BY <1>0, <2>1 DEF Written
<1>3. ASSUME NEW i \in 0..(off - 1) PROVE c[i] = b[i]
  <2>1. /\ i \in 0..(BuffSize - 1) /\ i # off
        /\ i \notin (off + HdrSize)..(off + HdrSize + rec_len - 1)
    BY <1>0
  <2> QED
    BY <1>1, <2>1
<1>4. c \in Buffer
  <2>1. ASSUME NEW i \in 0..(BuffSize - 1) PROVE c[i] \in Unit
    <3>1. CASE i = off
      BY <1>0, <1>2, <3>1 DEF Unit
    <3>2. CASE i # off /\ i \in (off + HdrSize)..(off + HdrSize + rec_len - 1)
      <4>1. i - off - HdrSize + 1 \in 1..rec_len
        BY <1>0, <3>2
      <4>2. c[i] = <<rec, i - off - HdrSize + 1>>
        BY <1>1, <3>2, <4>1 DEF Raw
      <4>3. <<rec, i - off - HdrSize + 1>> \in Record \X Nat
        BY <4>1
      <4> QED
        BY <4>2, <4>3 DEF Unit
    <3>3. CASE i # off /\ i \notin (off + HdrSize)..(off + HdrSize + rec_len - 1)
      <4>1. c[i] = b[i]
        BY <1>1, <3>3
      <4> QED
        BY <4>1 DEF Buffer
    <3> QED
      BY <3>1, <3>2, <3>3
  <2> QED
    BY <1>0, <2>1 DEF Written, Buffer
<1> HIDE DEF c
<1>5. PICK F \in SUBSET (0..off) : Frames(b, off, F)
  BY DEF Framed
<1>6. F \cup {end} \in SUBSET (0..end)
  BY <1>0
<1>7. Frames(c, end, F \cup {end})
  <2>1. ASSUME NEW o \in F, o # end
        PROVE  o + HdrSize + rec_len \in F \cup {end} /\ c[o] = <<rec_len>>
    <3>1. CASE o = off
      BY <1>2, <3>1
    <3>2. CASE o # off
      <4>1. o \in 0..(off - 1)
        BY <1>0, <3>2
      <4> QED
        BY <1>3, <1>5, <3>2, <4>1 DEF Frames
    <3> QED
      BY <3>1, <3>2
  <2> QED
    BY <1>0, <1>5, <1>6, <2>1 DEF Frames
<1> QED
  BY <1>4, <1>6, <1>7 DEF Framed, c

----------------------------------------------------------------------------

\* The rounds of a query are sequences of jobs for every thread.
LEMMA RoundType ==
    ASSUME NEW recs, NEW limits, \A t \in Threads : recs[t] \in Seq(Record),
           limits \in [Threads -> Nat]
    PROVE  Round(recs, limits) \in [Threads -> [mem: Seq(Record), limit: Nat]]
  BY DEF Round

\* Every mode gives each thread a memory and a limit in every round, and has a round.
LEMMA RoundsTypes ==
    ASSUME rounds \in SortRounds \cup AggrRounds \cup TputRounds
    PROVE  /\ rounds \in Seq([Threads -> [mem: Seq(Record), limit: Nat]])
           /\ rounds # <<>>
<1> DEFINE Job == [Threads -> [mem: Seq(Record), limit: Nat]]
<1>0. /\ \A m \in Memories : m \in [Threads -> Nat]
      /\ \A n \in RecLimits : n \in Nat
      /\ \A c \in ThresholdCnts : c \in [Threads -> Nat]
      /\ \A f \in FoundRecs : f \in [Threads -> Seq(Nat \ {0})]
  BY RawJobsAssumption
<1>1. ASSUME NEW m \in Memories, NEW t \in Threads PROVE RecordsOf(m)[t] \in Seq(Record)
  <2>1. m[t] \in Nat
    BY <1>0
  <2>2. [i \in 1..m[t] |-> <<t, i>>] \in Seq(Record)
    BY <2>1 DEF Record
  <2> QED
    BY <2>2 DEF RecordsOf
<1>2. ASSUME NEW f \in FoundRecs, NEW t \in Threads PROVE Found(f)[t] \in Seq(Record)
  <2>1. f[t] \in Seq(Nat \ {0})
    BY <1>0
  <2>2. Len(f[t]) \in Nat /\ \A i \in 1..Len(f[t]) : f[t][i] \in Nat
    BY <2>1
  <2>3. [i \in 1..Len(f[t]) |-> <<t, f[t][i]>>] \in Seq(Record)
    BY <2>2 DEF Record
  <2> QED
    BY <2>3 DEF Found
<1>3. \A n \in Nat : Everybody(n) \in [Threads -> Nat]
  BY DEF Everybody
<1>4. CASE rounds \in SortRounds
  <2>1. PICK m \in Memories, n \in RecLimits : rounds = <<Round(RecordsOf(m), Everybody(n))>>
    BY <1>4 DEF SortRounds
  <2>2. Round(RecordsOf(m), Everybody(n)) \in Job
    BY <1>0, <1>1, <1>3, RoundType
  <2> HIDE DEF Job
  <2> QED
    BY <2>1, <2>2 DEF Job
<1>5. CASE rounds \in AggrRounds
  <2>1. PICK m \in Memories : rounds = <<Round(RecordsOf(m), Everybody(0))>>
    BY <1>5 DEF AggrRounds
  <2>2. Round(RecordsOf(m), Everybody(0)) \in Job
    BY <1>1, <1>3, RoundType
  <2> HIDE DEF Job
  <2> QED
    BY <2>1, <2>2 DEF Job
<1>6. CASE rounds \in TputRounds
  <2>1. PICK q \in TputOutcomes :
           rounds = <<Round(RecordsOf(q.mem), Everybody(q.n)),
                      Round(RecordsOf(q.mem), q.cnt),
                      Round(Found(q.pos), Everybody(0))>>
    BY <1>6 DEF TputRounds
  <2>2. q.mem \in Memories /\ q.n \in Nat /\ q.cnt \in [Threads -> Nat] /\ q.pos \in FoundRecs
    BY <1>0 DEF TputOutcomes
  <2>3. /\ Round(RecordsOf(q.mem), Everybody(q.n)) \in Job
        /\ Round(RecordsOf(q.mem), q.cnt) \in Job
        /\ Round(Found(q.pos), Everybody(0)) \in Job
    BY <1>1, <1>2, <1>3, <2>2, RoundType
  <2> HIDE DEF Job
  <2> QED
    BY <2>1, <2>3 DEF Job
<1> QED
  BY <1>4, <1>5, <1>6

\* The initial states satisfy the invariant.
LEMMA InitInv == Init => Inv
<1> SUFFICES ASSUME Init PROVE Inv
  OBVIOUS
<1>0. Cardinality(Threads) \in Nat /\ Cardinality(Threads) # 0
  BY FS_CardinalityType, FS_EmptySet, RawThreadsAssumption
<1>1. JobTypes
  BY RoundsTypes, RawJobsAssumption, Sizes DEF Init, JobTypes
<1>2. 1 \in 1..Len(rounds) /\ 0 \in 0..BuffSize
  BY <1>1, Sizes DEF JobTypes
<1>3. BufferTypes
  BY <1>2, Sizes DEF Init, BufferTypes
<1>4. TypeOK
  <2>1. rec_ptr \in [buff: {0, 1}, pos: 0..BuffSize]
    BY <1>2 DEF Init
  <2>2. active_sources \in 0..Cardinality(Threads)
    BY <1>0 DEF Init
  <2> QED
    BY <1>2, <2>1, <2>2 DEF Init, TypeOK
<1>5. ReceiverInv
  BY DEF Init, ReceiverInv
<1>6. TerminatorsCounted
  <2>1. Live = Threads
    BY DEF Init, Live, Ended
  <2> QED
    BY <1>0, <2>1 DEF Init, TerminatorsCounted, Arrived
<1>7. RecvFrames
  BY DEF Init, RecvFrames
<1>8. ASSUME NEW t \in Threads
      PROVE  SenderInv(t) /\ RoundInv(t) /\ TerminatorLast(t) /\ FrameInv(t)
  <2>1. Framed(buff[t][buff_idx[t]], buff_off[t])
    BY FrameEmpty DEF Init
  <2>2. FrameInv(t)
    BY <2>1 DEF Init, FrameInv
  <2> QED
    BY <2>2 DEF Init, SenderInv, RoundInv, TerminatorLast, Ended, NoRequest
<1> QED
  BY <1>1, <1>3, <1>4, <1>5, <1>6, <1>7, <1>8 DEF Inv

----------------------------------------------------------------------------
(* What a step changes.                                                    *)

ThreadState(t) ==
    <<pc[t], round[t], rec_cntr[t], buff[t], buff_idx[t], buff_off[t],
      buff_rec_cntr[t], request[t]>>

\* Who changes what.
LEMMA StepFrames ==
    ASSUME [Next]_vars
    PROVE  /\ UNCHANGED jobVars
           /\ \/ \E t \in Threads : SendStep(t) /\ UNCHANGED masterVars
              \/ \E t \in Threads : Transfer(t) /\ UNCHANGED <<threadVars, masterVars>>
              \/ \E t \in Threads : Deliver(t) /\ UNCHANGED threadVars
              \/ MasterStep /\ UNCHANGED <<threadVars, chan>>
              \/ UNCHANGED <<threadVars, chan, masterVars>>
<1>1. ASSUME NEW t \in Threads, SendStep(t) PROVE UNCHANGED <<jobVars, masterVars>>
  BY <1>1 DEF SendStep, PutRecord, SendFull, SendRest, NoRest, StartTerminator,
    FinishTerminator, BeginRound
<1>2. ASSUME NEW t \in Threads, Transfer(t)
      PROVE  UNCHANGED <<jobVars, threadVars, masterVars>>
  BY <1>2 DEF Transfer
<1>3. ASSUME NEW t \in Threads, Deliver(t) PROVE UNCHANGED <<jobVars, threadVars>>
  BY <1>3 DEF Deliver
<1>4. CASE MasterStep
  BY <1>4 DEF MasterStep, RecvTerminator, RecvData, ProcessRecord, NextRecvLoop
<1>5. CASE Finished \/ UNCHANGED vars
  BY <1>5 DEF Finished, vars
<1> QED
  BY <1>1, <1>2, <1>3, <1>4, <1>5 DEF Next

\* A step of one thread leaves the others alone.
LEMMA OtherThreads ==
    ASSUME Inv, NEW t \in Threads, NEW u \in Threads, u # t, SendStep(t)
    PROVE  UNCHANGED ThreadState(u) /\ chan'[u] = chan[u]
<1>0. /\ pc \in [Threads -> {"loop", "sent", "term", "single", "done"}]
      /\ round \in [Threads -> 1..Len(rounds)] /\ rec_cntr \in [Threads -> Nat]
      /\ buff_idx \in [Threads -> {0, 1}] /\ buff_off \in [Threads -> 0..BuffSize]
      /\ buff_rec_cntr \in [Threads -> Nat]
      /\ request \in [Threads -> {0, 1, InSend, NoRequest}]
      /\ buff \in [Threads -> [{0, 1} -> Buffer]] /\ chan \in [Threads -> Seq(Msg)]
  BY DEF Inv, TypeOK, BufferTypes
<1>1. CASE PutRecord(t)
  BY <1>0, <1>1 DEF PutRecord, ThreadState
<1>2. CASE SendFull(t)
  BY <1>0, <1>2 DEF SendFull, StartSend, ThreadState
<1>3. CASE SendRest(t)
  BY <1>0, <1>3 DEF SendRest, StartSend, ThreadState, GoTo, buffVars
<1>4. CASE NoRest(t)
  BY <1>0, <1>4 DEF NoRest, ThreadState, GoTo, buffVars
<1>5. CASE StartTerminator(t)
  BY <1>0, <1>5 DEF StartTerminator, StartSend, ThreadState, GoTo, buffVars
<1>6. CASE FinishTerminator(t)
  BY <1>0, <1>6 DEF FinishTerminator, ThreadState, GoTo, buffVars
<1>7. CASE BeginRound(t)
  BY <1>0, <1>7 DEF BeginRound, ThreadState, GoTo
<1> QED
  BY <1>1, <1>2, <1>3, <1>4, <1>5, <1>6, <1>7 DEF SendStep

\* For one thread: its own step, a step of MPI on its messages, or none.
LEMMA OwnSteps ==
    ASSUME Inv, [Next]_vars, NEW t \in Threads
    PROVE  \/ SendStep(t) /\ UNCHANGED masterVars
           \/ Transfer(t) /\ UNCHANGED <<threadVars, masterVars>>
           \/ Deliver(t) /\ UNCHANGED threadVars
           \/ UNCHANGED ThreadState(t) /\ chan'[t] = chan[t]
<1>1. ASSUME UNCHANGED threadVars PROVE UNCHANGED ThreadState(t)
  BY <1>1 DEF threadVars, buffVars, ThreadState
<1>2. ASSUME NEW u \in Threads, u # t, Transfer(u) \/ Deliver(u) PROVE chan'[t] = chan[t]
  <2>1. chan \in [Threads -> Seq(Msg)]
    BY DEF Inv, BufferTypes
  <2> QED
    BY <1>2, <2>1 DEF Transfer, Deliver
<1> QED
  BY <1>1, <1>2, StepFrames, OtherThreads

\* A send appends one message, of which alone the request then speaks.
LEMMA StartSendEffect ==
    ASSUME Inv, NEW t \in Threads, NEW at \in {0, 1, InSend}, NEW len \in 0..BuffSize,
           StartSend(t, at, len)
    PROVE  /\ chan' \in [Threads -> Seq(Msg)]
           /\ Len(chan[t]) \in Nat /\ Len(chan'[t]) = Len(chan[t]) + 1
           /\ \A i \in 1..Len(chan[t]) : chan'[t][i] = chan[t][i]
           /\ chan'[t][Len(chan[t]) + 1].tag = round[t]
           /\ chan'[t][Len(chan[t]) + 1].at = at
           /\ chan'[t][Len(chan[t]) + 1].len = len
           /\ chan'[t][Len(chan[t]) + 1].data = BlankBuffer
           /\ request' \in [Threads -> {0, 1, InSend, NoRequest}] /\ request'[t] = at
<1>0. /\ chan \in [Threads -> Seq(Msg)] /\ chan[t] \in Seq(Msg)
      /\ request \in [Threads -> {0, 1, InSend, NoRequest}]
      /\ round[t] \in Nat
  BY DEF Inv, TypeOK, BufferTypes
<1> DEFINE m == [tag |-> round[t], at |-> at, len |-> len, data |-> BlankBuffer]
<1>1. m \in Msg /\ m.tag = round[t] /\ m.at = at /\ m.len = len /\ m.data = BlankBuffer
  BY <1>0, Sizes DEF Msg
<1>2. chan' = [chan EXCEPT ![t] = Append(chan[t], m)]
  BY DEF StartSend
<1> HIDE DEF m
<1>3. Append(chan[t], m) \in Seq(Msg)
  BY <1>0, <1>1
<1>4. chan' \in [Threads -> Seq(Msg)] /\ chan'[t] = Append(chan[t], m)
  BY <1>0, <1>2, <1>3
<1>5. request' \in [Threads -> {0, 1, InSend, NoRequest}] /\ request'[t] = at
  BY <1>0 DEF StartSend
<1> QED
  BY <1>0, <1>1, <1>4, <1>5

\* After a wait for the last send every message is in MPI's hands.
LEMMA AllTransferred ==
    ASSUME Inv, NEW t \in Threads, SendComplete(t) \/ request[t] = NoRequest
    PROVE  \A i \in 1..Len(chan[t]) : chan[t][i].at = InMpi
<1> SUFFICES ASSUME NEW i \in 1..Len(chan[t]), chan[t][i].at # InMpi PROVE FALSE
  OBVIOUS
<1>1. chan[t][i].at = request[t]
  BY DEF Inv, SenderInv
<1>2. chan[t][i] \in Msg
  BY DEF Inv, BufferTypes
<1> QED
  BY <1>1, <1>2 DEF SendComplete, Msg, NoRequest, InMpi, InSend

\* The sequence without its first element.
LEMMA WithoutFirst ==
    ASSUME NEW S, NEW q \in Seq(S), q # <<>>
    PROVE  SubSeq(q, 1, 1 - 1) \o SubSeq(q, 1 + 1, Len(q)) = Tail(q)
<1>1. Len(q) \in Nat \ {0}
  BY EmptySeq
<1>2. SubSeq(q, 1, 0) = <<>> /\ SubSeq(q, 2, Len(q)) \in Seq(S)
  BY <1>1
<1>3. <<>> \o SubSeq(q, 2, Len(q)) = SubSeq(q, 2, Len(q))
  BY <1>2
<1>4. SubSeq(q, 2, Len(q)) = Tail(q)
  BY <1>1
<1> QED
  BY <1>2, <1>3, <1>4

\* All that is under way is of the master's round: the first message of a thread
\* is the one that is delivered.
LEMMA DeliverEffect ==
    ASSUME Inv, NEW t \in Threads, Deliver(t)
    PROVE  /\ chan[t] \in Seq(Msg) /\ chan[t] # <<>> /\ Len(chan[t]) \in Nat \ {0}
           /\ chan[t][1] \in Msg
           /\ chan' = [chan EXCEPT ![t] = Tail(@)]
           /\ chan'[t] = Tail(chan[t])
           /\ Len(chan'[t]) = Len(chan[t]) - 1
           /\ \A i \in 1..Len(chan'[t]) : chan'[t][i] = chan[t][i + 1]
           /\ rrequest = "posted" /\ rrequest' = "complete"
           /\ msg_size' = chan[t][1].len
           /\ rec_buff' = [rec_buff EXCEPT ![rbuff_idx] =
                             [o \in DOMAIN @ |-> IF o < chan[t][1].len
                                                 THEN Payload(t, chan[t][1])[o] ELSE @[o]]]
           /\ UNCHANGED <<threadVars, mpc, mround, rbuff_idx, rec_ptr, msg_end,
                          active_sources, lnf_mem>>
<1>0. chan[t] \in Seq(Msg) /\ RoundInv(t) /\ chan \in [Threads -> Seq(Msg)]
  BY DEF Inv, BufferTypes
<1>1. PICK i \in 1..Len(chan[t]) :
        /\ chan[t][i].tag = mround
        /\ \A j \in 1..(i - 1) : chan[t][j].tag # mround
        /\ rec_buff' = [rec_buff EXCEPT ![rbuff_idx] =
                          [o \in DOMAIN @ |-> IF o < chan[t][i].len
                                              THEN Payload(t, chan[t][i])[o] ELSE @[o]]]
        /\ msg_size' = chan[t][i].len
        /\ chan' = [chan EXCEPT ![t] = SubSeq(@, 1, i - 1) \o SubSeq(@, i + 1, Len(@))]
  BY DEF Deliver
<1>2. i = 1
  <2>1. \A j \in 1..Len(chan[t]) : chan[t][j].tag = round[t]
    BY <1>0 DEF RoundInv
  <2>2. round[t] = mround
    BY <1>1, <2>1
  <2>3. 1 \in 1..Len(chan[t]) /\ Len(chan[t]) \in Nat
    BY <1>0, <1>1
  <2>4. ASSUME i # 1 PROVE FALSE
    <3>1. 1 \in 1..(i - 1)
      BY <2>3, <2>4
    <3> QED
      BY <1>1, <2>1, <2>2, <2>3, <3>1
  <2> QED
    BY <2>4
<1>3. Len(chan[t]) \in Nat \ {0} /\ chan[t] # <<>> /\ chan[t][1] \in Msg
  BY <1>0, <1>1, <1>2
<1>4. chan' = [chan EXCEPT ![t] = Tail(@)]
  BY <1>0, <1>1, <1>2, <1>3, WithoutFirst
<1>5. chan'[t] = Tail(chan[t])
  BY <1>0, <1>4
<1>6. Len(chan'[t]) = Len(chan[t]) - 1 /\ \A j \in 1..Len(chan'[t]) : chan'[t][j] = chan[t][j + 1]
  BY <1>0, <1>3, <1>5
<1>7. /\ rrequest = "posted" /\ rrequest' = "complete"
      /\ UNCHANGED <<threadVars, mpc, mround, rbuff_idx, rec_ptr, msg_end,
                     active_sources, lnf_mem>>
  BY DEF Deliver
<1> QED
  BY <1>0, <1>1, <1>2, <1>3, <1>4, <1>5, <1>6, <1>7

\* The bytes of a message are a buffer.
LEMMA PayloadType ==
    ASSUME BufferTypes, NEW t \in Threads, NEW i \in 1..Len(chan[t])
    PROVE  chan[t][i] \in Msg /\ Payload(t, chan[t][i]) \in Buffer
<1>1. chan[t][i] \in Msg /\ buff[t] \in [{0, 1} -> Buffer]
  BY DEF BufferTypes
<1>2. chan[t][i].data \in Buffer
  BY <1>1 DEF Msg
<1>3. ASSUME chan[t][i].at \in {0, 1} PROVE buff[t][chan[t][i].at] \in Buffer
  BY <1>1, <1>3
<1> QED
  BY <1>1, <1>2, <1>3 DEF Payload

\* A transfer changes where a message is, and nothing else about it.
LEMMA TransferEffect ==
    ASSUME Inv, NEW t \in Threads, Transfer(t)
    PROVE  /\ chan' \in [Threads -> Seq(Msg)]
           /\ Len(chan[t]) \in Nat /\ Len(chan'[t]) = Len(chan[t])
           /\ \A i \in 1..Len(chan[t]) :
                 /\ chan'[t][i].at \in {chan[t][i].at, InMpi}
                 /\ chan'[t][i].len = chan[t][i].len
                 /\ chan'[t][i].tag = chan[t][i].tag
                 /\ Payload(t, chan'[t][i]) = Payload(t, chan[t][i])
<1>0. /\ chan \in [Threads -> Seq(Msg)] /\ chan[t] \in Seq(Msg)
      /\ buff \in [Threads -> [{0, 1} -> Buffer]]
  BY DEF Inv, BufferTypes
<1>1. PICK j \in 1..Len(chan[t]) :
         chan' = [chan EXCEPT ![t][j].at = InMpi,
                              ![t][j].data = Payload(t, chan[t][j])]
  BY DEF Transfer
<1>2. chan[t][j] \in Msg /\ Payload(t, chan[t][j]) \in Buffer
  <2>1. BufferTypes
    BY DEF Inv
  <2> QED
    BY <1>1, <2>1, PayloadType
<1> DEFINE m == [[chan[t][j] EXCEPT !.at = InMpi] EXCEPT !.data = Payload(t, chan[t][j])]
<1>3. /\ m \in Msg /\ m.at = InMpi /\ m.len = chan[t][j].len
      /\ m.tag = chan[t][j].tag /\ m.data = Payload(t, chan[t][j])
  BY <1>2 DEF Msg
<1>4. chan' = [chan EXCEPT ![t] = [chan[t] EXCEPT ![j] = m]]
  BY <1>0, <1>1
<1> HIDE DEF m
<1>5. [chan[t] EXCEPT ![j] = m] \in Seq(Msg)
  BY <1>0, <1>3
<1>6. chan' \in [Threads -> Seq(Msg)] /\ chan'[t] = [chan[t] EXCEPT ![j] = m]
  BY <1>0, <1>4, <1>5
<1>7. /\ Len(chan[t]) \in Nat /\ Len(chan'[t]) = Len(chan[t]) /\ chan'[t][j] = m
      /\ \A i \in 1..Len(chan[t]) : i # j => chan'[t][i] = chan[t][i]
  BY <1>0, <1>6
<1>8. Payload(t, m) = m.data
  BY <1>3 DEF Payload, InMpi
<1> QED
  BY <1>3, <1>6, <1>7, <1>8

\* The message is copied to the buffer the receive was posted for, and nothing
\* else is overwritten.
LEMMA DeliverBuffer ==
    ASSUME Inv, NEW t \in Threads, Deliver(t)
    PROVE  /\ rec_buff' \in [{0, 1} -> Buffer]
           /\ \A o \in 0..(chan[t][1].len - 1) :
                 rec_buff'[rbuff_idx][o] = Payload(t, chan[t][1])[o]
           /\ \A k \in {0, 1} : k # rbuff_idx => rec_buff'[k] = rec_buff[k]
<1>0. /\ rec_buff \in [{0, 1} -> Buffer] /\ rbuff_idx \in {0, 1} /\ BufferTypes
      /\ BuffSize \in Nat
  BY Sizes DEF Inv, BufferTypes, TypeOK
<1>1. 1 \in 1..Len(chan[t]) /\ chan[t][1] \in Msg
  BY DeliverEffect
<1>2. Payload(t, chan[t][1]) \in Buffer /\ chan[t][1].len \in 0..BuffSize
  BY <1>0, <1>1, PayloadType DEF Msg
<1>3. PICK len \in 0..BuffSize : len = chan[t][1].len
  BY <1>2
<1>4. PICK q \in Buffer : q = Payload(t, chan[t][1])
  BY <1>2
<1> DEFINE c == [o \in 0..(BuffSize - 1) |-> IF o < len THEN q[o] ELSE rec_buff[rbuff_idx][o]]
<1>5. rec_buff[rbuff_idx] \in Buffer
  BY <1>0
<1>6. c \in Buffer
  BY <1>4, <1>5 DEF Buffer
<1>7. DOMAIN rec_buff[rbuff_idx] = 0..(BuffSize - 1)
  BY <1>5 DEF Buffer
<1>8. rec_buff' = [rec_buff EXCEPT ![rbuff_idx] =
                     [o \in DOMAIN rec_buff[rbuff_idx] |->
                        IF o < len THEN q[o] ELSE rec_buff[rbuff_idx][o]]]
  BY <1>3, <1>4, DeliverEffect
<1>9. rec_buff' = [rec_buff EXCEPT ![rbuff_idx] = c]
  BY <1>7, <1>8
<1>10. \A o \in 0..(len - 1) : c[o] = q[o]
  BY <1>0, <1>3
<1> HIDE DEF c
<1>11. rec_buff' \in [{0, 1} -> Buffer] /\ rec_buff'[rbuff_idx] = c
  BY <1>0, <1>6, <1>9
<1>12. \A k \in {0, 1} : k # rbuff_idx => rec_buff'[k] = rec_buff[k]
  BY <1>0, <1>9
<1> QED
  BY <1>3, <1>4, <1>10, <1>11, <1>12

\* Where recv_loop is about to read a record it finds one.
LEMMA AtRecord ==
    ASSUME Inv, mpc = "process"
    PROVE  /\ rec_buff[rec_ptr.buff][rec_ptr.pos] = <<rec_len>>
           /\ SizeAt(rec_ptr) = rec_len
           /\ rec_ptr.pos + HdrSize + rec_len \in 0..msg_end
<1>1. PICK F \in SUBSET (0..msg_end) :
         Frames(rec_buff[rec_ptr.buff], msg_end, F) /\ rec_ptr.pos \in F
  BY DEF Inv, RecvFrames
<1>2. rec_ptr.pos \in F \ {msg_end} /\ F \subseteq 0..msg_end
  BY <1>1 DEF Inv, RecvFrames
<1>3. /\ rec_buff[rec_ptr.buff][rec_ptr.pos] = <<rec_len>>
      /\ rec_ptr.pos + HdrSize + rec_len \in F
  BY <1>1, <1>2 DEF Frames
<1>4. <<rec_len>>[1] = rec_len
  OBVIOUS
<1>5. SizeAt(rec_ptr) = rec_len
  BY <1>3, <1>4 DEF SizeAt
<1>6. rec_ptr.pos + HdrSize + rec_len \in 0..msg_end
  BY <1>2, <1>3
<1> QED
  BY <1>3, <1>5, <1>6

\* One record is consumed.
LEMMA ProcessEffect ==
    ASSUME Inv, ProcessRecord
    PROVE  /\ mpc = "process"
           /\ rec_ptr' \in [buff: {0, 1}, pos: 0..BuffSize]
           /\ rec_ptr'.buff = rec_ptr.buff
           /\ rec_ptr'.pos = rec_ptr.pos + HdrSize + rec_len
           /\ mpc' = IF rec_ptr'.pos < msg_end THEN "process" ELSE "wait"
           /\ UNCHANGED <<mround, recvVars, msg_end, active_sources>>
<1>0. mpc = "process" /\ UNCHANGED <<mround, recvVars, msg_end, active_sources>>
  BY DEF ProcessRecord
<1>1. SizeAt(rec_ptr) = rec_len /\ rec_ptr.pos + HdrSize + rec_len \in 0..msg_end
  BY <1>0, AtRecord
<1>2. msg_end \in 0..BuffSize /\ rec_ptr \in [buff: {0, 1}, pos: 0..BuffSize] /\ BuffSize \in Nat
  BY Sizes DEF Inv, BufferTypes, TypeOK
<1>3. PICK e \in 0..BuffSize : e = rec_ptr.pos + HdrSize + rec_len
  BY <1>1, <1>2
<1>4. rec_ptr' = [rec_ptr EXCEPT !.pos = e] /\ mpc' = IF e < msg_end THEN "process" ELSE "wait"
  BY <1>1, <1>3 DEF ProcessRecord
<1>5. rec_ptr'.pos = e /\ rec_ptr'.buff = rec_ptr.buff /\ rec_ptr' \in [buff: {0, 1}, pos: 0..BuffSize]
  BY <1>2, <1>4
<1> QED
  BY <1>0, <1>3, <1>4, <1>5

----------------------------------------------------------------------------
(* Live threads.                                                           *)

\* The live threads can be counted, and while a thread lives its terminator has
\* not been counted.
LEMMA LiveCount ==
    ASSUME Inv
    PROVE  /\ IsFiniteSet(Live) /\ Cardinality(Live) \in Nat
           /\ active_sources = 0 => Live = {} /\ Arrived = 0
           /\ Arrived \in {0, 1}
           /\ Arrived = 1 => active_sources # 0
<1>1. IsFiniteSet(Live)
  BY FS_Subset, RawThreadsAssumption DEF Live
<1>2. Cardinality(Live) \in Nat
  BY <1>1, FS_CardinalityType
<1>3. Cardinality(Live) = 0 <=> Live = {}
  BY <1>1, FS_EmptySet
<1>4. active_sources = Cardinality(Live) + Arrived /\ Arrived \in {0, 1}
  BY DEF Inv, TerminatorsCounted, Arrived
<1> QED
  BY <1>1, <1>2, <1>3, <1>4

\* Between two rounds every thread has ended the master's one and everything it
\* sent has been taken.
LEMMA Quiet ==
    ASSUME Inv, active_sources = 0, NEW t \in Threads
    PROVE  round[t] = mround /\ pc[t] \in Ended /\ chan[t] = <<>>
<1>1. t \notin Live
  BY LiveCount
<1>2. round[t] \in {mround - 1, mround} /\ mround \in Int
  BY DEF Inv, TypeOK, RoundInv
<1>3. ~(round[t] < mround) /\ pc[t] \in Ended /\ chan[t] = <<>>
  BY <1>1 DEF Live
<1> QED
  BY <1>2, <1>3

----------------------------------------------------------------------------
(* Types.                                                                  *)

\* What MoreToSend promises: there is a record at the cursor.
LEMMA NextRecord ==
    ASSUME Inv, NEW t \in Threads, MoreToSend(t)
    PROVE  Args(t).mem[rec_cntr[t] + 1] \in Record
<1>1. rounds \in Seq([Threads -> [mem: Seq(Record), limit: Nat]]) /\ round[t] \in 1..Len(rounds)
  BY DEF Inv, TypeOK, JobTypes
<1>2. Args(t) \in [mem: Seq(Record), limit: Nat]
  BY <1>1 DEF Args
<1>3. Args(t).mem \in Seq(Record) /\ rec_cntr[t] \in Nat
  BY <1>2 DEF Inv, TypeOK
<1>4. rec_cntr[t] + 1 \in 1..Len(Args(t).mem)
  BY <1>3 DEF MoreToSend
<1> QED
  BY <1>3, <1>4

\* What a stored record changes.
LEMMA PutEffect ==
    ASSUME Inv, NEW t \in Threads, PutRecord(t)
    PROVE  /\ pc[t] = "loop" /\ pc' = pc /\ round' = round /\ buff_idx' = buff_idx
           /\ request' = request /\ chan' = chan
           /\ buff_off'[t] = buff_off[t] + HdrSize + rec_len
           /\ buff_off' \in [Threads -> 0..BuffSize]
           /\ buff_rec_cntr' \in [Threads -> Nat] /\ rec_cntr' \in [Threads -> Nat]
           /\ buff' \in [Threads -> [{0, 1} -> Buffer]]
           /\ Framed(buff'[t][buff_idx[t]], buff_off'[t])
           /\ \A k \in {0, 1} : k # buff_idx[t] => buff'[t][k] = buff[t][k]
<1>0. /\ buff \in [Threads -> [{0, 1} -> Buffer]] /\ buff_idx[t] \in {0, 1}
      /\ buff_off \in [Threads -> 0..BuffSize] /\ buff_off[t] \in 0..BuffSize
      /\ buff_rec_cntr \in [Threads -> Nat] /\ rec_cntr \in [Threads -> Nat]
      /\ JobTypes /\ TypeOK /\ rec_len \in Nat
      /\ HdrSize \in Nat /\ BuffSize \in Nat
  <2>1. TypeOK /\ BufferTypes /\ JobTypes
    BY DEF Inv
  <2>2. buff \in [Threads -> [{0, 1} -> Buffer]]
    BY <2>1 DEF BufferTypes
  <2>3. rec_len \in Nat /\ HdrSize \in Nat /\ BuffSize \in Nat
    BY <2>1, Sizes DEF JobTypes
  <2> QED
    BY <2>1, <2>2, <2>3 DEF TypeOK
<1>1. /\ pc[t] = "loop" /\ MoreToSend(t) /\ Fits(t)
      /\ UNCHANGED <<pc, round, buff_idx, request, chan>>
  BY DEF PutRecord
<1>2. buff_off[t] + HdrSize + rec_len <= BuffSize
  BY <1>0, <1>1, FitsMeans
<1>3. PICK rec \in Record : rec = Args(t).mem[rec_cntr[t] + 1]
  BY <1>1, NextRecord
<1>4. PICK b \in Buffer : b = buff[t][buff_idx[t]]
  BY <1>0
<1>5. Framed(b, buff_off[t])
  BY <1>1, <1>4 DEF Inv, FrameInv
<1>6. /\ Written(b, buff_off[t], rec) \in Buffer
      /\ Framed(Written(b, buff_off[t], rec), buff_off[t] + HdrSize + rec_len)
  BY <1>0, <1>2, <1>5, WrittenEffect
<1>7. buff' = [buff EXCEPT ![t][buff_idx[t]] = Written(b, buff_off[t], rec)]
  BY <1>0, <1>3, <1>4 DEF PutRecord
<1>8. /\ buff' \in [Threads -> [{0, 1} -> Buffer]]
      /\ buff'[t][buff_idx[t]] = Written(b, buff_off[t], rec)
      /\ \A k \in {0, 1} : k # buff_idx[t] => buff'[t][k] = buff[t][k]
  BY <1>0, <1>6, <1>7
<1>9. /\ buff_off' \in [Threads -> 0..BuffSize]
      /\ buff_off'[t] = buff_off[t] + HdrSize + rec_len
  BY <1>0, <1>2 DEF PutRecord
<1>10. buff_rec_cntr' \in [Threads -> Nat] /\ rec_cntr' \in [Threads -> Nat]
  BY <1>0 DEF PutRecord
<1> QED
  BY <1>1, <1>6, <1>8, <1>9, <1>10

\* The part of the types that worker threads and MPI change.
ThreadTypes ==
    /\ pc \in [Threads -> {"loop", "sent", "term", "single", "done"}]
    /\ round \in [Threads -> 1..Len(rounds)]
    /\ rec_cntr \in [Threads -> Nat]
    /\ buff_idx \in [Threads -> {0, 1}]
    /\ buff_off \in [Threads -> 0..BuffSize]
    /\ buff_rec_cntr \in [Threads -> Nat]
    /\ request \in [Threads -> {0, 1, InSend, NoRequest}]
    /\ buff \in [Threads -> [{0, 1} -> Buffer]]

ChanTypes == chan \in [Threads -> Seq(Msg)]

\* The part the master changes.
MasterTypes ==
    /\ mpc \in {"wait", "process", "next", "done"}
    /\ mround \in 1..Len(rounds)
    /\ rbuff_idx \in {0, 1}
    /\ rrequest \in {"null", "posted", "complete"}
    /\ msg_size \in 0..BuffSize
    /\ rec_ptr \in [buff: {0, 1}, pos: 0..BuffSize]
    /\ active_sources \in 0..Cardinality(Threads)
    /\ rec_buff \in [{0, 1} -> Buffer]
    /\ msg_end \in 0..BuffSize

\* The type invariant, by the part of the state that it is about.
LEMMA TypesSplit == TypeOK /\ BufferTypes <=> ThreadTypes /\ ChanTypes /\ MasterTypes
<1>1. ASSUME chan \in [Threads -> Seq(Msg)]
      PROVE  \A t \in Threads : \A i \in 1..Len(chan[t]) : chan[t][i].len \in 0..BuffSize
  <2>1. ASSUME NEW t \in Threads, NEW i \in 1..Len(chan[t]) PROVE chan[t][i] \in Msg
    BY <1>1, <2>1
  <2> QED
    BY <2>1 DEF Msg
<1> QED
  BY <1>1 DEF TypeOK, BufferTypes, ThreadTypes, ChanTypes, MasterTypes

\* The types of a thread's variables are kept.
LEMMA SendTypes ==
    ASSUME Inv, NEW t \in Threads, SendStep(t), UNCHANGED jobVars
    PROVE  ThreadTypes' /\ ChanTypes'
<1>0. /\ ThreadTypes /\ ChanTypes /\ rounds' = rounds
      /\ buff_idx[t] \in {0, 1} /\ 0 \in 0..BuffSize /\ buff_off[t] \in 0..BuffSize
  <2>1. ThreadTypes /\ ChanTypes
    BY TypesSplit DEF Inv
  <2> QED
    BY <2>1, Sizes DEF ThreadTypes, jobVars
<1>1. CASE PutRecord(t)
  BY <1>0, <1>1, PutEffect DEF ThreadTypes, ChanTypes
<1>2. CASE SendFull(t)
  <2>1. StartSend(t, buff_idx[t], buff_off[t])
    BY <1>2 DEF SendFull
  <2>2. /\ chan' \in [Threads -> Seq(Msg)]
        /\ request' \in [Threads -> {0, 1, InSend, NoRequest}]
    BY <1>0, <2>1, StartSendEffect
  <2>3. /\ buff_idx' = [buff_idx EXCEPT ![t] = 1 - @]
        /\ buff_off' = [buff_off EXCEPT ![t] = 0]
        /\ buff_rec_cntr' = [buff_rec_cntr EXCEPT ![t] = 0]
        /\ UNCHANGED <<pc, round, rec_cntr, buff>>
    BY <1>2 DEF SendFull
  <2>4. 1 - buff_idx[t] \in {0, 1}
    BY <1>0
  <2> QED
    BY <1>0, <2>2, <2>3, <2>4 DEF ThreadTypes, ChanTypes
<1>3. CASE SendRest(t)
  <2>1. StartSend(t, buff_idx[t], buff_off[t])
    BY <1>3 DEF SendRest
  <2>2. /\ chan' \in [Threads -> Seq(Msg)]
        /\ request' \in [Threads -> {0, 1, InSend, NoRequest}]
    BY <1>0, <2>1, StartSendEffect
  <2> QED
    BY <1>0, <1>3, <2>2 DEF SendRest, GoTo, ThreadTypes, ChanTypes, buffVars
<1>4. CASE NoRest(t)
  BY <1>0, <1>4 DEF NoRest, GoTo, ThreadTypes, ChanTypes, buffVars
<1>5. CASE StartTerminator(t)
  <2>1. StartSend(t, InSend, 0)
    BY <1>5 DEF StartTerminator
  <2>2. /\ chan' \in [Threads -> Seq(Msg)]
        /\ request' \in [Threads -> {0, 1, InSend, NoRequest}]
    BY <1>0, <2>1, StartSendEffect
  <2> QED
    BY <1>0, <1>5, <2>2 DEF StartTerminator, GoTo, ThreadTypes, ChanTypes, buffVars
<1>6. CASE FinishTerminator(t)
  BY <1>0, <1>6 DEF FinishTerminator, GoTo, ThreadTypes, ChanTypes, buffVars
<1>7. CASE BeginRound(t)
  <2>1. mround \in 1..Len(rounds) /\ round[t] \in 1..Len(rounds) /\ mround > round[t]
    BY <1>7 DEF BeginRound, Inv, TypeOK
  <2>2. round[t] + 1 \in 1..Len(rounds)
    BY <2>1
  <2> QED
    BY <1>0, <1>7, <2>2 DEF BeginRound, GoTo, ThreadTypes, ChanTypes
<1> QED
  BY <1>1, <1>2, <1>3, <1>4, <1>5, <1>6, <1>7 DEF SendStep

\* The types of the master's variables are kept.
LEMMA MasterKeepsTypes ==
    ASSUME Inv, MasterStep, UNCHANGED jobVars
    PROVE  MasterTypes'
<1>0. /\ MasterTypes /\ rounds' = rounds /\ 0 \in 0..BuffSize
      /\ Cardinality(Threads) \in Nat
  BY TypesSplit, Sizes, FS_CardinalityType, RawThreadsAssumption DEF Inv, jobVars
<1>1. CASE RecvTerminator
  <2>1. Arrived = 1
    BY <1>1 DEF RecvTerminator, Arrived
  <2>2. active_sources # 0
    BY <2>1, LiveCount
  <2>3. active_sources' \in 0..Cardinality(Threads)
    BY <1>0, <1>1, <2>2 DEF RecvTerminator, MasterTypes
  <2> QED
    BY <1>0, <1>1, <2>3 DEF RecvTerminator, MasterTypes
<1>2. CASE RecvData
  BY <1>0, <1>2 DEF RecvData, MasterTypes
<1>3. CASE ProcessRecord
  BY <1>0, <1>3, ProcessEffect DEF MasterTypes, recvVars
<1>4. CASE NextRecvLoop
  <2>1. mround < Len(rounds) /\ Len(rounds) \in Nat
    BY <1>4 DEF NextRecvLoop, Inv, ReceiverInv, JobTypes
  <2>2. mround + 1 \in 1..Len(rounds)
    BY <1>0, <2>1 DEF MasterTypes
  <2>3. Cardinality(Threads) \in 0..Cardinality(Threads)
    BY <1>0
  <2> QED
    BY <1>0, <1>4, <2>2, <2>3 DEF NextRecvLoop, MasterTypes
<1> QED
  BY <1>1, <1>2, <1>3, <1>4 DEF MasterStep

\* Every step keeps the types.
LEMMA TypeStep ==
    ASSUME Inv, [Next]_vars
    PROVE  TypeOK' /\ BufferTypes' /\ JobTypes'
<1>0. ThreadTypes /\ ChanTypes /\ MasterTypes /\ UNCHANGED jobVars
  BY TypesSplit, StepFrames DEF Inv
<1>1. JobTypes'
  BY <1>0 DEF Inv, JobTypes, jobVars
<1>2. ASSUME UNCHANGED threadVars PROVE ThreadTypes'
  BY <1>0, <1>2 DEF ThreadTypes, threadVars, buffVars, jobVars
<1>3. ASSUME UNCHANGED masterVars PROVE MasterTypes'
  BY <1>0, <1>3 DEF MasterTypes, masterVars, recvVars, jobVars
<1>4. ASSUME UNCHANGED chan PROVE ChanTypes'
  BY <1>0, <1>4 DEF ChanTypes
<1>5. ASSUME NEW t \in Threads, Transfer(t) PROVE ChanTypes'
  BY <1>5, TransferEffect DEF ChanTypes
<1>6. ASSUME NEW t \in Threads, Deliver(t) PROVE ChanTypes' /\ MasterTypes'
  <2>1. chan[t] \in Seq(Msg) /\ chan[t] # <<>> /\ chan' = [chan EXCEPT ![t] = Tail(@)]
    BY <1>6, DeliverEffect
  <2>2. Tail(chan[t]) \in Seq(Msg)
    BY <2>1
  <2>3. ChanTypes'
    BY <1>0, <2>1, <2>2 DEF ChanTypes
  <2>4. /\ chan[t][1].len \in 0..BuffSize /\ msg_size' = chan[t][1].len
        /\ rrequest' = "complete"
        /\ UNCHANGED <<mpc, mround, rbuff_idx, rec_ptr, msg_end, active_sources>>
    BY <1>6, DeliverEffect DEF Msg
  <2>5. rec_buff' \in [{0, 1} -> Buffer]
    BY <1>6, DeliverBuffer
  <2> QED
    BY <1>0, <2>3, <2>4, <2>5 DEF MasterTypes, jobVars
<1>7. ThreadTypes' /\ ChanTypes' /\ MasterTypes'
  BY <1>0, <1>2, <1>3, <1>4, <1>5, <1>6, SendTypes, MasterKeepsTypes, StepFrames
<1>8. TypeOK' /\ BufferTypes'
  BY <1>7, TypesSplit, PTL
<1> QED
  BY <1>1, <1>8

----------------------------------------------------------------------------
(* The worker threads.                                                     *)

\* What a send of a buffer or of the terminator leaves behind, one statement
\* for the three actions: the messages before it are in MPI's hands, and the
\* new one is of this round and at its request.
LEMMA SendEffect ==
    ASSUME Inv, NEW t \in Threads, SendFull(t) \/ SendRest(t) \/ StartTerminator(t)
    PROVE  \E at \in {0, 1, InSend}, len \in 0..BuffSize :
              /\ StartSend(t, at, len) /\ SendComplete(t)
              /\ ~StartTerminator(t) => at = buff_idx[t] /\ len = buff_off[t] /\ pc[t] = "loop"
              /\ StartTerminator(t) => at = InSend /\ len = 0 /\ pc[t] = "sent"
              /\ UNCHANGED <<round, buff, rec_cntr>>
<1>0. buff_idx[t] \in {0, 1} /\ buff_off[t] \in 0..BuffSize /\ 0 \in 0..BuffSize
  BY Sizes DEF Inv, TypeOK
<1>1. CASE StartTerminator(t)
  BY <1>0, <1>1 DEF StartTerminator, buffVars
<1>2. CASE SendFull(t) /\ ~StartTerminator(t)
  BY <1>0, <1>2 DEF SendFull
<1>3. CASE SendRest(t) /\ ~StartTerminator(t)
  BY <1>0, <1>3 DEF SendRest, buffVars
<1> QED
  BY <1>1, <1>2, <1>3

\* The sends: incomplete is only the one the request stands for.
LEMMA SenderStep ==
    ASSUME Inv, [Next]_vars, NEW t \in Threads
    PROVE  SenderInv(t)'
<1>0. /\ SenderInv(t) /\ ThreadTypes /\ ChanTypes
      /\ pc[t] \in {"loop", "sent", "term", "single", "done"} /\ buff_idx[t] \in {0, 1}
      /\ request[t] \in {0, 1, InSend, NoRequest}
  <2>1. SenderInv(t) /\ ThreadTypes /\ ChanTypes
    BY TypesSplit DEF Inv
  <2> QED
    BY <2>1 DEF ThreadTypes
<1>1. ASSUME PutRecord(t) PROVE SenderInv(t)'
  BY <1>0, <1>1, PutEffect DEF SenderInv
<1>2. ASSUME SendFull(t) \/ SendRest(t) \/ StartTerminator(t) PROVE SenderInv(t)'
  <2>1. PICK at \in {0, 1, InSend}, len \in 0..BuffSize :
           /\ StartSend(t, at, len) /\ SendComplete(t)
           /\ ~StartTerminator(t) => at = buff_idx[t]
    BY <1>2, SendEffect
  <2>2. \A i \in 1..Len(chan[t]) : chan[t][i].at = InMpi
    BY <2>1, AllTransferred
  <2>3. /\ Len(chan[t]) \in Nat /\ Len(chan'[t]) = Len(chan[t]) + 1
        /\ \A i \in 1..Len(chan[t]) : chan'[t][i] = chan[t][i]
        /\ chan'[t][Len(chan[t]) + 1].at = at /\ request'[t] = at
    BY <2>1, StartSendEffect
  <2>4. \A i \in 1..Len(chan'[t]) : chan'[t][i].at # InMpi => chan'[t][i].at = request'[t]
    <3>1. \A i \in 1..(Len(chan[t]) + 1) : i \in 1..Len(chan[t]) \/ i = Len(chan[t]) + 1
      BY <2>3
    <3> QED
      BY <2>2, <2>3, <3>1
  <2>5. /\ pc'[t] \notin {"single", "done"}
        /\ pc'[t] = "loop" => request'[t] # buff_idx'[t]
    <3>1. CASE SendFull(t)
      <4>1. ~StartTerminator(t)
        BY <3>1 DEF SendFull, StartTerminator
      <4>2. pc' = pc /\ pc[t] = "loop" /\ buff_idx'[t] = 1 - buff_idx[t]
        BY <1>0, <3>1 DEF SendFull, ThreadTypes
      <4> QED
        BY <1>0, <2>1, <2>3, <4>1, <4>2
    <3>2. CASE SendRest(t)
      BY <1>0, <3>2 DEF SendRest, GoTo, ThreadTypes
    <3>3. CASE StartTerminator(t)
      BY <1>0, <3>3 DEF StartTerminator, GoTo, ThreadTypes
    <3> QED
      BY <1>2, <3>1, <3>2, <3>3
  <2> QED
    BY <2>4, <2>5 DEF SenderInv
<1>3. ASSUME NoRest(t) PROVE SenderInv(t)'
  BY <1>0, <1>3 DEF NoRest, GoTo, buffVars, SenderInv, ThreadTypes
<1>4. ASSUME FinishTerminator(t) PROVE SenderInv(t)'
  <2>1. SendComplete(t) /\ chan' = chan /\ request'[t] = NoRequest
        /\ pc'[t] \in {"single", "done"}
    BY <1>0, <1>4 DEF FinishTerminator, GoTo, ThreadTypes
  <2>2. \A i \in 1..Len(chan[t]) : chan[t][i].at = InMpi
    BY <2>1, AllTransferred
  <2> QED
    BY <2>1, <2>2 DEF SenderInv
<1>5. ASSUME BeginRound(t) PROVE SenderInv(t)'
  <2>1. pc[t] = "single" /\ chan' = chan /\ request' = request
        /\ pc'[t] = "loop" /\ buff_idx'[t] = 0
    BY <1>0, <1>5 DEF BeginRound, GoTo, ThreadTypes
  <2>2. request[t] = NoRequest
    BY <1>0, <2>1 DEF SenderInv
  <2> QED
    BY <1>0, <2>1, <2>2 DEF SenderInv, NoRequest
<1>6. ASSUME Transfer(t), UNCHANGED threadVars PROVE SenderInv(t)'
  <2>1. /\ Len(chan'[t]) = Len(chan[t])
        /\ \A i \in 1..Len(chan[t]) : chan'[t][i].at \in {chan[t][i].at, InMpi}
    BY <1>6, TransferEffect
  <2> QED
    BY <1>0, <1>6, <2>1 DEF SenderInv, threadVars, buffVars
<1>7. ASSUME Deliver(t), UNCHANGED threadVars PROVE SenderInv(t)'
  <2>1. /\ Len(chan[t]) \in Nat \ {0} /\ Len(chan'[t]) = Len(chan[t]) - 1
        /\ \A i \in 1..Len(chan'[t]) : chan'[t][i] = chan[t][i + 1]
    BY <1>7, DeliverEffect
  <2>2. \A i \in 1..Len(chan'[t]) : i + 1 \in 1..Len(chan[t])
    BY <2>1
  <2> QED
    BY <1>0, <1>7, <2>1, <2>2 DEF SenderInv, threadVars, buffVars
<1>8. ASSUME UNCHANGED ThreadState(t), chan'[t] = chan[t] PROVE SenderInv(t)'
  BY <1>0, <1>8 DEF SenderInv, ThreadState
<1> QED
  BY <1>1, <1>2, <1>3, <1>4, <1>5, <1>6, <1>7, <1>8, OwnSteps DEF SendStep

\* The master's round changes when it goes on to the next one only.
LEMMA MroundStep ==
    ASSUME Inv, [Next]_vars
    PROVE  \/ mround' = mround
           \/ /\ NextRecvLoop /\ mround' = mround + 1 /\ active_sources = 0
              /\ UNCHANGED <<threadVars, chan>>
<1>1. ASSUME NextRecvLoop PROVE active_sources = 0 /\ mround' = mround + 1
  BY <1>1 DEF NextRecvLoop, Inv, ReceiverInv
<1>2. ASSUME MasterStep, ~NextRecvLoop PROVE mround' = mround
  BY <1>2 DEF MasterStep, RecvTerminator, RecvData, ProcessRecord
<1>3. ASSUME NEW t \in Threads, Deliver(t) PROVE mround' = mround
  BY <1>3 DEF Deliver
<1>4. ASSUME UNCHANGED masterVars PROVE mround' = mround
  BY <1>4 DEF masterVars
<1>5. ASSUME NextRecvLoop PROVE UNCHANGED <<threadVars, chan>>
  BY <1>5 DEF NextRecvLoop
<1> QED
  BY <1>1, <1>2, <1>3, <1>4, <1>5, StepFrames

\* The rounds of the threads and of their messages.
LEMMA RoundStep ==
    ASSUME Inv, [Next]_vars, NEW t \in Threads
    PROVE  RoundInv(t)'
<1>0. /\ RoundInv(t) /\ ThreadTypes /\ ChanTypes /\ mround \in Int /\ round[t] \in Int
      /\ pc[t] \in {"loop", "sent", "term", "single", "done"}
  <2>1. RoundInv(t) /\ ThreadTypes /\ ChanTypes /\ MasterTypes
    BY TypesSplit DEF Inv
  <2> QED
    BY <2>1 DEF ThreadTypes, MasterTypes
<1>1. CASE mround' # mround
  <2>1. active_sources = 0 /\ mround' = mround + 1 /\ UNCHANGED <<threadVars, chan>>
    BY <1>1, MroundStep
  <2>2. round[t] = mround /\ pc[t] \in Ended /\ chan[t] = <<>>
    BY <2>1, Quiet
  <2> QED
    BY <1>0, <2>1, <2>2 DEF RoundInv, threadVars
<1>2. CASE mround' = mround
  <2>1. ASSUME PutRecord(t) PROVE RoundInv(t)'
    BY <1>0, <1>2, <2>1, PutEffect DEF RoundInv
  <2>2. ASSUME SendFull(t) \/ SendRest(t) \/ StartTerminator(t) PROVE RoundInv(t)'
    <3>1. PICK at \in {0, 1, InSend}, len \in 0..BuffSize :
             StartSend(t, at, len) /\ round' = round /\ pc[t] \in {"loop", "sent"}
      BY <2>2, SendEffect
    <3>2. /\ Len(chan[t]) \in Nat /\ Len(chan'[t]) = Len(chan[t]) + 1
          /\ \A i \in 1..Len(chan[t]) : chan'[t][i] = chan[t][i]
          /\ chan'[t][Len(chan[t]) + 1].tag = round[t]
      BY <3>1, StartSendEffect
    <3>3. round[t] = mround
      BY <1>0, <3>1 DEF RoundInv, Ended
    <3>4. \A i \in 1..Len(chan'[t]) : chan'[t][i].tag = round[t]
      <4>1. \A i \in 1..(Len(chan[t]) + 1) : i \in 1..Len(chan[t]) \/ i = Len(chan[t]) + 1
        BY <3>2
      <4> QED
        BY <1>0, <3>2, <4>1 DEF RoundInv
    <3> QED
      BY <1>0, <1>2, <3>1, <3>3, <3>4 DEF RoundInv
  <2>3. ASSUME NoRest(t) PROVE RoundInv(t)'
    BY <1>0, <1>2, <2>3 DEF NoRest, RoundInv, Ended
  <2>4. ASSUME FinishTerminator(t) PROVE RoundInv(t)'
    BY <1>0, <1>2, <2>4 DEF FinishTerminator, GoTo, RoundInv, Ended, ThreadTypes
  <2>5. ASSUME BeginRound(t) PROVE RoundInv(t)'
    <3>1. chan' = chan /\ round[t] < mround /\ round'[t] = round[t] + 1
      BY <1>0, <2>5 DEF BeginRound, ThreadTypes
    <3>2. chan[t] = <<>> /\ round'[t] = mround
      BY <1>0, <3>1 DEF RoundInv
    <3> QED
      BY <1>0, <1>2, <3>1, <3>2 DEF RoundInv
  <2>6. ASSUME Transfer(t), UNCHANGED threadVars PROVE RoundInv(t)'
    <3>1. /\ chan' \in [Threads -> Seq(Msg)] /\ Len(chan'[t]) = Len(chan[t])
          /\ \A i \in 1..Len(chan[t]) : chan'[t][i].tag = chan[t][i].tag
      BY <2>6, TransferEffect
    <3>2. chan[t] = <<>> => chan'[t] = <<>>
      BY <3>1
    <3> QED
      BY <1>0, <1>2, <2>6, <3>1, <3>2 DEF RoundInv, threadVars
  <2>7. ASSUME Deliver(t), UNCHANGED threadVars PROVE RoundInv(t)'
    <3>1. /\ Len(chan[t]) \in Nat \ {0} /\ Len(chan'[t]) = Len(chan[t]) - 1
          /\ \A i \in 1..Len(chan'[t]) : chan'[t][i] = chan[t][i + 1]
          /\ chan[t] # <<>>
      BY <2>7, DeliverEffect
    <3>2. \A i \in 1..Len(chan'[t]) : i + 1 \in 1..Len(chan[t])
      BY <3>1
    <3> QED
      BY <1>0, <1>2, <2>7, <3>1, <3>2 DEF RoundInv, threadVars
  <2>8. ASSUME UNCHANGED ThreadState(t), chan'[t] = chan[t] PROVE RoundInv(t)'
    BY <1>0, <1>2, <2>8 DEF RoundInv, ThreadState
  <2> QED
    BY <2>1, <2>2, <2>3, <2>4, <2>5, <2>6, <2>7, <2>8, OwnSteps DEF SendStep
<1> QED
  BY <1>1, <1>2

\* A buffer handed to MPI is not empty: a record that does not fit leaves no room
\* for another one, so there is one already.
LEMMA FullNotEmpty ==
    ASSUME Inv, NEW t \in Threads, SendFull(t) \/ SendRest(t)
    PROVE  buff_off[t] # 0
<1>1. CASE SendFull(t)
  <2>1. TypeOK /\ JobTypes /\ rec_len \in 1..MaxRawLen
    BY DEF Inv, JobTypes
  <2>2. ~(buff_off[t] + HdrSize + rec_len <= BuffSize)
    BY <1>1, <2>1, FitsMeans DEF SendFull
  <2>3. HdrSize + rec_len <= BuffSize /\ HdrSize \in Nat
    BY <2>1, Sizes
  <2> QED
    BY <2>1, <2>2, <2>3
<1>2. CASE SendRest(t)
  BY <1>2 DEF SendRest, Inv, FrameInv
<1> QED
  BY <1>1, <1>2

\* Empty messages are terminators.
LEMMA TerminatorStep ==
    ASSUME Inv, [Next]_vars, NEW t \in Threads
    PROVE  TerminatorLast(t)'
<1>0. /\ TerminatorLast(t) /\ RoundInv(t) /\ ThreadTypes /\ ChanTypes
      /\ pc[t] \in {"loop", "sent", "term", "single", "done"}
      /\ chan[t] \in Seq(Msg) /\ Len(chan[t]) \in Nat
  <2>1. TerminatorLast(t) /\ RoundInv(t) /\ ThreadTypes /\ ChanTypes
    BY TypesSplit DEF Inv
  <2> QED
    BY <2>1 DEF ThreadTypes, ChanTypes
<1>1. ASSUME PutRecord(t) PROVE TerminatorLast(t)'
  BY <1>0, <1>1, PutEffect DEF TerminatorLast
<1>2. ASSUME SendFull(t) \/ SendRest(t) PROVE TerminatorLast(t)'
  <2>1. ~StartTerminator(t) /\ pc[t] = "loop" /\ pc'[t] \in {"loop", "sent"}
    BY <1>0, <1>2 DEF SendFull, SendRest, StartTerminator, GoTo, ThreadTypes
  <2>2. PICK at \in {0, 1, InSend}, len \in 0..BuffSize :
           StartSend(t, at, len) /\ len = buff_off[t]
    BY <1>2, <2>1, SendEffect
  <2>3. /\ Len(chan'[t]) = Len(chan[t]) + 1
        /\ \A i \in 1..Len(chan[t]) : chan'[t][i] = chan[t][i]
        /\ chan'[t][Len(chan[t]) + 1].len = len
    BY <2>2, StartSendEffect
  <2>4. len # 0
    BY <1>2, <2>2, FullNotEmpty
  <2>5. \A i \in 1..Len(chan'[t]) : i \in 1..Len(chan[t]) \/ i = Len(chan[t]) + 1
    BY <1>0, <2>3
  <2>6. \A i \in 1..Len(chan'[t]) : chan'[t][i].len # 0
    BY <1>0, <2>1, <2>3, <2>4, <2>5 DEF TerminatorLast, Ended
  <2> QED
    BY <2>1, <2>6 DEF TerminatorLast, Ended
<1>3. ASSUME NoRest(t) PROVE TerminatorLast(t)'
  BY <1>0, <1>3 DEF NoRest, GoTo, TerminatorLast, Ended, ThreadTypes
<1>4. ASSUME StartTerminator(t) PROVE TerminatorLast(t)'
  <2>1. pc[t] = "sent" /\ pc'[t] = "term" /\ StartSend(t, InSend, 0) /\ 0 \in 0..BuffSize
    BY <1>0, <1>4, Sizes DEF StartTerminator, GoTo, ThreadTypes
  <2>2. /\ Len(chan'[t]) = Len(chan[t]) + 1
        /\ \A i \in 1..Len(chan[t]) : chan'[t][i] = chan[t][i]
        /\ chan'[t][Len(chan[t]) + 1].len = 0
    BY <2>1, StartSendEffect
  <2>3. ASSUME NEW i \in 1..Len(chan'[t])
        PROVE  chan'[t][i].len = 0 <=> i = Len(chan'[t])
    <3>1. CASE i = Len(chan[t]) + 1
      BY <2>2, <3>1
    <3>2. CASE i # Len(chan[t]) + 1
      <4>1. i \in 1..Len(chan[t])
        BY <1>0, <2>2, <3>2
      <4> QED
        BY <1>0, <2>1, <2>2, <3>2, <4>1 DEF TerminatorLast, Ended
    <3> QED
      BY <3>1, <3>2
  <2> QED
    BY <2>1, <2>3 DEF TerminatorLast, Ended
<1>5. ASSUME FinishTerminator(t) PROVE TerminatorLast(t)'
  BY <1>0, <1>5 DEF FinishTerminator, GoTo, TerminatorLast, Ended, ThreadTypes
<1>6. ASSUME BeginRound(t) PROVE TerminatorLast(t)'
  <2>1. chan' = chan /\ round[t] < mround /\ pc'[t] = "loop"
    BY <1>0, <1>6 DEF BeginRound, GoTo, ThreadTypes, RoundInv
  <2>2. chan[t] = <<>>
    BY <1>0, <2>1 DEF RoundInv
  <2> QED
    BY <2>1, <2>2 DEF TerminatorLast, Ended
<1>7. ASSUME Transfer(t), UNCHANGED threadVars PROVE TerminatorLast(t)'
  <2>1. /\ Len(chan'[t]) = Len(chan[t])
        /\ \A i \in 1..Len(chan[t]) : chan'[t][i].len = chan[t][i].len
    BY <1>7, TransferEffect
  <2> QED
    BY <1>0, <1>7, <2>1 DEF TerminatorLast, threadVars
<1>8. ASSUME Deliver(t), UNCHANGED threadVars PROVE TerminatorLast(t)'
  <2>1. /\ Len(chan[t]) \in Nat \ {0} /\ Len(chan'[t]) = Len(chan[t]) - 1
        /\ \A i \in 1..Len(chan'[t]) : chan'[t][i] = chan[t][i + 1]
        /\ pc' = pc
    BY <1>8, DeliverEffect DEF threadVars
  <2>2. \A i \in 1..Len(chan'[t]) :
           i + 1 \in 1..Len(chan[t]) /\ (i = Len(chan'[t]) <=> i + 1 = Len(chan[t]))
    BY <2>1
  <2> QED
    BY <1>0, <2>1, <2>2 DEF TerminatorLast
<1>9. ASSUME UNCHANGED ThreadState(t), chan'[t] = chan[t] PROVE TerminatorLast(t)'
  BY <1>0, <1>9 DEF TerminatorLast, ThreadState
<1> QED
  BY <1>1, <1>2, <1>3, <1>4, <1>5, <1>6, <1>7, <1>8, <1>9, OwnSteps DEF SendStep

\* What is in the buffers is framed.
LEMMA FrameStep ==
    ASSUME Inv, [Next]_vars, NEW t \in Threads
    PROVE  FrameInv(t)'
<1>0. /\ FrameInv(t) /\ SenderInv(t) /\ ThreadTypes /\ ChanTypes /\ rec_len' = rec_len
      /\ pc[t] \in {"loop", "sent", "term", "single", "done"}
      /\ chan[t] \in Seq(Msg) /\ Len(chan[t]) \in Nat /\ buff_idx[t] \in {0, 1}
  <2>1. FrameInv(t) /\ SenderInv(t) /\ ThreadTypes /\ ChanTypes /\ rec_len' = rec_len
    BY TypesSplit, StepFrames DEF Inv, jobVars
  <2> QED
    BY <2>1 DEF ThreadTypes, ChanTypes
<1>1. \A i \in 1..Len(chan[t]) : Framed(Payload(t, chan[t][i]), chan[t][i].len)
  BY <1>0 DEF FrameInv
\* The messages sent before keep their bytes while the buffers do.
<1>2. ASSUME buff'[t] = buff[t], NEW i, NEW j, chan'[t][i] = chan[t][j],
             j \in 1..Len(chan[t])
      PROVE  Framed(Payload(t, chan[t][i]), chan[t][i].len)'
  <2>1. Framed(Payload(t, chan[t][j]), chan[t][j].len)
    BY <1>1, <1>2
  <2>2. PICK b, len : b = Payload(t, chan[t][j]) /\ len = chan[t][j].len
    OBVIOUS
  <2>3. b = Payload(t, chan[t][i])' /\ len = chan'[t][i].len
    BY <1>2, <2>2 DEF Payload
  <2>4. Framed(b, len)
    BY <2>1, <2>2
  <2> QED
    BY <1>0, <2>3, <2>4 DEF Framed, Frames
<1>3. ASSUME PutRecord(t) PROVE FrameInv(t)'
  <2>1. /\ pc' = pc /\ buff_idx' = buff_idx /\ chan' = chan
        /\ buff_off'[t] = buff_off[t] + HdrSize + rec_len
        /\ Framed(buff'[t][buff_idx[t]], buff_off'[t])
        /\ \A k \in {0, 1} : k # buff_idx[t] => buff'[t][k] = buff[t][k]
        /\ pc[t] = "loop"
    BY <1>3, PutEffect
  <2>2. buff_off'[t] # 0
    <3>1. buff_off[t] \in Nat /\ HdrSize \in Nat \ {0} /\ rec_len \in Nat
      BY <1>0, Sizes DEF ThreadTypes, Inv, JobTypes
    <3> QED
      BY <2>1, <3>1
  <2>3. Framed(buff[t][buff_idx[t]], buff_off[t])'
    <3>1. PICK b, len : b = buff'[t][buff_idx[t]] /\ len = buff_off'[t]
      OBVIOUS
    <3>2. Framed(b, len)
      BY <2>1, <3>1
    <3>3. b = buff'[t][buff_idx'[t]]
      BY <2>1, <3>1
    <3> QED
      BY <1>0, <3>1, <3>2, <3>3 DEF Framed, Frames
  <2>4. ASSUME NEW i \in 1..Len(chan[t]) PROVE Framed(Payload(t, chan[t][i]), chan[t][i].len)'
    <3>1. chan[t][i] \in Msg
      BY <1>0
    <3>2. ASSUME chan[t][i].at \in {0, 1} PROVE chan[t][i].at # buff_idx[t]
      BY <1>0, <2>1, <3>2 DEF SenderInv, InMpi
    <3>3. Payload(t, chan[t][i])' = Payload(t, chan[t][i])
      BY <2>1, <3>2 DEF Payload
    <3>4. PICK b, len : b = Payload(t, chan[t][i]) /\ len = chan[t][i].len
      OBVIOUS
    <3>5. Framed(b, len)
      BY <1>1, <3>4
    <3>6. b = Payload(t, chan[t][i])' /\ len = chan'[t][i].len
      BY <2>1, <3>3, <3>4
    <3> QED
      BY <1>0, <3>5, <3>6 DEF Framed, Frames
  <2> QED
    BY <2>1, <2>2, <2>3, <2>4 DEF FrameInv
<1>4. ASSUME SendFull(t) \/ SendRest(t) \/ StartTerminator(t) PROVE FrameInv(t)'
  <2>1. PICK at \in {0, 1, InSend}, len \in 0..BuffSize :
           /\ StartSend(t, at, len)
           /\ ~StartTerminator(t) => at = buff_idx[t] /\ len = buff_off[t] /\ pc[t] = "loop"
           /\ StartTerminator(t) => at = InSend /\ len = 0
           /\ buff' = buff
    BY <1>4, SendEffect
  <2>2. /\ Len(chan'[t]) = Len(chan[t]) + 1
        /\ \A i \in 1..Len(chan[t]) : chan'[t][i] = chan[t][i]
        /\ chan'[t][Len(chan[t]) + 1].at = at
        /\ chan'[t][Len(chan[t]) + 1].len = len
    BY <2>1, StartSendEffect
  <2>3. PICK n \in Nat : n = Len(chan[t]) + 1
    BY <1>0
  <2>4. PICK b : b = Payload(t, chan[t][n])'
    OBVIOUS
  <2>5. Framed(b, len)
    <3>1. CASE StartTerminator(t)
      BY <2>1, <3>1, FrameEmpty
    <3>2. CASE ~StartTerminator(t)
      <4>1. chan'[t][n].at = buff_idx[t]
        BY <2>1, <2>2, <2>3, <3>2
      <4>2. b = buff[t][buff_idx[t]]
        BY <1>0, <2>1, <2>4, <4>1 DEF Payload
      <4> QED
        BY <1>0, <2>1, <3>2, <4>2 DEF FrameInv
    <3> QED
      BY <3>1, <3>2
  <2>6. Framed(Payload(t, chan[t][n]), chan[t][n].len)'
    <3>1. len = chan'[t][n].len
      BY <2>2, <2>3
    <3> QED
      BY <1>0, <2>4, <2>5, <3>1 DEF Framed, Frames
  <2>7. ASSUME NEW i \in 1..Len(chan'[t]) PROVE Framed(Payload(t, chan[t][i]), chan[t][i].len)'
    <3>1. CASE i = n
      BY <2>6, <3>1
    <3>2. CASE i # n
      <4>1. i \in 1..Len(chan[t])
        BY <1>0, <2>2, <2>3, <3>2
      <4> QED
        BY <1>2, <2>1, <2>2, <4>1
    <3> QED
      BY <3>1, <3>2
  <2>8. pc'[t] = "loop" => buff_off'[t] = 0 /\ buff_rec_cntr'[t] = 0
    <3>1. CASE SendFull(t)
      BY <1>0, <3>1 DEF SendFull, ThreadTypes
    <3>2. CASE SendRest(t)
      BY <1>0, <3>2 DEF SendRest, GoTo, ThreadTypes
    <3>3. CASE StartTerminator(t)
      BY <1>0, <3>3 DEF StartTerminator, GoTo, ThreadTypes
    <3> QED
      BY <1>4, <3>1, <3>2, <3>3
  <2>9. pc'[t] = "loop" => Framed(buff[t][buff_idx[t]], buff_off[t])'
    <3>1. PICK c : c = buff'[t][buff_idx'[t]]
      OBVIOUS
    <3>2. Framed(c, 0)
      BY FrameEmpty
    <3> QED
      BY <1>0, <2>8, <3>1, <3>2 DEF Framed, Frames
  <2> QED
    BY <2>7, <2>8, <2>9 DEF FrameInv
<1>5. ASSUME NoRest(t) \/ FinishTerminator(t) PROVE FrameInv(t)'
  <2>1. chan' = chan /\ buff' = buff /\ pc'[t] # "loop"
    BY <1>0, <1>5 DEF NoRest, FinishTerminator, GoTo, buffVars, ThreadTypes
  <2>2. ASSUME NEW i \in 1..Len(chan'[t]) PROVE Framed(Payload(t, chan[t][i]), chan[t][i].len)'
    BY <1>2, <2>1
  <2> QED
    BY <2>1, <2>2 DEF FrameInv
<1>6. ASSUME BeginRound(t) PROVE FrameInv(t)'
  <2>1. chan' = chan /\ buff' = buff /\ buff_off'[t] = 0 /\ buff_rec_cntr'[t] = 0
    BY <1>0, <1>6 DEF BeginRound, ThreadTypes
  <2>2. ASSUME NEW i \in 1..Len(chan'[t]) PROVE Framed(Payload(t, chan[t][i]), chan[t][i].len)'
    BY <1>2, <2>1
  <2>3. Framed(buff[t][buff_idx[t]], buff_off[t])'
    <3>1. PICK c : c = buff'[t][buff_idx'[t]]
      OBVIOUS
    <3>2. Framed(c, 0)
      BY FrameEmpty
    <3> QED
      BY <1>0, <2>1, <3>1, <3>2 DEF Framed, Frames
  <2> QED
    BY <2>1, <2>2, <2>3 DEF FrameInv
\* The remaining steps leave the thread alone.
<1>7. ASSUME UNCHANGED ThreadState(t),
             \A i \in 1..Len(chan'[t]) : Framed(Payload(t, chan[t][i]), chan[t][i].len)'
      PROVE  FrameInv(t)'
  <2>1. /\ pc'[t] = pc[t] /\ buff'[t] = buff[t] /\ buff_idx'[t] = buff_idx[t]
        /\ buff_off'[t] = buff_off[t] /\ buff_rec_cntr'[t] = buff_rec_cntr[t]
    BY <1>7 DEF ThreadState
  <2>2. pc[t] = "loop" => Framed(buff[t][buff_idx[t]], buff_off[t])'
    <3>1. PICK b, len : b = buff[t][buff_idx[t]] /\ len = buff_off[t]
      OBVIOUS
    <3>2. pc[t] = "loop" => Framed(b, len)
      BY <1>0, <3>1 DEF FrameInv
    <3>3. b = buff'[t][buff_idx'[t]] /\ len = buff_off'[t]
      BY <2>1, <3>1
    <3> QED
      BY <1>0, <3>2, <3>3 DEF Framed, Frames
  <2> QED
    BY <1>0, <1>7, <2>1, <2>2 DEF FrameInv
<1>8. ASSUME Transfer(t), UNCHANGED threadVars PROVE FrameInv(t)'
  <2>1. /\ Len(chan'[t]) = Len(chan[t])
        /\ \A i \in 1..Len(chan[t]) :
              /\ chan'[t][i].len = chan[t][i].len
              /\ Payload(t, chan'[t][i]) = Payload(t, chan[t][i])
    BY <1>8, TransferEffect
  <2>2. UNCHANGED ThreadState(t) /\ buff' = buff
    BY <1>8 DEF threadVars, buffVars, ThreadState
  <2>3. ASSUME NEW i \in 1..Len(chan'[t]) PROVE Framed(Payload(t, chan[t][i]), chan[t][i].len)'
    <3>1. PICK b, len : b = Payload(t, chan[t][i]) /\ len = chan[t][i].len
      OBVIOUS
    <3>2. Framed(b, len)
      BY <1>1, <2>1, <3>1
    <3>3. b = Payload(t, chan[t][i])' /\ len = chan'[t][i].len
      BY <2>1, <2>2, <3>1 DEF Payload
    <3> QED
      BY <1>0, <3>2, <3>3 DEF Framed, Frames
  <2> QED
    BY <1>7, <2>2, <2>3
<1>9. ASSUME Deliver(t), UNCHANGED threadVars PROVE FrameInv(t)'
  <2>1. /\ Len(chan[t]) \in Nat \ {0} /\ Len(chan'[t]) = Len(chan[t]) - 1
        /\ \A i \in 1..Len(chan'[t]) : chan'[t][i] = chan[t][i + 1]
    BY <1>9, DeliverEffect
  <2>2. UNCHANGED ThreadState(t) /\ buff' = buff
    BY <1>9 DEF threadVars, buffVars, ThreadState
  <2>3. ASSUME NEW i \in 1..Len(chan'[t]) PROVE Framed(Payload(t, chan[t][i]), chan[t][i].len)'
    <3>1. i + 1 \in 1..Len(chan[t])
      BY <2>1
    <3> QED
      BY <1>2, <2>1, <2>2, <3>1
  <2> QED
    BY <1>7, <2>2, <2>3
<1>10. ASSUME UNCHANGED ThreadState(t), chan'[t] = chan[t] PROVE FrameInv(t)'
  <2>1. buff'[t] = buff[t]
    BY <1>10 DEF ThreadState
  <2>2. ASSUME NEW i \in 1..Len(chan'[t]) PROVE Framed(Payload(t, chan[t][i]), chan[t][i].len)'
    BY <1>2, <1>10, <2>1
  <2> QED
    BY <1>7, <1>10, <2>2
<1> QED
  BY <1>3, <1>4, <1>5, <1>6, <1>8, <1>9, <1>10, OwnSteps DEF SendStep

----------------------------------------------------------------------------
(* The master.                                                             *)

\* The receive request and the master's place in its rounds.
LEMMA ReceiverStep ==
    ASSUME Inv, [Next]_vars
    PROVE  ReceiverInv'
<1>0. ReceiverInv /\ MasterTypes /\ rounds' = rounds /\ Len(rounds) \in Nat
  BY TypesSplit, StepFrames DEF Inv, jobVars, JobTypes
<1>1. ASSUME NEW t \in Threads, Deliver(t) PROVE ReceiverInv'
  <2>1. /\ rrequest = "posted" /\ rrequest' = "complete"
        /\ UNCHANGED <<mpc, mround, active_sources>>
    BY <1>1 DEF Deliver
  <2> QED
    BY <1>0, <2>1 DEF ReceiverInv
<1>2. CASE RecvTerminator
  <2>1. /\ mpc = "wait" /\ mround' = mround
        /\ \/ active_sources' # 0 /\ rrequest' = "posted" /\ mpc' = mpc
           \/ active_sources' = 0 /\ rrequest' = "null" /\ mpc' = "done"
           \/ active_sources' = 0 /\ rrequest' = "null" /\ mpc' = "next" /\ mround # Len(rounds)
    BY <1>2 DEF RecvTerminator
  <2> QED
    BY <1>0, <2>1 DEF ReceiverInv, MasterTypes
<1>3. CASE RecvData
  BY <1>0, <1>3 DEF RecvData, ReceiverInv
<1>4. CASE ProcessRecord
  <2>1. mpc = "process" /\ mpc' \in {"process", "wait"} /\ UNCHANGED <<mround, recvVars, active_sources>>
    BY <1>4, ProcessEffect
  <2> QED
    BY <1>0, <2>1 DEF ReceiverInv, recvVars
<1>5. CASE NextRecvLoop
  BY <1>0, <1>5 DEF NextRecvLoop, ReceiverInv
<1>6. ASSUME UNCHANGED masterVars PROVE ReceiverInv'
  BY <1>0, <1>6 DEF ReceiverInv, masterVars, recvVars
<1> QED
  BY <1>1, <1>2, <1>3, <1>4, <1>5, <1>6, StepFrames DEF MasterStep

\* What has been received is framed.
LEMMA RecvFramesStep ==
    ASSUME Inv, [Next]_vars
    PROVE  RecvFrames'
<1>0. /\ RecvFrames /\ MasterTypes /\ rec_len' = rec_len /\ rbuff_idx \in {0, 1}
      /\ msg_end \in 0..BuffSize
  <2>1. RecvFrames /\ MasterTypes /\ rec_len' = rec_len
    BY TypesSplit, StepFrames DEF Inv, jobVars
  <2> QED
    BY <2>1 DEF MasterTypes
<1>1. ASSUME NEW t \in Threads, Deliver(t) PROVE RecvFrames'
  <2>1. /\ UNCHANGED <<mpc, rbuff_idx, rec_ptr, msg_end>>
        /\ 1 \in 1..Len(chan[t]) /\ chan[t][1] \in Msg
        /\ msg_size' = chan[t][1].len /\ rrequest' = "complete"
    BY <1>1, DeliverEffect
  <2>2. /\ \A o \in 0..(chan[t][1].len - 1) :
              rec_buff'[rbuff_idx][o] = Payload(t, chan[t][1])[o]
        /\ \A k \in {0, 1} : k # rbuff_idx => rec_buff'[k] = rec_buff[k]
    BY <1>1, DeliverBuffer
  <2>3. PICK b, c : b = Payload(t, chan[t][1]) /\ c = rec_buff'[rbuff_idx]
    OBVIOUS
  <2>4. PICK len \in Nat : len = chan[t][1].len
    BY <2>1, Sizes DEF Msg
  <2>5. Framed(b, len)
    BY <2>1, <2>3, <2>4 DEF Inv, FrameInv
  <2>6. \A o \in 0..(len - 1) : c[o] = b[o]
    BY <2>2, <2>3, <2>4
  <2>7. Framed(c, len)
    BY <2>5, <2>6, FramedCopy
  <2>8. Framed(rec_buff[rbuff_idx], msg_size)'
    <3>1. c = rec_buff'[rbuff_idx'] /\ len = msg_size'
      BY <2>1, <2>3, <2>4
    <3> QED
      BY <1>0, <2>7, <3>1 DEF Framed, Frames
  <2>9. ASSUME mpc = "process"
        PROVE  /\ rec_ptr.buff # rbuff_idx
               /\ rec_ptr.pos # msg_end
               /\ rec_buff'[rec_ptr.buff] = rec_buff[rec_ptr.buff]
               /\ \E F \in SUBSET (0..msg_end) :
                     Frames(rec_buff[rec_ptr.buff], msg_end, F) /\ rec_ptr.pos \in F
    <3>1. rec_ptr.buff \in {0, 1}
      BY <1>0 DEF MasterTypes
    <3> QED
      BY <1>0, <2>2, <2>9, <3>1 DEF RecvFrames
  <2>10. ASSUME mpc = "process"
         PROVE  \E F \in SUBSET (0..msg_end) :
                   Frames(rec_buff[rec_ptr.buff], msg_end, F)' /\ rec_ptr.pos \in F
    BY <1>0, <2>1, <2>9, <2>10 DEF Frames
  <2> QED
    BY <2>1, <2>8, <2>9, <2>10 DEF RecvFrames
<1>2. CASE RecvTerminator
  BY <1>2 DEF RecvTerminator, RecvFrames
<1>3. CASE RecvData
  <2>1. /\ rec_ptr' = [buff |-> rbuff_idx, pos |-> 0] /\ msg_end' = msg_size
        /\ rbuff_idx' = 1 - rbuff_idx /\ rrequest = "complete" /\ rrequest' = "posted"
        /\ msg_size # 0 /\ rec_buff' = rec_buff
    BY <1>3 DEF RecvData
  <2>2. PICK F \in SUBSET (0..msg_size) : Frames(rec_buff[rbuff_idx], msg_size, F)
    BY <1>0, <2>1 DEF RecvFrames, Framed
  <2>3. 0 \in F
    BY <2>2 DEF Frames
  <2>4. rec_ptr'.buff = rbuff_idx /\ rec_ptr'.pos = 0
    BY <2>1
  <2>5. Frames(rec_buff[rec_ptr.buff], msg_end, F)' /\ rec_ptr'.pos \in F
    BY <1>0, <2>1, <2>2, <2>3, <2>4 DEF Frames
  <2>6. rec_ptr'.buff # rbuff_idx'
    BY <1>0, <2>1, <2>4
  <2> QED
    BY <2>1, <2>4, <2>5, <2>6 DEF RecvFrames
<1>4. CASE ProcessRecord
  <2>1. /\ mpc = "process" /\ rec_ptr'.buff = rec_ptr.buff
        /\ rec_ptr'.pos = rec_ptr.pos + HdrSize + rec_len
        /\ mpc' = IF rec_ptr'.pos < msg_end THEN "process" ELSE "wait"
        /\ UNCHANGED <<recvVars, msg_end>>
    BY <1>4, ProcessEffect
  <2>2. rec_buff' = rec_buff /\ rbuff_idx' = rbuff_idx /\ rrequest' = rrequest /\ msg_size' = msg_size
    BY <2>1 DEF recvVars
  <2>3. PICK F \in SUBSET (0..msg_end) :
           Frames(rec_buff[rec_ptr.buff], msg_end, F) /\ rec_ptr.pos \in F
    BY <1>0, <2>1 DEF RecvFrames
  <2>4. rec_ptr'.pos \in F
    BY <1>0, <2>1, <2>3 DEF RecvFrames, Frames
  <2>5. Frames(rec_buff[rec_ptr.buff], msg_end, F)'
    BY <1>0, <2>1, <2>2, <2>3 DEF Frames
  <2>6. rec_ptr'.buff # rbuff_idx'
    BY <1>0, <2>1, <2>2 DEF RecvFrames
  <2>7. mpc' = "process" => rec_ptr'.pos # msg_end'
    BY <1>0, <2>1, <2>3, <2>4
  <2>8. rrequest' = "complete" => Framed(rec_buff[rbuff_idx], msg_size)'
    BY <1>0, <2>2 DEF RecvFrames, Framed, Frames
  <2> QED
    BY <2>1, <2>4, <2>5, <2>6, <2>7, <2>8 DEF RecvFrames
<1>5. CASE NextRecvLoop
  BY <1>5 DEF NextRecvLoop, RecvFrames
<1>6. ASSUME UNCHANGED masterVars PROVE RecvFrames'
  BY <1>0, <1>6 DEF RecvFrames, Framed, Frames, masterVars, recvVars
<1> QED
  BY <1>1, <1>2, <1>3, <1>4, <1>5, <1>6, StepFrames DEF MasterStep

\* A thread stops being live when its terminator is matched, and starts again
\* with the next round of the master.
LEMMA LiveStep ==
    ASSUME Inv, [Next]_vars, NEW t \in Threads, mround' = mround
    PROVE  \/ t \in Live' <=> t \in Live
           \/ Deliver(t) /\ chan[t][1].len = 0
<1>0. /\ ThreadTypes /\ ChanTypes /\ RoundInv(t) /\ TerminatorLast(t)
      /\ pc[t] \in {"loop", "sent", "term", "single", "done"}
      /\ chan[t] \in Seq(Msg) /\ Len(chan[t]) \in Nat
      /\ round[t] \in Int /\ mround \in Int
  <2>1. ThreadTypes /\ ChanTypes /\ MasterTypes /\ RoundInv(t) /\ TerminatorLast(t)
    BY TypesSplit DEF Inv
  <2> QED
    BY <2>1 DEF ThreadTypes, ChanTypes, MasterTypes
<1>1. ASSUME PutRecord(t) PROVE t \in Live' <=> t \in Live
  BY <1>1, PutEffect DEF Live
<1>2. ASSUME SendFull(t) \/ SendRest(t) \/ StartTerminator(t) PROVE t \in Live' <=> t \in Live
  <2>1. PICK at \in {0, 1, InSend}, len \in 0..BuffSize :
           StartSend(t, at, len) /\ pc[t] \in {"loop", "sent"}
    BY <1>2, SendEffect
  <2>2. chan' \in [Threads -> Seq(Msg)] /\ Len(chan'[t]) = Len(chan[t]) + 1
    BY <2>1, StartSendEffect
  <2>3. chan'[t] # <<>>
    BY <1>0, <2>2
  <2> QED
    BY <2>1, <2>3 DEF Live, Ended
<1>3. ASSUME NoRest(t) PROVE t \in Live' <=> t \in Live
  <2>1. pc[t] = "loop" /\ pc'[t] = "sent"
    BY <1>0, <1>3 DEF NoRest, GoTo, ThreadTypes
  <2> QED
    BY <2>1 DEF Live, Ended
<1>4. ASSUME FinishTerminator(t) PROVE t \in Live' <=> t \in Live
  <2>1. pc[t] \in Ended /\ pc'[t] \in Ended /\ chan' = chan /\ round' = round
    BY <1>0, <1>4 DEF FinishTerminator, GoTo, ThreadTypes, Ended
  <2> QED
    BY <2>1 DEF Live
<1>5. ASSUME BeginRound(t) PROVE t \in Live' <=> t \in Live
  <2>1. pc'[t] = "loop" /\ round[t] < mround
    BY <1>0, <1>5 DEF BeginRound, GoTo, ThreadTypes
  <2> QED
    BY <2>1 DEF Live, Ended
<1>6. ASSUME Transfer(t), UNCHANGED threadVars PROVE t \in Live' <=> t \in Live
  <2>1. chan' \in [Threads -> Seq(Msg)] /\ Len(chan'[t]) = Len(chan[t])
    BY <1>6, TransferEffect
  <2>2. chan'[t] = <<>> <=> chan[t] = <<>>
    BY <1>0, <2>1
  <2> QED
    BY <1>6, <2>2 DEF Live, threadVars
<1>7. ASSUME Deliver(t), UNCHANGED threadVars, chan[t][1].len # 0
      PROVE  t \in Live' <=> t \in Live
  <2>1. /\ Len(chan[t]) \in Nat \ {0} /\ Len(chan'[t]) = Len(chan[t]) - 1
        /\ chan[t] # <<>>
    BY <1>7, DeliverEffect
  <2>2. pc[t] \in Ended => Len(chan[t]) # 1
    BY <1>0, <1>7, <2>1 DEF TerminatorLast
  <2>3. pc[t] \in Ended => chan'[t] # <<>>
    <3>1. pc[t] \in Ended => Len(chan'[t]) # 0
      BY <2>1, <2>2
    <3>2. chan'[t] = <<>> => Len(chan'[t]) = 0
      OBVIOUS
    <3> QED
      BY <3>1, <3>2
  <2> QED
    BY <1>7, <2>1, <2>3 DEF Live, threadVars
<1>8. ASSUME UNCHANGED ThreadState(t), chan'[t] = chan[t] PROVE t \in Live' <=> t \in Live
  BY <1>8 DEF Live, ThreadState
<1> QED
  BY <1>1, <1>2, <1>3, <1>4, <1>5, <1>6, <1>7, <1>8, OwnSteps DEF SendStep

\* The thread whose terminator is matched is live before and not afterwards.
LEMMA LastDelivery ==
    ASSUME Inv, NEW t \in Threads, Deliver(t), chan[t][1].len = 0
    PROVE  t \in Live /\ t \notin Live'
<1>0. TerminatorLast(t) /\ RoundInv(t) /\ round[t] \in Int /\ mround \in Int
  BY DEF Inv, TypeOK
<1>1. /\ Len(chan[t]) \in Nat \ {0} /\ Len(chan'[t]) = Len(chan[t]) - 1
      /\ chan[t] # <<>> /\ chan'[t] = Tail(chan[t]) /\ chan[t] \in Seq(Msg)
      /\ UNCHANGED <<pc, round, mround>>
  BY DeliverEffect DEF threadVars
<1>2. pc[t] \in Ended /\ Len(chan[t]) = 1
  <2>1. 1 \in 1..Len(chan[t])
    BY <1>1
  <2> QED
    BY <1>0, <1>1, <2>1 DEF TerminatorLast
<1>3. chan'[t] = <<>>
  <2>1. chan'[t] \in Seq(Msg) /\ Len(chan'[t]) = 0
    BY <1>1, <1>2
  <2> QED
    BY <2>1, EmptySeq
<1>4. ~(round[t] < mround)
  BY <1>0, <1>1 DEF RoundInv
<1> QED
  BY <1>1, <1>2, <1>3, <1>4 DEF Live

\* The terminators are counted.
LEMMA CountedStep ==
    ASSUME Inv, [Next]_vars
    PROVE  TerminatorsCounted'
<1>0. /\ TerminatorsCounted /\ IsFiniteSet(Live) /\ Cardinality(Live) \in Nat
      /\ active_sources \in Nat
  <2>1. TerminatorsCounted /\ TypeOK /\ Cardinality(Threads) \in Nat
    BY FS_CardinalityType, RawThreadsAssumption DEF Inv
  <2> QED
    BY <2>1, LiveCount DEF TypeOK
<1>1. Live \subseteq Threads /\ Live' \subseteq Threads
  BY DEF Live
<1>2. ASSUME NEW t \in Threads, Deliver(t) PROVE TerminatorsCounted'
  <2>1. /\ rrequest = "posted" /\ rrequest' = "complete" /\ msg_size' = chan[t][1].len
        /\ mround' = mround /\ active_sources' = active_sources
    BY <1>2, DeliverEffect
  <2>2. ASSUME NEW u \in Threads, u # t PROVE u \in Live' <=> u \in Live
    <3>1. chan'[u] = chan[u]
      <4>1. chan \in [Threads -> Seq(Msg)]
        BY DEF Inv, BufferTypes
      <4> QED
        BY <1>2, <2>2, <4>1, DeliverEffect
    <3> QED
      BY <1>2, <2>1, <3>1, DeliverEffect DEF Live, threadVars
  <2>3. Arrived = 0 /\ Arrived' = IF chan[t][1].len = 0 THEN 1 ELSE 0
    BY <2>1 DEF Arrived
  <2>4. CASE chan[t][1].len = 0
    <3>1. t \in Live /\ Live' = Live \ {t}
      BY <1>1, <1>2, <2>2, <2>4, LastDelivery
    <3>2. Cardinality(Live \ {t}) = Cardinality(Live) - 1
      BY <1>0, <3>1, FS_RemoveElement
    <3> QED
      BY <1>0, <2>1, <2>3, <2>4, <3>1, <3>2 DEF TerminatorsCounted
  <2>5. CASE chan[t][1].len # 0
    <3>1. Live' = Live
      BY <1>1, <2>1, <2>2, <2>5, LiveStep
    <3> QED
      BY <1>0, <2>1, <2>3, <2>5, <3>1 DEF TerminatorsCounted
  <2> QED
    BY <2>4, <2>5
<1>3. ASSUME UNCHANGED masterVars PROVE TerminatorsCounted'
  <2>1. UNCHANGED <<mround, rrequest, msg_size, active_sources>>
    BY <1>3 DEF masterVars, recvVars
  <2>2. \A t \in Threads : ~Deliver(t)
    BY <2>1 DEF Deliver
  <2>3. Live' = Live
    BY <1>1, <2>1, <2>2, LiveStep
  <2> QED
    BY <1>0, <2>1, <2>3 DEF TerminatorsCounted, Arrived
<1>4. ASSUME MasterStep, ~NextRecvLoop, UNCHANGED <<threadVars, chan>> PROVE TerminatorsCounted'
  <2>1. mround' = mround
    BY <1>4 DEF MasterStep, RecvTerminator, RecvData, ProcessRecord
  <2>2. Live' = Live
    BY <1>4, <2>1 DEF Live, threadVars
  <2>3. CASE RecvTerminator
    <3>1. active_sources' = active_sources - 1 /\ Arrived = 1 /\ Arrived' = 0
      BY <2>3 DEF RecvTerminator, Arrived
    <3> QED
      BY <1>0, <2>2, <3>1 DEF TerminatorsCounted
  <2>4. CASE RecvData
    <3>1. active_sources' = active_sources /\ Arrived = 0 /\ Arrived' = 0
      BY <2>4 DEF RecvData, Arrived
    <3> QED
      BY <1>0, <2>2, <3>1 DEF TerminatorsCounted
  <2>5. CASE ProcessRecord
    <3>1. active_sources' = active_sources /\ Arrived' = Arrived
      BY <2>5 DEF ProcessRecord, Arrived, recvVars
    <3> QED
      BY <1>0, <2>2, <3>1 DEF TerminatorsCounted
  <2> QED
    BY <1>4, <2>3, <2>4, <2>5 DEF MasterStep
<1>5. CASE NextRecvLoop
  <2>1. /\ active_sources = 0 /\ mround' = mround + 1 /\ UNCHANGED threadVars
        /\ active_sources' = Cardinality(Threads) /\ Arrived' = 0
    BY <1>5 DEF NextRecvLoop, Inv, ReceiverInv, Arrived
  <2>2. ASSUME NEW t \in Threads PROVE t \in Live'
    <3>1. round[t] = mround /\ mround \in Int
      BY <2>1, Quiet DEF Inv, TypeOK
    <3>2. round'[t] < mround'
      BY <2>1, <3>1 DEF threadVars
    <3> QED
      BY <3>2 DEF Live
  <2>3. Live' = Threads
    BY <1>1, <2>2
  <2>4. Cardinality(Threads) \in Nat
    BY FS_CardinalityType, RawThreadsAssumption
  <2> QED
    BY <2>1, <2>3, <2>4 DEF TerminatorsCounted
<1> QED
  BY <1>2, <1>3, <1>4, <1>5, StepFrames

----------------------------------------------------------------------------
(* The theorems.                                                           *)

\* Every step keeps the invariant.
LEMMA InvStep == Inv /\ [Next]_vars => Inv'
<1> SUFFICES ASSUME Inv, [Next]_vars PROVE Inv'
  OBVIOUS
<1>1. TypeOK' /\ JobTypes' /\ BufferTypes'
  BY TypeStep
<1>2. ReceiverInv' /\ TerminatorsCounted' /\ RecvFrames'
  BY ReceiverStep, CountedStep, RecvFramesStep
<1>3. \A t \in Threads : SenderInv(t)' /\ RoundInv(t)' /\ TerminatorLast(t)' /\ FrameInv(t)'
  BY SenderStep, RoundStep, TerminatorStep, FrameStep
<1> QED
  BY <1>1, <1>2, <1>3 DEF Inv

\* The invariant holds in every state of send_raw_mem and recv_loop.
LEMMA Invariance == Spec => []Inv
  BY InitInv, InvStep, PTL DEF Spec

\* TypeOK: neither send_raw_mem nor recv_loop ever leaves its buffers, although
\* the space left is computed with unsigned numbers that wrap around, for any
\* sizes that satisfy the assertion at the head of send_raw_mem.
THEOREM RawTypeCorrect == Spec => []TypeOK
<1>1. Inv => TypeOK
  BY DEF Inv
<1> QED
  BY <1>1, Invariance, PTL

\* RawBuffersNotShared: send_raw_mem never writes into a buffer MPI may still be
\* reading, in this round or since an earlier one.
THEOREM RawBuffersSafe == Spec => []RawBuffersNotShared
<1>1. Inv => RawBuffersNotShared
  <2> SUFFICES ASSUME Inv, NEW t \in Threads, pc[t] \in {"loop", "single", "done"},
                      NEW i \in 1..Len(chan[t])
               PROVE  chan[t][i].at # buff_idx[t]
    BY DEF RawBuffersNotShared
  <2>1. SenderInv(t) /\ buff_idx[t] \in {0, 1}
    BY DEF Inv, TypeOK
  <2>2. chan[t][i].at = InMpi \/ chan[t][i].at = request[t]
    BY <2>1 DEF SenderInv
  <2>3. request[t] # buff_idx[t]
    BY <2>1 DEF SenderInv, NoRequest
  <2> QED
    BY <2>1, <2>2, <2>3 DEF InMpi
<1> QED
  BY <1>1, Invariance, PTL

\* MessagesWellFormed: send_raw_mem sends no empty message but the terminator,
\* and recv_loop finds the size of a record wherever it looks for one, with the
\* record inside of the message.
THEOREM MessagesSound == Spec => []MessagesWellFormed
<1>1. Inv => EmptyMeansEnd
  <2> SUFFICES ASSUME Inv, NEW t \in Threads, NEW i \in 1..Len(chan[t]), chan[t][i].len = 0
               PROVE  /\ \A j \in (i + 1)..Len(chan[t]) : chan[t][j].tag # chan[t][i].tag
                      /\ pc[t] \in {"loop", "sent"} => round[t] # chan[t][i].tag
    BY DEF EmptyMeansEnd
  <2>1. TerminatorLast(t) /\ chan[t] \in Seq(Msg)
    BY DEF Inv, BufferTypes
  <2>2. pc[t] \in Ended /\ i = Len(chan[t])
    BY <2>1 DEF TerminatorLast
  <2>3. (i + 1)..Len(chan[t]) = {}
    BY <2>1, <2>2
  <2> QED
    BY <2>2, <2>3 DEF Ended
<1>2. Inv => FramesMeet
  <2> SUFFICES ASSUME Inv, mpc = "process"
               PROVE  /\ Len(rec_buff[rec_ptr.buff][rec_ptr.pos]) = 1
                      /\ rec_ptr.pos + HdrSize + SizeAt(rec_ptr) <= msg_end
    BY DEF FramesMeet
  <2>1. /\ rec_buff[rec_ptr.buff][rec_ptr.pos] = <<rec_len>>
        /\ SizeAt(rec_ptr) = rec_len
        /\ rec_ptr.pos + HdrSize + rec_len \in 0..msg_end
    BY AtRecord
  <2>2. Len(<<rec_len>>) = 1
    OBVIOUS
  <2> QED
    BY <2>1, <2>2
<1> QED
  BY <1>1, <1>2, Invariance, PTL DEF MessagesWellFormed

\* RoundsApart: no message of one round of TPUT is taken for one of another,
\* although the tag is all that tells them apart and threads and master pass
\* from round to round at their own times.
THEOREM RoundsKeptApart == Spec => []RoundsApart
<1>1. Inv => RoundsApart
  <2> SUFFICES ASSUME Inv PROVE RoundsApart
    OBVIOUS
  <2>1. ASSUME NEW t \in Threads
        PROVE  round[t] <= mround /\ \A i \in 1..Len(chan[t]) : chan[t][i].tag = mround
    <3>1. RoundInv(t) /\ round[t] \in Int /\ mround \in Int /\ chan[t] \in Seq(Msg)
      BY DEF Inv, TypeOK, BufferTypes
    <3>2. round[t] <= mround
      BY <3>1 DEF RoundInv
    <3>3. ASSUME NEW i \in 1..Len(chan[t]) PROVE chan[t][i].tag = mround
      <4>1. chan[t] # <<>>
        BY <3>1, <3>3
      <4> QED
        BY <3>1, <3>3, <4>1 DEF RoundInv
    <3> QED
      BY <3>2, <3>3
  <2>2. ASSUME mpc \in {"next", "done"}, NEW t \in Threads PROVE chan[t] = <<>>
    <3>1. active_sources = 0
      BY <2>2 DEF Inv, ReceiverInv
    <3> QED
      BY <3>1, Quiet
  <2> QED
    BY <2>1, <2>2 DEF RoundsApart
<1> QED
  BY <1>1, Invariance, PTL

----------------------------------------------------------------------------
(***************************************************************************)
(* Where the records are.  Records of n units behind headers fill the      *)
(* first len units of a buffer without gaps; Held are those that begin at  *)
(* or behind an offset.                                                    *)
(***************************************************************************)
Multiple(o, w) == \E q \in 0..o : o = q * w
Starts(from, len, n) == {o \in from..(len - 1) : Multiple(o, HdrSize + n)}
RecAt(b, o) == b[o + HdrSize][1]
Held(b, from, len, n) == {RecAt(b, o) : o \in Starts(from, len, n)}

Packed(b, len, n) ==
    /\ Multiple(len, HdrSize + n)
    /\ \A o \in Starts(0, len, n) :
          /\ RecAt(b, o) \in Record
          /\ \A k \in 1..n : b[o + HdrSize + k - 1] = <<RecAt(b, o), k>>
    /\ \A o, p \in Starts(0, len, n) : RecAt(b, o) = RecAt(b, p) => o = p

\* The records due of a thread in the round of the master, and those of them
\* the thread has not yet put into a buffer.
NeededOf(job) == {n \in 1..Len(job.mem) : job.limit = 0 \/ n <= job.limit}
DueOf(job, sent) == {job.mem[n] : n \in {k \in NeededOf(job) : sent < k}}
Sent(t) == IF round[t] = mround THEN rec_cntr[t] ELSE 0

\* The places of a thread's records on their way to the master's memory.
Pending(t) == DueOf(rounds[mround][t], Sent(t))
Filled(t) == IF pc[t] = "loop" THEN Held(buff[t][buff_idx[t]], 0, buff_off[t], rec_len) ELSE {}
InMsg(t, i) == Held(Payload(t, chan[t][i]), 0, chan[t][i].len, rec_len)
Mail(t) == UNION {InMsg(t, i) : i \in 1..Len(chan[t])}
Of(t, S) == {r \in S : r[1] = t}
Received == IF rrequest = "complete" THEN Held(rec_buff[rbuff_idx], 0, msg_size, rec_len) ELSE {}
Unread == IF mpc = "process"
          THEN Held(rec_buff[rec_ptr.buff], rec_ptr.pos, msg_end, rec_len) ELSE {}
Stored(t) == {r \in Record : r[1] = t /\ Raw(r) \in DOMAIN lnf_mem}

Parted(a, b, c, d, e, f, all) ==
    /\ all = a \cup b \cup c \cup d \cup e \cup f
    /\ a \cap (b \cup c \cup d \cup e \cup f) = {}
    /\ b \cap (c \cup d \cup e \cup f) = {}
    /\ c \cap (d \cup e \cup f) = {}
    /\ d \cap (e \cup f) = {}
    /\ e \cap f = {}

\* Every record due is in exactly one place, and in one message; a thread that
\* has left the loop of send_raw_mem has none left.
PlaceInv(t) ==
    Parted(Pending(t), Filled(t), Mail(t), Of(t, Received), Of(t, Unread), Stored(t),
           DueOf(rounds[mround][t], 0))
MailInv(t) ==
    \A i, j \in 1..Len(chan[t]) : i # j => InMsg(t, i) \cap InMsg(t, j) = {}
LeftInv(t) == pc[t] # "loop" => ~MoreToSend(t)

PackInv(t) ==
    /\ pc[t] = "loop" => Packed(buff[t][buff_idx[t]], buff_off[t], rec_len)
    /\ pc[t] = "loop" /\ buff_rec_cntr[t] = 0 => buff_off[t] = 0
    /\ \A i \in 1..Len(chan[t]) : Packed(Payload(t, chan[t][i]), chan[t][i].len, rec_len)

RecvPackInv ==
    /\ rrequest = "complete" => Packed(rec_buff[rbuff_idx], msg_size, rec_len)
    /\ mpc = "process" => /\ Packed(rec_buff[rec_ptr.buff], msg_end, rec_len)
                          /\ Multiple(rec_ptr.pos, HdrSize + rec_len)

\* No memory has a record twice, and a thread has records of its own only.
OwnJob(job, t) ==
    /\ \A k \in 1..Len(job.mem) : job.mem[k][1] = t
    /\ \A k, l \in 1..Len(job.mem) : job.mem[k] = job.mem[l] => k = l
JobInv == \A i \in 1..Len(rounds) : \A t \in Threads : OwnJob(rounds[i][t], t)

BagInv ==
    /\ lnf_mem = SetToBag(DOMAIN lnf_mem)
    /\ \A x \in DOMAIN lnf_mem : \E r \in Record : x = Raw(r)

GatherInv ==
    /\ JobInv /\ BagInv /\ RecvPackInv
    /\ \A t \in Threads : PackInv(t) /\ PlaceInv(t) /\ MailInv(t) /\ LeftInv(t)

\* The offsets of records are multiples of their width.
LEMMA MultipleNext ==
    ASSUME NEW w \in Nat \ {0}, NEW o \in Nat, Multiple(o, w) PROVE Multiple(o + w, w)
<1>1. PICK q \in 0..o : o = q * w
  BY DEF Multiple
<1>2. q + 1 \in 0..(o + w) /\ o + w = (q + 1) * w
  BY <1>1
<1> QED
  BY <1>2 DEF Multiple

\* Products grow with their factors.
LEMMA TimesMono == ASSUME NEW w \in Nat, NEW a \in Nat, NEW b \in Nat, a <= b PROVE a * w <= b * w
<1>1. PICK d \in Nat : b = a + d
  BY b - a \in Nat
<1>2. b * w = a * w + d * w /\ d * w \in Nat /\ a * w \in Nat
  BY <1>1
<1> QED
  BY <1>2

\* Between two records there is room for the whole of the first.
LEMMA MultipleApart ==
    ASSUME NEW w \in Nat \ {0}, NEW o \in Nat, NEW p \in Nat, Multiple(o, w), Multiple(p, w), o < p
    PROVE  o + w <= p
<1>1. PICK q \in 0..o : o = q * w
  BY DEF Multiple
<1>2. PICK r \in 0..p : p = r * w
  BY DEF Multiple
<1>3. q \in Nat /\ r \in Nat
  OBVIOUS
<1>4. q < r
  <2>1. ASSUME r <= q PROVE FALSE
    <3>1. r * w <= q * w
      BY <1>3, <2>1, TimesMono
    <3> QED
      BY <1>1, <1>2, <3>1
  <2> QED
    BY <1>3, <2>1
<1>5. (q + 1) * w <= r * w
  BY <1>3, <1>4, TimesMono
<1>6. (q + 1) * w = o + w
  BY <1>1, <1>3
<1> QED
  BY <1>2, <1>5, <1>6

\* Records begin at the offsets of those before, and at the end of the last one.
LEMMA StartsGrow ==
    ASSUME NEW n \in Nat \ {0}, NEW len \in Nat, Multiple(len, HdrSize + n)
    PROVE  Starts(0, len + HdrSize + n, n) = Starts(0, len, n) \cup {len}
<1> DEFINE w == HdrSize + n
<1>1. w \in Nat \ {0} /\ HdrSize \in Nat
  BY Sizes
<1> HIDE DEF w
<1>2. ASSUME NEW o \in Nat, Multiple(o, w) PROVE o < len + w <=> o < len \/ o = len
  <2>1. ASSUME len < o PROVE len + w <= o
    BY <1>1, <1>2, <2>1, MultipleApart DEF w
  <2> QED
    BY <1>1, <2>1
<1> QED
  BY <1>1, <1>2 DEF Starts, w

\* The same at the other end.
LEMMA StartsShrink ==
    ASSUME NEW n \in Nat \ {0}, NEW from \in Nat, NEW len \in Nat, from < len,
           Multiple(from, HdrSize + n), Multiple(len, HdrSize + n)
    PROVE  /\ from + HdrSize + n <= len
           /\ Starts(from, len, n) = Starts(from + HdrSize + n, len, n) \cup {from}
<1> DEFINE w == HdrSize + n
<1>1. w \in Nat \ {0} /\ HdrSize \in Nat
  BY Sizes
<1> HIDE DEF w
<1>2. ASSUME NEW o \in Nat, Multiple(o, w) PROVE from <= o <=> from + w <= o \/ o = from
  <2>1. ASSUME from < o PROVE from + w <= o
    BY <1>1, <1>2, <2>1, MultipleApart DEF w
  <2> QED
    BY <1>1, <2>1
<1>3. from + w <= len
  BY <1>1, MultipleApart DEF w
<1> QED
  BY <1>1, <1>2, <1>3 DEF Starts, w

\* Nothing is held by nothing.
LEMMA PackedEmpty ==
    ASSUME NEW b, NEW n \in Nat \ {0}
    PROVE  Packed(b, 0, n) /\ \A from \in Nat : Held(b, from, 0, n) = {}
<1>1. Multiple(0, HdrSize + n) /\ HdrSize \in Nat
  BY Sizes DEF Multiple
<1>2. \A from \in Nat : Starts(from, 0, n) = {}
  BY DEF Starts
<1> QED
  BY <1>1, <1>2 DEF Packed, Held

\* A record lies within what it is packed with.
LEMMA RecordInside ==
    ASSUME NEW n \in Nat \ {0}, NEW len \in Nat, Multiple(len, HdrSize + n),
           NEW o \in Starts(0, len, n)
    PROVE  /\ o \in 0..(len - 1) /\ o + HdrSize \in 0..(len - 1)
           /\ \A k \in 1..n : o + HdrSize + k - 1 \in 0..(len - 1)
<1>1. o \in Nat /\ o < len /\ Multiple(o, HdrSize + n)
  BY DEF Starts
<1>2. HdrSize \in Nat
  BY Sizes
<1>3. o + HdrSize + n <= len
  BY <1>1, <1>2, StartsShrink
<1> QED
  BY <1>1, <1>2, <1>3

\* Two buffers with the same first units; the same records at any offset.
SameUnits(b, c, len) == \A o \in 0..(len - 1) : c[o] = b[o]
SameRecords(b, c, len, n) ==
    \A from \in Nat : Held(c, from, len, n) = Held(b, from, len, n)

\* A copy of packed records, as MPI makes it, holds the same records.
LEMMA PackedCopy ==
    ASSUME NEW b, NEW c, NEW len \in Nat, NEW n \in Nat \ {0}, Packed(b, len, n),
           SameUnits(b, c, len)
    PROVE  Packed(c, len, n) /\ SameRecords(b, c, len, n)
<1>1. ASSUME NEW o \in Starts(0, len, n)
      PROVE  RecAt(c, o) = RecAt(b, o) /\ \A k \in 1..n : c[o + HdrSize + k - 1] = b[o + HdrSize + k - 1]
  BY RecordInside DEF Packed, RecAt, SameUnits
<1>2. \A from \in Nat : Starts(from, len, n) \subseteq Starts(0, len, n)
  BY DEF Starts
<1>3. Packed(c, len, n)
  BY <1>1 DEF Packed
<1>4. ASSUME NEW from \in Nat PROVE Held(c, from, len, n) = Held(b, from, len, n)
  BY <1>1, <1>2 DEF Held
<1> QED
  BY <1>3, <1>4 DEF SameRecords

\* At an offset there is a whole record, and behind it are the others.
OneTaken(b, from, len, n) ==
    /\ RecAt(b, from) \in Held(b, from, len, n) /\ RecAt(b, from) \in Record
    /\ Held(b, from + HdrSize + n, len, n) = Held(b, from, len, n) \ {RecAt(b, from)}
    /\ \A k \in 1..n : b[from + HdrSize + k - 1] = <<RecAt(b, from), k>>

\* recv_loop takes the first record and leaves the others.
LEMMA PackedTake ==
    ASSUME NEW b, NEW len \in Nat, NEW from \in Nat, NEW n \in Nat \ {0}, Packed(b, len, n),
           Multiple(from, HdrSize + n), from < len
    PROVE  OneTaken(b, from, len, n)
<1> DEFINE later == from + HdrSize + n
<1>1. /\ Starts(from, len, n) = Starts(later, len, n) \cup {from}
      /\ later \in Nat /\ from < later
  BY Sizes, StartsShrink DEF Packed
<1>2. Starts(from, len, n) \subseteq Starts(0, len, n) /\ from \notin Starts(later, len, n)
  BY <1>1 DEF Starts
<1>3. from \in Starts(0, len, n)
  BY <1>1, <1>2
<1> HIDE DEF later
<1>4. \A o \in Starts(later, len, n) : RecAt(b, o) # RecAt(b, from)
  BY <1>1, <1>2, <1>3 DEF Packed
<1>5. Held(b, later, len, n) = Held(b, from, len, n) \ {RecAt(b, from)}
  BY <1>1, <1>4 DEF Held
<1>6. RecAt(b, from) \in Held(b, from, len, n)
  BY <1>1 DEF Held
<1> QED
  BY <1>3, <1>5, <1>6 DEF Packed, later, OneTaken

\* send_raw_mem adds one record.
LEMMA PackedWritten ==
    ASSUME JobTypes, NEW b \in Buffer, NEW off \in 0..BuffSize, NEW rec \in Record,
           off + HdrSize + rec_len <= BuffSize, Packed(b, off, rec_len),
           rec \notin Held(b, 0, off, rec_len)
    PROVE  /\ Packed(Written(b, off, rec), off + HdrSize + rec_len, rec_len)
           /\ Held(Written(b, off, rec), 0, off + HdrSize + rec_len, rec_len) =
                 Held(b, 0, off, rec_len) \cup {rec}
<1> DEFINE c == Written(b, off, rec)
           end == off + HdrSize + rec_len
<1>0. /\ HdrSize \in Nat \ {0} /\ BuffSize \in Nat /\ rec_len \in Nat \ {0}
      /\ off \in Nat /\ end \in Nat /\ off < end /\ Multiple(off, HdrSize + rec_len)
      /\ DOMAIN b = 0..(BuffSize - 1)
  BY Sizes DEF JobTypes, Buffer, Packed
<1>1. ASSUME NEW i \in 0..(off - 1) PROVE c[i] = b[i]
  <2>1. /\ i \in 0..(BuffSize - 1) /\ i # off
        /\ i \notin (off + HdrSize)..(off + HdrSize + rec_len - 1)
    BY <1>0
  <2> QED
    BY <1>0, <2>1 DEF Written
<1>2. ASSUME NEW k \in 1..rec_len PROVE c[off + HdrSize + k - 1] = <<rec, k>>
  <2>1. PICK i \in 0..(BuffSize - 1) : i = off + HdrSize + k - 1
    BY <1>0
  <2>2. /\ i # off /\ i \in (off + HdrSize)..(off + HdrSize + rec_len - 1)
        /\ i - off - HdrSize + 1 = k
    BY <1>0, <2>1
  <2>3. c[i] = Raw(rec)[k]
    BY <1>0, <2>1, <2>2 DEF Written
  <2> QED
    BY <2>1, <2>3 DEF Raw
<1>3. RecAt(c, off) = rec
  <2>1. 1 \in 1..rec_len /\ off + HdrSize + 1 - 1 = off + HdrSize
    BY <1>0
  <2>2. c[off + HdrSize] = <<rec, 1>>
    BY <1>2, <2>1
  <2> QED
    BY <2>2 DEF RecAt
<1> HIDE DEF c
<1>4. /\ Packed(c, off, rec_len)
      /\ Held(c, 0, off, rec_len) = Held(b, 0, off, rec_len)
  <2>1. SameUnits(b, c, off)
    BY <1>1 DEF SameUnits
  <2>2. Packed(c, off, rec_len) /\ SameRecords(b, c, off, rec_len)
    BY <1>0, <2>1, PackedCopy
  <2> QED
    BY <2>2 DEF SameRecords
<1>5. Starts(0, end, rec_len) = Starts(0, off, rec_len) \cup {off}
  BY <1>0, StartsGrow
<1>6. Multiple(end, HdrSize + rec_len)
  <2>1. Multiple(off + (HdrSize + rec_len), HdrSize + rec_len)
    BY <1>0, MultipleNext
  <2> QED
    BY <1>0, <2>1
<1> HIDE DEF end
<1>7. Held(c, 0, end, rec_len) = Held(c, 0, off, rec_len) \cup {rec}
  BY <1>3, <1>5 DEF Held
<1>8. \A o \in Starts(0, off, rec_len) : RecAt(c, o) # rec
  BY <1>4 DEF Held
<1>9. Packed(c, end, rec_len)
  <2>1. \A o \in Starts(0, end, rec_len) :
          /\ RecAt(c, o) \in Record
          /\ \A k \in 1..rec_len : c[o + HdrSize + k - 1] = <<RecAt(c, o), k>>
    BY <1>2, <1>3, <1>4, <1>5 DEF Packed
  <2>2. \A o, p \in Starts(0, end, rec_len) : RecAt(c, o) = RecAt(c, p) => o = p
    BY <1>3, <1>4, <1>5, <1>8 DEF Packed
  <2> QED
    BY <1>6, <2>1, <2>2 DEF Packed
<1> QED
  BY <1>4, <1>7, <1>9 DEF c, end

----------------------------------------------------------------------------
(* The records of a job.                                                   *)

Job == [mem: Seq(Record), limit: Nat]

\* The next record of a memory is due while send_raw_mem has more to send, and
\* putting it away leaves the others.
LEMMA DueNext ==
    ASSUME NEW t, NEW job \in Job, OwnJob(job, t), NEW c \in Nat,
           c < Len(job.mem), job.limit = 0 \/ job.limit > c
    PROVE  /\ job.mem[c + 1] \in DueOf(job, c)
           /\ DueOf(job, c + 1) = DueOf(job, c) \ {job.mem[c + 1]}
<1>1. job.mem \in Seq(Record) /\ job.limit \in Nat /\ Len(job.mem) \in Nat
  BY DEF Job
<1>2. c + 1 \in NeededOf(job)
  BY <1>1 DEF NeededOf
<1>3. \A n \in NeededOf(job) : n \in 1..Len(job.mem) /\ n \in Nat
  BY <1>1 DEF NeededOf
<1>4. \A n \in NeededOf(job) : c < n <=> c + 1 < n \/ n = c + 1
  BY <1>3
<1>5. \A n \in NeededOf(job) : job.mem[n] = job.mem[c + 1] => n = c + 1
  BY <1>2, <1>3 DEF OwnJob
<1>6. ~(c + 1 < c + 1)
  OBVIOUS
<1>7. job.mem[c + 1] \in DueOf(job, c)
  BY <1>2, <1>4 DEF DueOf
<1>8. ASSUME NEW r \in DueOf(job, c + 1) PROVE r \in DueOf(job, c) /\ r # job.mem[c + 1]
  BY <1>4, <1>5, <1>6, <1>8 DEF DueOf
<1>9. ASSUME NEW r \in DueOf(job, c), r # job.mem[c + 1] PROVE r \in DueOf(job, c + 1)
  BY <1>4, <1>9 DEF DueOf
<1> QED
  BY <1>7, <1>8, <1>9

\* Otherwise none is left.
LEMMA DueNone ==
    ASSUME NEW job \in Job, NEW c \in Nat,
           ~(c < Len(job.mem) /\ (job.limit = 0 \/ job.limit > c))
    PROVE  DueOf(job, c) = {}
<1>1. job.mem \in Seq(Record) /\ job.limit \in Nat /\ Len(job.mem) \in Nat
  BY DEF Job
<1>2. \A n \in NeededOf(job) : ~(c < n)
  BY <1>1 DEF NeededOf
<1> QED
  BY <1>2 DEF DueOf

\* What is due of a thread are records of its own.
LEMMA DueOwn ==
    ASSUME NEW t, NEW job \in Job, OwnJob(job, t), NEW c \in Nat, NEW r \in DueOf(job, c)
    PROVE  r \in Record /\ r[1] = t
<1>1. PICK n \in NeededOf(job) : r = job.mem[n]
  BY DEF DueOf
<1>2. n \in 1..Len(job.mem) /\ job.mem \in Seq(Record)
  BY <1>1 DEF NeededOf, Job
<1> QED
  BY <1>1, <1>2 DEF OwnJob

\* What the invariant says of one thread.
LEMMA ThreadFacts ==
    ASSUME Inv, NEW t \in Threads
    PROVE  /\ rec_len \in Nat \ {0} /\ HdrSize \in Nat \ {0} /\ BuffSize \in Nat
           /\ buff[t] \in [{0, 1} -> Buffer] /\ buff_idx[t] \in {0, 1}
           /\ buff_off[t] \in 0..BuffSize /\ buff_off[t] \in Nat
           /\ chan[t] \in Seq(Msg) /\ Len(chan[t]) \in Nat
           /\ mround \in 1..Len(rounds) /\ mround \in Nat
           /\ rounds[mround][t] \in Job /\ rounds[round[t]][t] \in Job
           /\ rec_cntr[t] \in Nat /\ Sent(t) \in Nat
           /\ round[t] \in Nat /\ round[t] <= mround
           /\ pc[t] \notin Ended => round[t] = mround
<1>1. TypeOK /\ JobTypes /\ BufferTypes /\ RoundInv(t)
  BY DEF Inv
<1>2. /\ rec_len \in Nat \ {0} /\ HdrSize \in Nat \ {0} /\ BuffSize \in Nat
      /\ buff[t] \in [{0, 1} -> Buffer] /\ buff_idx[t] \in {0, 1}
      /\ buff_off[t] \in 0..BuffSize /\ buff_off[t] \in Nat
      /\ chan[t] \in Seq(Msg) /\ Len(chan[t]) \in Nat
  BY <1>1, Sizes DEF TypeOK, JobTypes, BufferTypes
<1>3. /\ rounds \in Seq([Threads -> Job]) /\ Len(rounds) \in Nat
      /\ round[t] \in 1..Len(rounds) /\ mround \in 1..Len(rounds)
      /\ rec_cntr[t] \in Nat
  BY <1>1 DEF TypeOK, JobTypes, Job
<1>4. rounds[mround] \in [Threads -> Job] /\ rounds[round[t]] \in [Threads -> Job]
  BY <1>3
<1>5. rounds[mround][t] \in Job /\ rounds[round[t]][t] \in Job
  BY <1>4
<1>6. Sent(t) \in Nat
  BY <1>3 DEF Sent
<1>7. round[t] <= mround /\ (pc[t] \notin Ended => round[t] = mround)
  BY <1>1, <1>3 DEF RoundInv
<1> QED
  BY <1>2, <1>3, <1>5, <1>6, <1>7

\* The records in the places of a thread are its own.
LEMMA PlacesOwn ==
    ASSUME Inv, GatherInv, NEW t \in Threads,
           NEW r \in Pending(t) \cup Filled(t) \cup Mail(t)
    PROVE  r \in Record /\ r[1] = t
<1>1. r \in DueOf(rounds[mround][t], 0)
  BY DEF GatherInv, PlaceInv, Parted
<1>2. OwnJob(rounds[mround][t], t) /\ rounds[mround][t] \in Job
  BY ThreadFacts DEF GatherInv, JobInv
<1> QED
  BY <1>1, <1>2, DueOwn

----------------------------------------------------------------------------
(* The places of one thread, step by step.                                 *)

\* The places a thread's own state stands for, before and after a step.
SamePending(t) == Pending(t)' = Pending(t)
SameFilled(t) == Filled(t)' = Filled(t)
SameMessages(t) ==
    /\ Len(chan'[t]) = Len(chan[t])
    /\ \A i \in 1..Len(chan[t]) : InMsg(t, i)' = InMsg(t, i)
SameMaster(t) == Received' = Received /\ Unread' = Unread /\ Stored(t)' = Stored(t)

\* The same messages are the same mail.
LEMMA SameMail ==
    ASSUME NEW t \in Threads, SameMessages(t), MailInv(t)
    PROVE  Mail(t)' = Mail(t) /\ MailInv(t)'
  BY DEF SameMessages, Mail, MailInv

\* What is not touched stays where it is.
LEMMA MasterStays ==
    ASSUME UNCHANGED <<jobVars, masterVars>>, NEW t \in Threads PROVE SameMaster(t)
<1>1. UNCHANGED <<rec_len, rec_buff, rbuff_idx, rrequest, msg_size, mpc, rec_ptr, msg_end, lnf_mem>>
  BY DEF jobVars, masterVars, recvVars
<1>2. \A r : Raw(r)' = Raw(r)
  BY <1>1 DEF Raw
<1> QED
  BY <1>1, <1>2 DEF SameMaster, Received, Unread, Stored

\* The payload of a message depends on the message and the buffer it lies in.
LEMMA PayloadSame ==
    ASSUME NEW t \in Threads, NEW i \in 1..Len(chan[t]), rec_len' = rec_len,
           chan'[t][i].len = chan[t][i].len,
           Payload(t, chan[t][i])' = Payload(t, chan[t][i])
    PROVE  /\ InMsg(t, i)' = InMsg(t, i)
           /\ Packed(Payload(t, chan[t][i]), chan[t][i].len, rec_len) =>
                 Packed(Payload(t, chan[t][i]), chan[t][i].len, rec_len)'
  BY DEF InMsg, Held, Starts, RecAt, Multiple, Packed

\* A thread that does nothing: its records are where they were.
LEMMA ThreadStays ==
    ASSUME GatherInv, NEW t \in Threads, UNCHANGED jobVars, UNCHANGED ThreadState(t),
           chan'[t] = chan[t]
    PROVE  /\ mround' = mround => SamePending(t)
           /\ SameFilled(t) /\ SameMessages(t)
           /\ PackInv(t)' /\ LeftInv(t)'
<1>1. /\ UNCHANGED <<pc[t], round[t], rec_cntr[t], buff[t], buff_idx[t], buff_off[t], buff_rec_cntr[t]>>
      /\ UNCHANGED <<rounds, rec_len>>
  BY DEF ThreadState, jobVars
<1>2. PackInv(t) /\ LeftInv(t)
  BY DEF GatherInv
<1>3. \A m : Payload(t, m)' = Payload(t, m)
  BY <1>1 DEF Payload
<1>4. mround' = mround => SamePending(t)
  BY <1>1 DEF SamePending, Pending, Sent
<1>5. SameFilled(t)
  BY <1>1 DEF SameFilled, Filled
<1>6. SameMessages(t)
  BY <1>1, <1>3 DEF SameMessages, InMsg, Payload
<1>7. PackInv(t)'
  BY <1>1, <1>2, <1>3 DEF PackInv, Payload
<1>8. LeftInv(t)'
  BY <1>1, <1>2 DEF LeftInv, MoreToSend, Args
<1> QED
  BY <1>4, <1>5, <1>6, <1>7, <1>8

\* A record goes from the memory of a thread into its buffer.
LEMMA PutPlaces ==
    ASSUME Inv, GatherInv, NEW t \in Threads, PutRecord(t)
    PROVE  /\ \E rec \in Pending(t) :
                 Pending(t)' = Pending(t) \ {rec} /\ Filled(t)' = Filled(t) \cup {rec}
           /\ SameMessages(t) /\ PackInv(t)' /\ LeftInv(t)'
<1>0. /\ pc[t] = "loop" /\ UNCHANGED <<pc, round, buff_idx, chan, rounds, rec_len, mround>>
      /\ MoreToSend(t) /\ Fits(t)
      /\ JobTypes /\ TypeOK /\ PackInv(t) /\ PlaceInv(t)
      /\ rec_cntr \in [Threads -> Nat] /\ buff_off \in [Threads -> 0..BuffSize]
      /\ buff_rec_cntr \in [Threads -> Nat] /\ buff \in [Threads -> [{0, 1} -> Buffer]]
  BY DEF PutRecord, Inv, GatherInv, TypeOK, BufferTypes, jobVars, masterVars
<1>1. /\ rec_len \in Nat \ {0} /\ HdrSize \in Nat \ {0} /\ buff[t] \in [{0, 1} -> Buffer]
      /\ buff_idx[t] \in {0, 1} /\ buff_off[t] \in 0..BuffSize
      /\ round[t] = mround /\ rec_cntr[t] \in Nat /\ rounds[mround][t] \in Job
      /\ Sent(t) = rec_cntr[t] /\ chan[t] \in Seq(Msg)
      /\ OwnJob(rounds[mround][t], t)
  <2>1. pc[t] \notin Ended
    BY <1>0 DEF Ended
  <2> QED
    BY <2>1, ThreadFacts DEF Sent, GatherInv, JobInv
<1> DEFINE rec == Args(t).mem[rec_cntr[t] + 1]
           b == buff[t][buff_idx[t]]
<1>2. rec \in Record /\ b \in Buffer
  BY <1>0, <1>1, NextRecord
<1>3. /\ rec = rounds[mround][t].mem[rec_cntr[t] + 1]
      /\ rec_cntr[t] < Len(rounds[mround][t].mem)
      /\ rounds[mround][t].limit = 0 \/ rounds[mround][t].limit > rec_cntr[t]
  BY <1>0, <1>1 DEF Args, MoreToSend
<1>4. /\ rec_cntr'[t] = rec_cntr[t] + 1
      /\ buff_off'[t] = buff_off[t] + HdrSize + rec_len
      /\ buff_rec_cntr'[t] = buff_rec_cntr[t] + 1
      /\ buff'[t][buff_idx[t]] = Written(b, buff_off[t], rec)
      /\ \A k \in {0, 1} : k # buff_idx[t] => buff'[t][k] = buff[t][k]
  BY <1>0, <1>1 DEF PutRecord
<1>5. /\ rec \in DueOf(rounds[mround][t], rec_cntr[t])
      /\ DueOf(rounds[mround][t], rec_cntr[t] + 1) =
            DueOf(rounds[mround][t], rec_cntr[t]) \ {rec}
  BY <1>1, <1>3, DueNext
<1>6. rec \in Pending(t) /\ Pending(t)' = Pending(t) \ {rec}
  BY <1>0, <1>1, <1>4, <1>5 DEF Pending, Sent
<1> HIDE DEF rec
<1>7. Filled(t) = Held(b, 0, buff_off[t], rec_len) /\ rec \notin Filled(t)
  BY <1>0, <1>6 DEF Filled, PlaceInv, Parted
<1>8. buff_off[t] + HdrSize + rec_len <= BuffSize
  BY <1>0, FitsMeans
<1>9. Packed(b, buff_off[t], rec_len)
  BY <1>0 DEF PackInv
<1>10. PICK off \in 0..BuffSize : off = buff_off[t]
  BY <1>1
<1> HIDE DEF b
<1>11. /\ Packed(Written(b, off, rec), off + HdrSize + rec_len, rec_len)
       /\ Held(Written(b, off, rec), 0, off + HdrSize + rec_len, rec_len) =
             Held(b, 0, off, rec_len) \cup {rec}
  BY <1>0, <1>2, <1>7, <1>8, <1>9, <1>10, PackedWritten
<1>12. Filled(t)' = Filled(t) \cup {rec}
  BY <1>0, <1>4, <1>7, <1>10, <1>11 DEF Filled
<1>13. ASSUME NEW i \in 1..Len(chan[t]) PROVE Payload(t, chan[t][i])' = Payload(t, chan[t][i])
  <2>1. SenderInv(t) /\ chan[t][i] \in Msg
    BY <1>1 DEF Inv
  <2>2. chan[t][i].at # buff_idx[t]
    <3>1. request[t] # buff_idx[t] /\ buff_idx[t] # InMpi
      BY <1>0, <1>1, <2>1 DEF SenderInv, InMpi
    <3>2. chan[t][i].at # InMpi => chan[t][i].at = request[t]
      BY <2>1 DEF SenderInv
    <3> QED
      BY <3>1, <3>2
  <2> QED
    BY <1>0, <1>1, <1>4, <2>1, <2>2 DEF Payload
<1>14. SameMessages(t)
  BY <1>0, <1>13, PayloadSame DEF SameMessages
<1>15. PackInv(t)'
  <2>1. Packed(buff[t][buff_idx[t]], buff_off[t], rec_len)'
    BY <1>0, <1>4, <1>10, <1>11
  <2>2. buff_rec_cntr'[t] # 0
    BY <1>0, <1>4
  <2>3. \A i \in 1..Len(chan[t]) : Packed(Payload(t, chan[t][i]), chan[t][i].len, rec_len)'
    BY <1>0, <1>13, PayloadSame DEF PackInv
  <2> QED
    BY <1>0, <2>1, <2>2, <2>3 DEF PackInv
<1>16. LeftInv(t)'
  BY <1>0 DEF LeftInv
<1> QED
  BY <1>6, <1>12, <1>14, <1>15, <1>16

\* The records of a buffer become those of a message; or an empty message, the
\* terminator, is sent.
LEMMA SendPlaces ==
    ASSUME Inv, GatherInv, NEW t \in Threads,
           SendFull(t) \/ SendRest(t) \/ StartTerminator(t)
    PROVE  /\ Filled(t)' = {}
           /\ Mail(t)' = Mail(t) \cup Filled(t) /\ MailInv(t)'
           /\ SamePending(t) /\ PackInv(t)' /\ LeftInv(t)'
<1>0. /\ PackInv(t) /\ PlaceInv(t) /\ MailInv(t) /\ LeftInv(t)
      /\ UNCHANGED <<rounds, rec_len, mround>>
      /\ pc \in [Threads -> {"loop", "sent", "term", "single", "done"}]
      /\ buff_idx \in [Threads -> {0, 1}] /\ buff_off \in [Threads -> 0..BuffSize]
      /\ buff_rec_cntr \in [Threads -> Nat]
  BY DEF SendFull, SendRest, StartTerminator, Inv, GatherInv, TypeOK, jobVars, masterVars
<1>1. /\ rec_len \in Nat \ {0} /\ buff[t] \in [{0, 1} -> Buffer] /\ buff_idx[t] \in {0, 1}
      /\ buff_off[t] \in 0..BuffSize /\ chan[t] \in Seq(Msg) /\ BuffSize \in Nat
  BY ThreadFacts
<1>2. PICK at \in {0, 1, InSend}, len \in 0..BuffSize :
         /\ StartSend(t, at, len)
         /\ ~StartTerminator(t) => at = buff_idx[t] /\ len = buff_off[t] /\ pc[t] = "loop"
         /\ StartTerminator(t) => at = InSend /\ len = 0 /\ pc[t] = "sent"
         /\ UNCHANGED <<round, buff, rec_cntr>>
  BY SendEffect
<1>3. PICK n \in Nat :
         /\ n = Len(chan[t]) /\ Len(chan'[t]) = n + 1
         /\ \A i \in 1..n : chan'[t][i] = chan[t][i]
         /\ chan'[t][n + 1].at = at /\ chan'[t][n + 1].len = len
         /\ chan'[t][n + 1].data = BlankBuffer
  BY <1>2, StartSendEffect
<1>4. SamePending(t)
  BY <1>0, <1>2 DEF SamePending, Pending, Sent
<1>5. \A i \in 1..n : Payload(t, chan[t][i])' = Payload(t, chan[t][i])
  BY <1>2, <1>3 DEF Payload
<1>6. \A i \in 1..n : InMsg(t, i)' = InMsg(t, i)
  BY <1>0, <1>3, <1>5, PayloadSame
<1>7. /\ InMsg(t, n + 1)' = Filled(t)
      /\ Packed(Payload(t, chan[t][n + 1]), chan[t][n + 1].len, rec_len)'
  <2>1. CASE StartTerminator(t)
    <3>1. InMsg(t, n + 1)' = Held(Payload(t, chan[t][n + 1])', 0, 0, rec_len)
      BY <1>0, <1>2, <1>3, <2>1 DEF InMsg
    <3>2. InMsg(t, n + 1)' = {} /\ Packed(Payload(t, chan[t][n + 1])', 0, rec_len)
      BY <1>1, <3>1, PackedEmpty
    <3>3. Filled(t) = {}
      BY <1>2, <2>1 DEF Filled
    <3> QED
      BY <1>0, <1>2, <1>3, <2>1, <3>2, <3>3
  <2>2. CASE ~StartTerminator(t)
    <3>1. Payload(t, chan[t][n + 1])' = buff[t][buff_idx[t]]
      BY <1>1, <1>2, <1>3, <2>2 DEF Payload
    <3> QED
      BY <1>0, <1>2, <1>3, <2>2, <3>1 DEF InMsg, Filled, PackInv
  <2> QED
    BY <2>1, <2>2
<1>8. 1..Len(chan'[t]) = 1..n \cup {n + 1} /\ n + 1 \notin 1..n
  BY <1>3
<1>9. Mail(t)' = Mail(t) \cup Filled(t)
  BY <1>3, <1>6, <1>7, <1>8 DEF Mail
<1>10. MailInv(t)'
  <2>1. \A i \in 1..n : InMsg(t, i) \cap Filled(t) = {}
    BY <1>0, <1>3 DEF PlaceInv, Parted, Mail
  <2>2. \A i, j \in 1..n : i # j => InMsg(t, i) \cap InMsg(t, j) = {}
    BY <1>0, <1>3 DEF MailInv
  <2>3. ASSUME NEW i \in 1..n \cup {n + 1}, NEW j \in 1..n \cup {n + 1}, i # j
        PROVE  InMsg(t, i)' \cap InMsg(t, j)' = {}
    BY <1>6, <1>7, <2>1, <2>2, <2>3
  <2> QED
    BY <1>8, <2>3 DEF MailInv
<1>11. \A i \in 1..Len(chan'[t]) : Packed(Payload(t, chan[t][i]), chan[t][i].len, rec_len)'
  <2>1. ASSUME NEW i \in 1..n PROVE Packed(Payload(t, chan[t][i]), chan[t][i].len, rec_len)'
    BY <1>0, <1>3, <1>5, PayloadSame DEF PackInv
  <2> QED
    BY <1>7, <1>8, <2>1
<1>12. Filled(t)' = {} /\ PackInv(t)' /\ LeftInv(t)'
  <2>1. CASE SendFull(t)
    <3>1. pc' = pc /\ buff_off'[t] = 0 /\ pc[t] = "loop"
      BY <1>0, <2>1 DEF SendFull
    <3>2. Filled(t)' = Held(buff[t][buff_idx[t]]', 0, 0, rec_len)
      BY <1>0, <3>1 DEF Filled
    <3>3. Filled(t)' = {} /\ Packed(buff[t][buff_idx[t]]', 0, rec_len)
      BY <1>1, <3>2, PackedEmpty
    <3> QED
      BY <1>0, <1>11, <3>1, <3>3 DEF PackInv, LeftInv
  <2>2. CASE SendRest(t)
    <3>1. pc'[t] = "sent" /\ ~MoreToSend(t)
      BY <1>0, <2>2 DEF SendRest, GoTo
    <3>2. ~MoreToSend(t)'
      BY <1>0, <1>2, <3>1 DEF MoreToSend, Args
    <3> QED
      BY <1>11, <3>1, <3>2 DEF PackInv, LeftInv, Filled
  <2>3. CASE StartTerminator(t)
    <3>1. pc'[t] = "term" /\ pc[t] = "sent"
      BY <1>0, <2>3 DEF StartTerminator, GoTo
    <3>2. ~MoreToSend(t)'
      BY <1>0, <1>2, <3>1 DEF MoreToSend, Args, LeftInv
    <3> QED
      BY <1>11, <3>1, <3>2 DEF PackInv, LeftInv, Filled
  <2> QED
    BY <2>1, <2>2, <2>3
<1> QED
  BY <1>4, <1>9, <1>10, <1>12

\* The other steps of a thread move no record.
LEMMA QuietPlaces ==
    ASSUME Inv, GatherInv, NEW t \in Threads,
           NoRest(t) \/ FinishTerminator(t) \/ BeginRound(t)
    PROVE  SamePending(t) /\ SameFilled(t) /\ SameMessages(t) /\ PackInv(t)' /\ LeftInv(t)'
<1>0. /\ PackInv(t) /\ LeftInv(t)
      /\ UNCHANGED <<rounds, rec_len, mround, buff, chan>>
      /\ pc \in [Threads -> {"loop", "sent", "term", "single", "done"}]
      /\ round \in [Threads -> 1..Len(rounds)] /\ rec_cntr \in [Threads -> Nat]
      /\ buff_idx \in [Threads -> {0, 1}] /\ buff_off \in [Threads -> 0..BuffSize]
      /\ buff_rec_cntr \in [Threads -> Nat]
  BY DEF NoRest, FinishTerminator, BeginRound, Inv, GatherInv, TypeOK, jobVars, masterVars, buffVars
<1>1. rec_len \in Nat \ {0} /\ chan[t] \in Seq(Msg) /\ round[t] \in Nat /\ mround \in Nat
  BY ThreadFacts
<1>2. \A i \in 1..Len(chan[t]) : Payload(t, chan[t][i])' = Payload(t, chan[t][i])
  BY <1>0 DEF Payload
<1>3. SameMessages(t)
  BY <1>0, <1>2, PayloadSame DEF SameMessages
<1>4. \A i \in 1..Len(chan'[t]) : Packed(Payload(t, chan[t][i]), chan[t][i].len, rec_len)'
  BY <1>0, <1>2, PayloadSame DEF PackInv
<1>5. CASE NoRest(t)
  <2>1. /\ pc[t] = "loop" /\ pc'[t] = "sent" /\ ~MoreToSend(t) /\ buff_rec_cntr[t] = 0
        /\ UNCHANGED <<round, rec_cntr>>
    BY <1>0, <1>5 DEF NoRest, GoTo, buffVars
  <2>2. buff_off[t] = 0
    BY <1>0, <2>1 DEF PackInv
  <2>3. SameFilled(t)
    BY <1>1, <2>1, <2>2, PackedEmpty DEF SameFilled, Filled
  <2>4. SamePending(t)
    BY <1>0, <2>1 DEF SamePending, Pending, Sent
  <2>5. ~MoreToSend(t)'
    BY <1>0, <2>1 DEF MoreToSend, Args
  <2> QED
    BY <1>3, <1>4, <2>1, <2>3, <2>4, <2>5 DEF PackInv, LeftInv
<1>6. CASE FinishTerminator(t)
  <2>1. pc[t] = "term" /\ pc'[t] # "loop" /\ UNCHANGED <<round, rec_cntr>>
    BY <1>0, <1>6 DEF FinishTerminator, GoTo, buffVars
  <2>2. SameFilled(t)
    BY <2>1 DEF SameFilled, Filled
  <2>3. SamePending(t)
    BY <1>0, <2>1 DEF SamePending, Pending, Sent
  <2>4. ~MoreToSend(t)'
    BY <1>0, <2>1 DEF MoreToSend, Args, LeftInv
  <2> QED
    BY <1>3, <1>4, <2>1, <2>2, <2>3, <2>4 DEF PackInv, LeftInv
<1>7. CASE BeginRound(t)
  <2>1. /\ pc[t] = "single" /\ pc'[t] = "loop" /\ mround > round[t]
        /\ round'[t] = round[t] + 1 /\ rec_cntr'[t] = 0 /\ buff_off'[t] = 0
    BY <1>0, <1>7 DEF BeginRound, GoTo
  <2>2. round'[t] = mround /\ round[t] # mround
    BY <1>1, <2>1 DEF Inv, RoundInv
  <2>3. SamePending(t)
    BY <1>0, <2>1, <2>2 DEF SamePending, Pending, Sent
  <2>4. Filled(t)' = {} /\ Packed(buff[t][buff_idx[t]]', 0, rec_len')
    BY <1>0, <1>1, <2>1, PackedEmpty DEF Filled
  <2>5. SameFilled(t)
    BY <2>1, <2>4 DEF SameFilled, Filled
  <2> QED
    BY <1>3, <1>4, <2>1, <2>3, <2>4, <2>5 DEF PackInv, LeftInv
<1> QED
  BY <1>5, <1>6, <1>7

\* A transfer moves no record either.
LEMMA TransferPlaces ==
    ASSUME Inv, GatherInv, NEW t \in Threads, Transfer(t)
    PROVE  SamePending(t) /\ SameFilled(t) /\ SameMessages(t) /\ PackInv(t)' /\ LeftInv(t)'
<1>0. /\ PackInv(t) /\ LeftInv(t)
      /\ UNCHANGED <<rounds, rec_len, mround, pc, round, rec_cntr, buff, buff_idx, buff_off,
                     buff_rec_cntr>>
  BY DEF Transfer, GatherInv, jobVars, masterVars, threadVars, buffVars
<1>1. /\ Len(chan'[t]) = Len(chan[t])
      /\ \A i \in 1..Len(chan[t]) :
           chan'[t][i].len = chan[t][i].len /\ Payload(t, chan'[t][i]) = Payload(t, chan[t][i])
  BY TransferEffect
<1>2. \A i \in 1..Len(chan[t]) : Payload(t, chan[t][i])' = Payload(t, chan[t][i])
  BY <1>0, <1>1 DEF Payload
<1>3. SameMessages(t)
  BY <1>0, <1>1, <1>2, PayloadSame DEF SameMessages
<1>4. \A i \in 1..Len(chan'[t]) : Packed(Payload(t, chan[t][i]), chan[t][i].len, rec_len)'
  BY <1>0, <1>1, <1>2, PayloadSame DEF PackInv
<1> QED
  BY <1>0, <1>3, <1>4
    DEF SamePending, Pending, Sent, SameFilled, Filled, PackInv, LeftInv, MoreToSend, Args

\* The first message of a thread becomes what the master has received; nothing
\* else changes place.
LEMMA DeliverPlaces ==
    ASSUME Inv, GatherInv, NEW t \in Threads, Deliver(t)
    PROVE  /\ Received = {} /\ Received' \subseteq Mail(t)
           /\ Mail(t)' = Mail(t) \ Received' /\ MailInv(t)'
           /\ SamePending(t) /\ SameFilled(t) /\ PackInv(t)' /\ LeftInv(t)'
           /\ Unread' = Unread /\ RecvPackInv'
<1>0. /\ PackInv(t) /\ MailInv(t) /\ LeftInv(t) /\ RecvPackInv
      /\ UNCHANGED <<rounds, rec_len, mround, pc, round, rec_cntr, buff, buff_idx, buff_off,
                     buff_rec_cntr, mpc, rbuff_idx, rec_ptr, msg_end>>
      /\ rrequest = "posted" /\ rrequest' = "complete"
  BY DEF Deliver, GatherInv, jobVars, threadVars, buffVars
<1>1. /\ chan[t] \in Seq(Msg) /\ Len(chan[t]) \in Nat \ {0} /\ chan[t][1] \in Msg
      /\ Len(chan'[t]) = Len(chan[t]) - 1
      /\ \A i \in 1..Len(chan'[t]) : chan'[t][i] = chan[t][i + 1]
      /\ msg_size' = chan[t][1].len
  BY DeliverEffect
<1>2. PICK n \in Nat : n = Len(chan'[t]) /\ Len(chan[t]) = n + 1
  BY <1>1
<1>3. ASSUME NEW i \in 1..n
      PROVE  /\ InMsg(t, i)' = InMsg(t, i + 1) /\ i + 1 \in 1..Len(chan[t])
             /\ Packed(Payload(t, chan[t][i]), chan[t][i].len, rec_len)'
  <2>1. chan'[t][i] = chan[t][i + 1] /\ i + 1 \in 1..Len(chan[t])
    BY <1>1, <1>2
  <2>2. Payload(t, chan[t][i])' = Payload(t, chan[t][i + 1])
    BY <1>0, <2>1 DEF Payload
  <2> QED
    BY <1>0, <2>1, <2>2 DEF InMsg, PackInv
<1>4. /\ 1 \in 1..Len(chan[t])
      /\ \A j \in 1..Len(chan[t]) : j = 1 \/ \E i \in 1..n : j = i + 1
      /\ \A i \in 1..n : i + 1 # 1
  <2>1. ASSUME NEW j \in 1..Len(chan[t]), j # 1 PROVE \E i \in 1..n : j = i + 1
    <3>1. j - 1 \in 1..n /\ j = (j - 1) + 1
      BY <1>1, <1>2, <2>1
    <3> QED
      BY <3>1
  <2> QED
    BY <1>1, <2>1
<1>5. /\ rec_len \in Nat \ {0} /\ BuffSize \in Nat /\ rbuff_idx \in {0, 1}
      /\ rec_ptr.buff \in {0, 1}
  BY ThreadFacts DEF Inv, TypeOK
<1>6. PICK len \in Nat : len = chan[t][1].len
  BY <1>1, <1>5 DEF Msg
<1>7. SameUnits(Payload(t, chan[t][1]), rec_buff'[rbuff_idx], len)
  BY <1>6, DeliverBuffer DEF SameUnits
<1>8. Packed(Payload(t, chan[t][1]), len, rec_len)
  BY <1>0, <1>4, <1>6 DEF PackInv
<1>9. /\ Packed(rec_buff'[rbuff_idx], len, rec_len)
      /\ SameRecords(Payload(t, chan[t][1]), rec_buff'[rbuff_idx], len, rec_len)
  BY <1>5, <1>7, <1>8, PackedCopy
<1>10. Received' = InMsg(t, 1)
  BY <1>0, <1>1, <1>6, <1>9 DEF Received, InMsg, SameRecords
<1>11. Received' \subseteq Mail(t) /\ Received = {}
  BY <1>0, <1>4, <1>10 DEF Mail, Received
<1>12. Mail(t)' = Mail(t) \ Received'
  <2>1. Mail(t)' = UNION {InMsg(t, i + 1) : i \in 1..n}
    BY <1>2, <1>3 DEF Mail
  <2>2. \A i \in 1..n : InMsg(t, i + 1) \cap InMsg(t, 1) = {}
    BY <1>0, <1>3, <1>4 DEF MailInv
  <2>3. Mail(t) = InMsg(t, 1) \cup UNION {InMsg(t, i + 1) : i \in 1..n}
    BY <1>3, <1>4 DEF Mail
  <2> QED
    BY <1>10, <2>1, <2>2, <2>3
<1>13. MailInv(t)'
  <2>1. ASSUME NEW i \in 1..n, NEW j \in 1..n, i # j PROVE InMsg(t, i)' \cap InMsg(t, j)' = {}
    <3>1. i + 1 # j + 1
      BY <2>1
    <3> QED
      BY <1>0, <1>3, <3>1 DEF MailInv
  <2> QED
    BY <1>2, <2>1 DEF MailInv
<1>14. mpc = "process" => rec_buff'[rec_ptr.buff] = rec_buff[rec_ptr.buff]
  BY <1>5, DeliverBuffer DEF Inv, RecvFrames
<1>15. Unread' = Unread
  BY <1>0, <1>14 DEF Unread
<1>16. RecvPackInv'
  BY <1>0, <1>1, <1>6, <1>9, <1>14 DEF RecvPackInv
<1>17. PackInv(t)'
  BY <1>0, <1>2, <1>3 DEF PackInv
<1> QED
  BY <1>0, <1>11, <1>12, <1>13, <1>15, <1>16, <1>17
    DEF SamePending, Pending, Sent, SameFilled, Filled, LeftInv, MoreToSend, Args

----------------------------------------------------------------------------
(* The places of the master's records.                                     *)

\* A raw record tells which record it is.
LEMMA RawInjective ==
    ASSUME rec_len \in Nat \ {0}, NEW r, NEW s, Raw(r) = Raw(s) PROVE r = s
<1>1. 1 \in 1..rec_len
  OBVIOUS
<1>2. Raw(r)[1] = <<r, 1>> /\ Raw(s)[1] = <<s, 1>>
  BY <1>1 DEF Raw
<1> QED
  BY <1>2

\* A bag of different records gets one more.
LEMMA BagAdd ==
    ASSUME NEW B, B = SetToBag(DOMAIN B), NEW x, x \notin DOMAIN B
    PROVE  /\ B (+) SetToBag({x}) = SetToBag(DOMAIN B \cup {x})
           /\ DOMAIN (B (+) SetToBag({x})) = DOMAIN B \cup {x}
<1>1. B = [e \in DOMAIN B |-> 1] /\ SetToBag({x}) = [e \in {x} |-> 1]
  BY DEF SetToBag
<1>2. DOMAIN SetToBag({x}) = {x} /\ \A e \in DOMAIN B : B[e] = 1
  BY <1>1
<1>3. B (+) SetToBag({x}) = [e \in DOMAIN B \cup {x} |-> 1]
  BY <1>1, <1>2 DEF (+)
<1> QED
  BY <1>3 DEF SetToBag

\* recv_loop hands one record to the callback, which stores it.
LEMMA ProcessPlaces ==
    ASSUME Inv, GatherInv, ProcessRecord
    PROVE  \E r \in Unread :
              /\ r \in Record /\ r[1] \in Threads /\ r \in Of(r[1], Unread)
              /\ Unread' = Unread \ {r} /\ Received' = Received /\ RecvPackInv'
              /\ lnf_mem' = lnf_mem (+) SetToBag({Raw(r)})
<1>0. /\ mpc = "process" /\ rec_ptr'.buff = rec_ptr.buff
      /\ rec_ptr'.pos = rec_ptr.pos + HdrSize + rec_len
      /\ mpc' = IF rec_ptr'.pos < msg_end THEN "process" ELSE "wait"
      /\ UNCHANGED <<rec_len, rec_buff, rbuff_idx, rrequest, msg_size, msg_end>>
  BY ProcessEffect DEF ProcessRecord, recvVars, jobVars
<1>1. /\ rec_len \in Nat \ {0} /\ HdrSize \in Nat \ {0} /\ BuffSize \in Nat
      /\ msg_end \in 0..BuffSize /\ rec_ptr.pos \in 0..BuffSize
      /\ rec_ptr.pos + HdrSize + rec_len \in 0..msg_end /\ SizeAt(rec_ptr) = rec_len
  BY <1>0, Sizes, AtRecord DEF Inv, TypeOK, JobTypes, BufferTypes
<1>2. PICK from \in Nat, len \in Nat : from = rec_ptr.pos /\ len = msg_end
  BY <1>1
<1> DEFINE b == rec_buff[rec_ptr.buff]
<1>3. /\ Packed(b, len, rec_len) /\ Multiple(from, HdrSize + rec_len) /\ from < len
      /\ RecvPackInv
  <2>1. /\ RecvPackInv /\ Packed(b, msg_end, rec_len)
        /\ Multiple(rec_ptr.pos, HdrSize + rec_len)
    BY <1>0 DEF GatherInv, RecvPackInv
  <2>2. rec_ptr.pos < msg_end
    BY <1>1
  <2> QED
    BY <1>2, <2>1, <2>2
<1> HIDE DEF b
<1> DEFINE r == RecAt(b, from)
<1>4. /\ r \in Held(b, from, len, rec_len) /\ r \in Record
      /\ Held(b, from + HdrSize + rec_len, len, rec_len) = Held(b, from, len, rec_len) \ {r}
      /\ \A k \in 1..rec_len : b[from + HdrSize + k - 1] = <<r, k>>
  <2>1. PICK n \in Nat \ {0} : n = rec_len
    BY <1>1
  <2>2. Packed(b, len, n) /\ Multiple(from, HdrSize + n) /\ from < len
    BY <1>3, <2>1
  <2>3. OneTaken(b, from, len, n)
    BY <2>2, PackedTake
  <2> QED
    BY <2>1, <2>3 DEF OneTaken
<1>5. Unread = Held(b, from, len, rec_len)
  BY <1>0, <1>2 DEF Unread, b
<1>6. Unread' = Unread \ {r}
  <2>1. CASE mpc' = "process"
    BY <1>0, <1>2, <1>4, <1>5, <2>1 DEF Unread, b
  <2>2. CASE mpc' # "process"
    <3>1. len <= from + HdrSize + rec_len
      BY <1>0, <1>1, <1>2, <2>2
    <3>2. Starts(from + HdrSize + rec_len, len, rec_len) = {}
      BY <1>1, <3>1 DEF Starts
    <3>3. Held(b, from + HdrSize + rec_len, len, rec_len) = {}
      BY <3>2 DEF Held
    <3> QED
      BY <1>4, <1>5, <2>2, <3>3 DEF Unread
  <2> QED
    BY <2>1, <2>2
<1>7. Received' = Received
  BY <1>0 DEF Received
<1>8. RecvPackInv'
  <2>1. Multiple(from + (HdrSize + rec_len), HdrSize + rec_len)
    BY <1>1, <1>3, MultipleNext
  <2>2. from + (HdrSize + rec_len) = rec_ptr'.pos
    BY <1>0, <1>1, <1>2
  <2> QED
    BY <1>0, <1>3, <2>1, <2>2 DEF RecvPackInv, b
<1>9. lnf_mem' = lnf_mem (+) SetToBag({Raw(r)})
  <2>1. lnf_mem' = lnf_mem (+) SetToBag({[k \in 1..rec_len |-> b[(from + HdrSize) + k - 1]]})
    BY <1>1, <1>2 DEF ProcessRecord, b
  <2>2. [k \in 1..rec_len |-> b[(from + HdrSize) + k - 1]] = Raw(r)
    BY <1>1, <1>4 DEF Raw
  <2> QED
    BY <2>1, <2>2
<1>10. r[1] \in Threads /\ r \in Of(r[1], Unread)
  BY <1>4, <1>5 DEF Record, Of
<1> HIDE DEF r
<1> QED
  BY <1>4, <1>5, <1>6, <1>7, <1>8, <1>9, <1>10

\* recv_loop passes on to the records of a message, or counts a terminator.
LEMMA RecvPlaces ==
    ASSUME Inv, GatherInv, RecvData \/ RecvTerminator
    PROVE  /\ Unread = {} /\ Unread' = Received /\ Received' = {} /\ RecvPackInv'
           /\ lnf_mem' = lnf_mem /\ mround' = mround
<1>0. RecvPackInv /\ HdrSize \in Nat /\ rec_len \in Nat \ {0}
  BY Sizes DEF GatherInv, Inv, JobTypes
<1>1. CASE RecvData
  <2>1. /\ mpc = "wait" /\ mpc' = "process" /\ rrequest = "complete" /\ rrequest' = "posted"
        /\ rec_ptr' = [buff |-> rbuff_idx, pos |-> 0] /\ msg_end' = msg_size
        /\ UNCHANGED <<rec_buff, rec_len, lnf_mem, mround>>
    BY <1>1 DEF RecvData, jobVars
  <2>2. rec_ptr'.buff = rbuff_idx /\ rec_ptr'.pos = 0
    BY <2>1
  <2>3. Multiple(0, HdrSize + rec_len)
    BY <1>0 DEF Multiple
  <2> QED
    BY <1>0, <2>1, <2>2, <2>3 DEF Unread, Received, RecvPackInv
<1>2. CASE RecvTerminator
  <2>1. /\ mpc = "wait" /\ mpc' # "process" /\ rrequest' # "complete" /\ msg_size = 0
        /\ UNCHANGED <<rec_len, lnf_mem, mround>>
    BY <1>2 DEF RecvTerminator, jobVars
  <2>2. Received = {}
    BY <1>0, <2>1, PackedEmpty DEF Received
  <2> QED
    BY <2>1, <2>2 DEF Unread, Received, RecvPackInv
<1> QED
  BY <1>1, <1>2

----------------------------------------------------------------------------
(* Every record due is always in exactly one place.                        *)

\* What the callback stores was not there before, and it is now.
LEMMA StoreOne ==
    ASSUME Inv, GatherInv, NEW r \in Record, r[1] \in Threads, r \in Of(r[1], Unread),
           rec_len' = rec_len, lnf_mem' = lnf_mem (+) SetToBag({Raw(r)})
    PROVE  /\ Raw(r) \notin DOMAIN lnf_mem
           /\ r \in DueOf(rounds[mround][r[1]], 0)
           /\ BagInv'
           /\ Stored(r[1])' = Stored(r[1]) \cup {r}
           /\ \A t \in Threads : t # r[1] => Stored(t)' = Stored(t)
<1>1. PlaceInv(r[1]) /\ BagInv /\ rec_len \in Nat \ {0}
  BY ThreadFacts DEF GatherInv
<1>2. r \notin Stored(r[1]) /\ r \in DueOf(rounds[mround][r[1]], 0)
  BY <1>1 DEF PlaceInv, Parted
<1>3. Raw(r) \notin DOMAIN lnf_mem
  BY <1>2 DEF Stored
<1>4. /\ lnf_mem' = SetToBag(DOMAIN lnf_mem \cup {Raw(r)})
      /\ DOMAIN lnf_mem' = DOMAIN lnf_mem \cup {Raw(r)}
  BY <1>1, <1>3, BagAdd DEF BagInv
<1>5. \A s : Raw(s)' = Raw(s)
  BY DEF Raw
<1>6. BagInv'
  BY <1>1, <1>4, <1>5 DEF BagInv
<1>7. \A s \in Record : Raw(s) = Raw(r) => s = r
  BY <1>1, RawInjective
<1>8. ASSUME NEW t \in Threads, NEW s \in Record
      PROVE  s \in Stored(t)' <=> s \in Stored(t) \/ (s = r /\ t = r[1])
  BY <1>4, <1>5, <1>7 DEF Stored
<1>9. \A t \in Threads : Stored(t) \subseteq Record /\ Stored(t)' \subseteq Record
  BY DEF Stored
<1> QED
  BY <1>2, <1>3, <1>6, <1>8, <1>9

\* Nothing but the callback changes the memory within a round.
LEMMA StoredStays ==
    ASSUME rec_len' = rec_len, lnf_mem' = lnf_mem, NEW t \in Threads
    PROVE  Stored(t)' = Stored(t)
<1>1. \A s : Raw(s)' = Raw(s)
  BY DEF Raw
<1> QED
  BY <1>1 DEF Stored

\* The memory has no record twice.
LEMMA BagStep ==
    ASSUME Inv, GatherInv, [Next]_vars PROVE BagInv'
<1>1. BagInv /\ UNCHANGED <<rounds, rec_len>>
  BY StepFrames DEF GatherInv, jobVars
<1>2. \A s : Raw(s)' = Raw(s)
  BY <1>1 DEF Raw
<1>3. CASE lnf_mem' = lnf_mem
  BY <1>1, <1>2, <1>3 DEF BagInv
<1>4. CASE ProcessRecord
  BY <1>1, <1>4, ProcessPlaces, StoreOne
<1>5. CASE NextRecvLoop
  <2>1. lnf_mem' = EmptyBag
    BY <1>5 DEF NextRecvLoop
  <2>2. DOMAIN lnf_mem' = {}
    BY <2>1 DEF EmptyBag, SetToBag
  <2> QED
    BY <2>1, <2>2 DEF BagInv, EmptyBag
<1>6. lnf_mem' = lnf_mem \/ ProcessRecord \/ NextRecvLoop
  <2>1. CASE MasterStep
    BY <2>1 DEF MasterStep, RecvTerminator, RecvData
  <2>2. ASSUME NEW t \in Threads, Deliver(t) PROVE lnf_mem' = lnf_mem
    BY <2>2 DEF Deliver
  <2>3. ASSUME UNCHANGED masterVars PROVE lnf_mem' = lnf_mem
    BY <2>3 DEF masterVars
  <2> QED
    BY <2>1, <2>2, <2>3, StepFrames
<1> QED
  BY <1>3, <1>4, <1>5, <1>6

\* What the master has received is packed.
LEMMA RecvPackStep ==
    ASSUME Inv, GatherInv, [Next]_vars PROVE RecvPackInv'
<1>1. RecvPackInv /\ UNCHANGED <<rounds, rec_len>>
  BY StepFrames DEF GatherInv, jobVars
<1>2. ASSUME UNCHANGED masterVars PROVE RecvPackInv'
  BY <1>1, <1>2 DEF RecvPackInv, masterVars, recvVars
<1>3. CASE NextRecvLoop
  BY <1>3 DEF NextRecvLoop, RecvPackInv
<1>4. CASE MasterStep
  BY <1>3, <1>4, RecvPlaces, ProcessPlaces DEF MasterStep
<1> QED
  BY <1>2, <1>4, StepFrames, DeliverPlaces

\* The master's part of the places, while its thread t does nothing.
LEMMA MasterPlaceStep ==
    ASSUME Inv, GatherInv, MasterStep, UNCHANGED <<jobVars, threadVars, chan>>, NEW t \in Threads
    PROVE  PlaceInv(t)' /\ MailInv(t)' /\ PackInv(t)' /\ LeftInv(t)'
<1>0. /\ UNCHANGED <<rounds, rec_len>> /\ UNCHANGED ThreadState(t) /\ chan'[t] = chan[t]
      /\ PlaceInv(t) /\ MailInv(t)
  BY DEF jobVars, threadVars, buffVars, ThreadState, GatherInv
<1>1. /\ mround' = mround => SamePending(t)
      /\ SameFilled(t) /\ SameMessages(t) /\ PackInv(t)' /\ LeftInv(t)'
  BY <1>0, ThreadStays
<1>2. Mail(t)' = Mail(t) /\ MailInv(t)' /\ Filled(t)' = Filled(t)
  BY <1>0, <1>1, SameMail DEF SameFilled
<1>3. CASE RecvData \/ RecvTerminator
  <2>1. /\ Unread = {} /\ Unread' = Received /\ Received' = {} /\ lnf_mem' = lnf_mem
        /\ mround' = mround
    BY <1>3, RecvPlaces
  <2>2. Stored(t)' = Stored(t) /\ Pending(t)' = Pending(t)
    BY <1>0, <1>1, <2>1, StoredStays DEF SamePending
  <2>3. Of(t, Received)' = {} /\ Of(t, Unread) = {} /\ Of(t, Unread)' = Of(t, Received)
    BY <2>1 DEF Of
  <2>4. DueOf(rounds[mround][t], 0)' = DueOf(rounds[mround][t], 0)
    BY <1>0, <2>1
  <2>5. PlaceInv(t)'
    BY <1>0, <1>2, <2>2, <2>3, <2>4 DEF PlaceInv, Parted
  <2> QED
    BY <1>1, <1>2, <2>5
<1>4. CASE ProcessRecord
  <2>1. PICK r \in Unread :
           /\ r \in Record /\ r[1] \in Threads /\ r \in Of(r[1], Unread)
           /\ Unread' = Unread \ {r} /\ Received' = Received
           /\ lnf_mem' = lnf_mem (+) SetToBag({Raw(r)})
    BY <1>4, ProcessPlaces
  <2>2. mround' = mround
    BY <1>4 DEF ProcessRecord
  <2>3. /\ Stored(r[1])' = Stored(r[1]) \cup {r}
        /\ \A u \in Threads : u # r[1] => Stored(u)' = Stored(u)
    BY <1>0, <2>1, StoreOne
  <2>4. /\ Pending(t)' = Pending(t) /\ Of(t, Received)' = Of(t, Received)
        /\ DueOf(rounds[mround][t], 0)' = DueOf(rounds[mround][t], 0)
    BY <1>0, <1>1, <2>1, <2>2 DEF SamePending, Of
  <2>5. CASE t = r[1]
    <3>1. Of(t, Unread)' = Of(t, Unread) \ {r} /\ r \in Of(t, Unread)
      BY <2>1, <2>5 DEF Of
    <3>2. Stored(t)' = Stored(t) \cup {r}
      BY <2>3, <2>5
    <3>3. PlaceInv(t)'
      BY <1>0, <1>2, <2>4, <3>1, <3>2 DEF PlaceInv, Parted
    <3> QED
      BY <1>1, <1>2, <3>3
  <2>6. CASE t # r[1]
    <3>1. Of(t, Unread)' = Of(t, Unread) /\ Stored(t)' = Stored(t)
      BY <2>1, <2>3, <2>6 DEF Of
    <3>2. PlaceInv(t)'
      BY <1>0, <1>2, <2>4, <3>1 DEF PlaceInv, Parted
    <3> QED
      BY <1>1, <1>2, <3>2
  <2> QED
    BY <2>5, <2>6
<1>5. CASE NextRecvLoop
  <2>1. /\ mpc = "next" /\ mpc' = "wait" /\ rrequest' = "posted" /\ lnf_mem' = EmptyBag
        /\ mround' = mround + 1
    BY <1>5 DEF NextRecvLoop
  <2>2. active_sources = 0
    BY <2>1 DEF Inv, ReceiverInv
  <2>3. round[t] = mround /\ pc[t] # "loop" /\ chan[t] = <<>> /\ mround \in Nat
    BY <2>2, Quiet, ThreadFacts DEF Ended
  <2>4. Filled(t)' = {} /\ Mail(t)' = {}
    BY <1>2, <2>3 DEF Filled, Mail
  <2>5. Of(t, Received)' = {} /\ Of(t, Unread)' = {}
    BY <2>1 DEF Of, Received, Unread
  <2>6. Stored(t)' = {}
    BY <2>1 DEF Stored, EmptyBag, SetToBag
  <2>7. round'[t] # mround'
    BY <1>0, <2>1, <2>3 DEF ThreadState
  <2>8. Pending(t)' = DueOf(rounds[mround][t], 0)'
    BY <2>7 DEF Pending, Sent
  <2>9. PlaceInv(t)'
    BY <2>4, <2>5, <2>6, <2>8 DEF PlaceInv, Parted
  <2> QED
    BY <1>1, <1>2, <2>9
<1> QED
  BY <1>3, <1>4, <1>5 DEF MasterStep

\* A step of a thread or of MPI, on its own messages or on those of another one.
LEMMA PlaceStep ==
    ASSUME Inv, GatherInv, [Next]_vars, NEW t \in Threads
    PROVE  PlaceInv(t)' /\ MailInv(t)' /\ PackInv(t)' /\ LeftInv(t)'
<1>0. /\ UNCHANGED jobVars /\ UNCHANGED <<rounds, rec_len>> /\ PlaceInv(t) /\ MailInv(t)
      /\ mround' = mround => DueOf(rounds[mround][t], 0)' = DueOf(rounds[mround][t], 0)
  BY StepFrames DEF GatherInv, jobVars
<1>1. ASSUME UNCHANGED masterVars
      PROVE  /\ mround' = mround /\ SameMaster(t)
             /\ Of(t, Received)' = Of(t, Received) /\ Of(t, Unread)' = Of(t, Unread)
             /\ Stored(t)' = Stored(t)
  BY <1>0, <1>1, MasterStays DEF SameMaster, masterVars, Of
<1>2. ASSUME UNCHANGED masterVars, SamePending(t), SameFilled(t), SameMessages(t)
      PROVE  PlaceInv(t)' /\ MailInv(t)'
  <2>1. Mail(t)' = Mail(t) /\ MailInv(t)'
    BY <1>0, <1>2, SameMail
  <2> QED
    BY <1>0, <1>1, <1>2, <2>1 DEF PlaceInv, SamePending, SameFilled
<1>3. ASSUME SendStep(t), UNCHANGED masterVars
      PROVE  PlaceInv(t)' /\ MailInv(t)' /\ PackInv(t)' /\ LeftInv(t)'
  <2>1. CASE PutRecord(t)
    <3>1. /\ SameMessages(t) /\ PackInv(t)' /\ LeftInv(t)'
      BY <2>1, PutPlaces
    <3>2. PICK rec \in Pending(t) :
             Pending(t)' = Pending(t) \ {rec} /\ Filled(t)' = Filled(t) \cup {rec}
      BY <2>1, PutPlaces
    <3>3. Mail(t)' = Mail(t) /\ MailInv(t)'
      BY <1>0, <3>1, SameMail
    <3>4. PlaceInv(t)'
      BY <1>0, <1>1, <1>3, <3>2, <3>3 DEF PlaceInv, Parted
    <3> QED
      BY <3>1, <3>3, <3>4
  <2>2. CASE SendFull(t) \/ SendRest(t) \/ StartTerminator(t)
    <3>1. /\ Filled(t)' = {}
          /\ Mail(t)' = Mail(t) \cup Filled(t) /\ MailInv(t)'
          /\ Pending(t)' = Pending(t) /\ PackInv(t)' /\ LeftInv(t)'
      BY <2>2, SendPlaces DEF SamePending
    <3>2. PlaceInv(t)'
      BY <1>0, <1>1, <1>3, <3>1 DEF PlaceInv, Parted
    <3> QED
      BY <3>1, <3>2
  <2>3. CASE NoRest(t) \/ FinishTerminator(t) \/ BeginRound(t)
    BY <1>2, <1>3, <2>3, QuietPlaces
  <2> QED
    BY <1>3, <2>1, <2>2, <2>3 DEF SendStep
<1>4. ASSUME Transfer(t), UNCHANGED masterVars
      PROVE  PlaceInv(t)' /\ MailInv(t)' /\ PackInv(t)' /\ LeftInv(t)'
  BY <1>2, <1>4, TransferPlaces
<1>5. ASSUME UNCHANGED masterVars, UNCHANGED ThreadState(t), chan'[t] = chan[t]
      PROVE  PlaceInv(t)' /\ MailInv(t)' /\ PackInv(t)' /\ LeftInv(t)'
  BY <1>0, <1>1, <1>2, <1>5, ThreadStays
<1>6. ASSUME Deliver(t)
      PROVE  PlaceInv(t)' /\ MailInv(t)' /\ PackInv(t)' /\ LeftInv(t)'
  <2>1. /\ Received = {} /\ Received' \subseteq Mail(t)
        /\ Mail(t)' = Mail(t) \ Received' /\ MailInv(t)'
        /\ SamePending(t) /\ SameFilled(t) /\ PackInv(t)' /\ LeftInv(t)'
        /\ Unread' = Unread
    BY <1>6, DeliverPlaces
  <2>2. mround' = mround /\ lnf_mem' = lnf_mem
    BY <1>6 DEF Deliver
  <2>3. Stored(t)' = Stored(t)
    BY <1>0, <2>2, StoredStays
  <2>4. Of(t, Received)' = Received' /\ Of(t, Received) = {} /\ Of(t, Unread)' = Of(t, Unread)
    BY <2>1, PlacesOwn DEF Of
  <2>5. PlaceInv(t)'
    BY <1>0, <2>1, <2>2, <2>3, <2>4 DEF PlaceInv, Parted, SamePending, SameFilled
  <2> QED
    BY <2>1, <2>5
<1>7. ASSUME NEW u \in Threads, u # t, Deliver(u), UNCHANGED ThreadState(t), chan'[t] = chan[t]
      PROVE  PlaceInv(t)' /\ MailInv(t)' /\ PackInv(t)' /\ LeftInv(t)'
  <2>1. Received = {} /\ Received' \subseteq Mail(u) /\ Unread' = Unread
    BY <1>7, DeliverPlaces
  <2>2. mround' = mround /\ lnf_mem' = lnf_mem
    BY <1>7 DEF Deliver
  <2>3. Stored(t)' = Stored(t)
    BY <1>0, <2>2, StoredStays
  <2>4. Of(t, Received)' = {} /\ Of(t, Received) = {} /\ Of(t, Unread)' = Of(t, Unread)
    BY <1>7, <2>1, PlacesOwn DEF Of
  <2>5. /\ SamePending(t) /\ SameFilled(t) /\ SameMessages(t) /\ PackInv(t)' /\ LeftInv(t)'
    BY <1>0, <1>7, <2>2, ThreadStays
  <2>6. Mail(t)' = Mail(t) /\ MailInv(t)'
    BY <1>0, <2>5, SameMail
  <2>7. PlaceInv(t)'
    BY <1>0, <2>2, <2>3, <2>4, <2>5, <2>6 DEF PlaceInv, Parted, SamePending, SameFilled
  <2> QED
    BY <2>5, <2>6, <2>7
<1>8. ASSUME UNCHANGED threadVars PROVE UNCHANGED ThreadState(t)
  BY <1>8 DEF threadVars, buffVars, ThreadState
<1>9. ASSUME NEW u \in Threads, u # t, Transfer(u) \/ Deliver(u) PROVE chan'[t] = chan[t]
  <2>1. chan \in [Threads -> Seq(Msg)]
    BY DEF Inv, BufferTypes
  <2> QED
    BY <1>9, <2>1 DEF Transfer, Deliver
<1>10. CASE \E u \in Threads : SendStep(u) /\ UNCHANGED masterVars
  BY <1>3, <1>5, <1>10, OtherThreads
<1>11. CASE \E u \in Threads : Transfer(u) /\ UNCHANGED <<threadVars, masterVars>>
  BY <1>4, <1>5, <1>8, <1>9, <1>11
<1>12. CASE \E u \in Threads : Deliver(u) /\ UNCHANGED threadVars
  BY <1>6, <1>7, <1>8, <1>9, <1>12
<1>13. CASE MasterStep /\ UNCHANGED <<threadVars, chan>>
  BY <1>0, <1>13, MasterPlaceStep
<1>14. CASE UNCHANGED <<threadVars, chan, masterVars>>
  BY <1>5, <1>8, <1>14
<1> QED
  BY <1>10, <1>11, <1>12, <1>13, <1>14, StepFrames

\* The records at the positions of a thread's memory, each once.
LEMMA OwnRecords ==
    ASSUME NEW t, NEW n \in Nat, NEW f \in [1..n -> Nat],
           \A i, j \in 1..n : f[i] = f[j] => i = j, NEW l
    PROVE  OwnJob([mem |-> [i \in 1..n |-> <<t, f[i]>>], limit |-> l], t)
<1> DEFINE m == [i \in 1..n |-> <<t, f[i]>>]
<1>1. m \in Seq({t} \X Nat) /\ Len(m) = n
  OBVIOUS
<1>2. \A i \in 1..n : m[i] = <<t, f[i]>>
  OBVIOUS
<1> HIDE DEF m
<1>3. \A i \in 1..n : m[i][1] = t /\ m[i][2] = f[i]
  BY <1>2
<1>4. \A i, j \in 1..n : m[i] = m[j] => i = j
  BY <1>3
<1>5. OwnJob([mem |-> m, limit |-> l], t)
  BY <1>1, <1>3, <1>4 DEF OwnJob
<1> QED
  BY <1>5 DEF m

\* In every mode and round a thread sends records of its own, each once.
LEMMA JobsOwn ==
    ASSUME rounds \in SortRounds \cup AggrRounds \cup TputRounds PROVE JobInv
<1>0. /\ \A m \in Memories : m \in [Threads -> Nat]
      /\ \A f \in FoundRecs : f \in [Threads -> Seq(Nat \ {0})]
      /\ \A f \in FoundRecs : \A t \in Threads : \A i, j \in 1..Len(f[t]) :
            f[t][i] = f[t][j] => i = j
  BY RawJobsAssumption
<1>1. ASSUME NEW m \in Memories, NEW limits, NEW t \in Threads
      PROVE  OwnJob(Round(RecordsOf(m), limits)[t], t)
  <2>1. PICK n \in Nat : n = m[t]
    BY <1>0
  <2> DEFINE f == [i \in 1..n |-> i]
  <2>2. f \in [1..n -> Nat] /\ \A i, j \in 1..n : f[i] = f[j] => i = j
    OBVIOUS
  <2> HIDE DEF f
  <2>3. OwnJob([mem |-> [i \in 1..n |-> <<t, f[i]>>], limit |-> limits[t]], t)
    BY <2>2, OwnRecords
  <2> USE DEF f
  <2>4. [i \in 1..n |-> <<t, f[i]>>] = [i \in 1..n |-> <<t, i>>]
    OBVIOUS
  <2>5. Round(RecordsOf(m), limits)[t] =
           [mem |-> [i \in 1..n |-> <<t, f[i]>>], limit |-> limits[t]]
    BY <2>1, <2>4 DEF Round, RecordsOf
  <2> QED
    BY <2>3, <2>5
<1>2. ASSUME NEW p \in FoundRecs, NEW limits, NEW t \in Threads
      PROVE  OwnJob(Round(Found(p), limits)[t], t)
  <2>1. p[t] \in Seq(Nat \ {0})
    BY <1>0
  <2>2. PICK n \in Nat : n = Len(p[t])
    BY <2>1
  <2> DEFINE f == [i \in 1..n |-> p[t][i]]
  <2>3. f \in [1..n -> Nat] /\ \A i, j \in 1..n : f[i] = f[j] => i = j
    BY <1>0, <2>1, <2>2
  <2>4. OwnJob([mem |-> [i \in 1..n |-> <<t, f[i]>>], limit |-> limits[t]], t)
    BY <2>3, OwnRecords
  <2>5. [i \in 1..n |-> <<t, f[i]>>] = [i \in 1..n |-> <<t, p[t][i]>>]
    OBVIOUS
  <2>6. Round(Found(p), limits)[t] =
           [mem |-> [i \in 1..n |-> <<t, f[i]>>], limit |-> limits[t]]
    BY <2>2, <2>5 DEF Round, Found
  <2> QED
    BY <2>4, <2>6
<1> HIDE DEF Round
<1>3. CASE rounds \in SortRounds
  <2>1. PICK m \in Memories, n \in RecLimits : rounds = <<Round(RecordsOf(m), Everybody(n))>>
    BY <1>3 DEF SortRounds
  <2>2. Len(rounds) = 1 /\ rounds[1] = Round(RecordsOf(m), Everybody(n))
    BY <2>1
  <2> QED
    BY <1>1, <2>2 DEF JobInv
<1>4. CASE rounds \in AggrRounds
  <2>1. PICK m \in Memories : rounds = <<Round(RecordsOf(m), Everybody(0))>>
    BY <1>4 DEF AggrRounds
  <2>2. Len(rounds) = 1 /\ rounds[1] = Round(RecordsOf(m), Everybody(0))
    BY <2>1
  <2> QED
    BY <1>1, <2>2 DEF JobInv
<1>5. CASE rounds \in TputRounds
  <2>1. PICK q \in TputOutcomes :
           rounds = <<Round(RecordsOf(q.mem), Everybody(q.n)),
                      Round(RecordsOf(q.mem), q.cnt),
                      Round(Found(q.pos), Everybody(0))>>
    BY <1>5 DEF TputRounds
  <2>2. q.mem \in Memories /\ q.pos \in FoundRecs
    BY DEF TputOutcomes
  <2>3. /\ Len(rounds) = 3 /\ rounds[1] = Round(RecordsOf(q.mem), Everybody(q.n))
        /\ rounds[2] = Round(RecordsOf(q.mem), q.cnt)
        /\ rounds[3] = Round(Found(q.pos), Everybody(0))
    BY <2>1
  <2>4. \A i \in 1..3 : i = 1 \/ i = 2 \/ i = 3
    OBVIOUS
  <2>5. \A i \in 1..3 : \A t \in Threads : OwnJob(rounds[i][t], t)
    BY <1>1, <1>2, <2>2, <2>3, <2>4
  <2> QED
    BY <2>3, <2>5 DEF JobInv
<1> QED
  BY <1>3, <1>4, <1>5

\* At first every record due is in the memory of its thread.
LEMMA GatherInit == Init => GatherInv
<1> SUFFICES ASSUME Init PROVE GatherInv
  OBVIOUS
<1>0. Inv /\ rec_len \in Nat \ {0}
  BY InitInv DEF Inv, JobTypes
<1>1. JobInv
  BY JobsOwn DEF Init
<1>2. lnf_mem = EmptyBag /\ DOMAIN lnf_mem = {}
  BY DEF Init, EmptyBag, SetToBag
<1>3. BagInv
  BY <1>2 DEF BagInv, EmptyBag
<1>4. RecvPackInv
  BY DEF Init, RecvPackInv
<1>5. ASSUME NEW t \in Threads PROVE PackInv(t) /\ PlaceInv(t) /\ MailInv(t) /\ LeftInv(t)
  <2>1. /\ pc[t] = "loop" /\ buff_off[t] = 0 /\ chan[t] = <<>> /\ Sent(t) = 0
    BY <1>5 DEF Init, Sent
  <2>2. Packed(buff[t][buff_idx[t]], 0, rec_len) /\ Filled(t) = {}
    BY <1>0, <2>1, PackedEmpty DEF Filled
  <2>3. 1..Len(chan[t]) = {}
    BY <2>1
  <2>4. Mail(t) = {} /\ MailInv(t) /\ PackInv(t) /\ LeftInv(t)
    BY <2>1, <2>2, <2>3 DEF Mail, MailInv, PackInv, LeftInv
  <2>5. Of(t, Received) = {} /\ Of(t, Unread) = {} /\ Stored(t) = {}
    BY <1>2 DEF Init, Of, Received, Unread, Stored
  <2>6. PlaceInv(t)
    BY <2>1, <2>2, <2>4, <2>5 DEF PlaceInv, Parted, Pending
  <2> QED
    BY <2>4, <2>6
<1> QED
  BY <1>1, <1>3, <1>4, <1>5 DEF GatherInv

\* No step loses or duplicates a record.
LEMMA GatherStep == Inv /\ GatherInv /\ [Next]_vars => GatherInv'
<1> SUFFICES ASSUME Inv, GatherInv, [Next]_vars PROVE GatherInv'
  OBVIOUS
<1>1. JobInv'
  BY StepFrames DEF GatherInv, JobInv, jobVars
<1> QED
  BY <1>1, BagStep, RecvPackStep, PlaceStep DEF GatherInv

\* Both invariants hold in every state.
LEMMA GatherInvariance == Spec => [](Inv /\ GatherInv)
<1>1. Init => Inv /\ GatherInv
  BY InitInv, GatherInit
<1>2. (Inv /\ GatherInv) /\ [Next]_vars => (Inv /\ GatherInv)'
  BY InvStep, GatherStep
<1> QED
  BY <1>1, <1>2, PTL DEF Spec

\* The records due in a round of all threads are those of each.
LEMMA DueMeans ==
    ASSUME Inv, NEW x
    PROVE  x \in Due[mround] <=>
              \E t \in Threads : \E r \in DueOf(rounds[mround][t], 0) : x = Raw(r)
<1>1. mround \in 1..Len(rounds)
  BY DEF Inv, TypeOK
<1>2. \A t \in Threads : \A n \in NeededOf(rounds[mround][t]) : 0 < n
  <2>1. ASSUME NEW t \in Threads PROVE \A n \in NeededOf(rounds[mround][t]) : 0 < n
    BY DEF NeededOf
  <2> QED
    BY <2>1
<1>3. Due[mround] =
        UNION {{Raw(rounds[mround][t].mem[k]) : k \in NeededOf(rounds[mround][t])} : t \in Threads}
  BY <1>1 DEF Due, NeededOf
<1> QED
  BY <1>2, <1>3 DEF DueOf

\* When every source has ended, every record due is in the master's memory.
LEMMA AllGathered ==
    Inv /\ GatherInv /\ mpc \in {"next", "done"} => lnf_mem = SetToBag(Due[mround])
<1> SUFFICES ASSUME Inv, GatherInv, mpc \in {"next", "done"}
             PROVE  lnf_mem = SetToBag(Due[mround])
  OBVIOUS
<1>1. active_sources = 0 /\ rrequest = "null"
  BY DEF Inv, ReceiverInv
<1>2. BagInv
  BY DEF GatherInv
<1>3. ASSUME NEW t \in Threads PROVE Stored(t) = DueOf(rounds[mround][t], 0)
  <2>1. round[t] = mround /\ pc[t] # "loop" /\ chan[t] = <<>>
    BY <1>1, Quiet DEF Ended
  <2>2. /\ rounds[mround][t] \in Job /\ rec_cntr[t] \in Nat /\ PlaceInv(t) /\ LeftInv(t)
    BY ThreadFacts DEF GatherInv
  <2>3. Filled(t) = {} /\ Mail(t) = {}
    BY <2>1 DEF Filled, Mail
  <2>4. Of(t, Received) = {} /\ Of(t, Unread) = {}
    BY <1>1 DEF Of, Received, Unread
  <2>5. Pending(t) = {}
    BY <2>1, <2>2, DueNone DEF LeftInv, MoreToSend, Args, Pending, Sent
  <2> QED
    BY <2>2, <2>3, <2>4, <2>5 DEF PlaceInv, Parted
<1>4. ASSUME NEW x \in DOMAIN lnf_mem PROVE x \in Due[mround]
  <2>1. PICK r \in Record : x = Raw(r)
    BY <1>2 DEF BagInv
  <2>2. r[1] \in Threads /\ r \in Stored(r[1])
    BY <2>1 DEF Record, Stored
  <2> QED
    BY <1>3, <2>1, <2>2, DueMeans
<1>5. ASSUME NEW x \in Due[mround] PROVE x \in DOMAIN lnf_mem
  <2>1. PICK t \in Threads : \E r \in DueOf(rounds[mround][t], 0) : x = Raw(r)
    BY DueMeans
  <2> QED
    BY <1>3, <2>1 DEF Stored
<1>6. DOMAIN lnf_mem = Due[mround]
  BY <1>4, <1>5
<1> QED
  BY <1>2, <1>6 DEF BagInv

\* The records due do not change.
LEMMA DueStays == ASSUME UNCHANGED jobVars PROVE Due' = Due
<1>1. rounds' = rounds /\ rec_len' = rec_len
  BY DEF jobVars
<1>2. \A r : Raw(r)' = Raw(r)
  BY <1>1 DEF Raw
<1> QED
  BY <1>1, <1>2 DEF Due

\* Gathering counts records in bags as RawMem does.
LEMMA SameBags ==
    /\ Gathered!EmptyBag = EmptyBag
    /\ \A S : Gathered!SetToBag(S) = SetToBag(S)
    /\ \A B : Gathered!BagToSet(B) = BagToSet(B)
    /\ \A A, B : Gathered!(+)(A, B) = A (+) B
  BY DEF Gathered!EmptyBag, EmptyBag, Gathered!SetToBag, SetToBag, Gathered!BagToSet, BagToSet,
    Gathered!(+), (+)

\* Every step of the code is a step of Gathering, or none.
LEMMA GatheringStep ==
    ASSUME Inv, GatherInv, [Next]_vars, Inv', GatherInv'
    PROVE  [Gathered!Next]_Gathered!vars
<1>0. Due' = Due /\ UNCHANGED jobVars /\ UNCHANGED <<rounds, rec_len>>
  BY StepFrames, DueStays DEF jobVars
<1>1. ASSUME UNCHANGED <<mpc, mround, lnf_mem>> PROVE UNCHANGED Gathered!vars
  BY <1>0, <1>1 DEF Gathered!vars
<1>2. CASE ProcessRecord
  <2>1. PICK r \in Unread :
           /\ r \in Record /\ r[1] \in Threads /\ r \in Of(r[1], Unread)
           /\ lnf_mem' = lnf_mem (+) SetToBag({Raw(r)})
    BY <1>2, ProcessPlaces
  <2>2. mpc = "process" /\ mpc' # "done" /\ mround' = mround
    BY <1>2 DEF ProcessRecord
  <2>3. Raw(r) \notin DOMAIN lnf_mem /\ r \in DueOf(rounds[mround][r[1]], 0)
    BY <1>0, <2>1, StoreOne
  <2>4. Raw(r) \in Due[mround] \ BagToSet(lnf_mem)
    BY <2>1, <2>3, DueMeans DEF BagToSet
  <2>5. Gathered!Collect
    BY <1>0, <2>1, <2>2, <2>4, SameBags DEF Gathered!Collect
  <2> QED
    BY <2>5 DEF Gathered!Next
<1>3. CASE NextRecvLoop
  <2>1. mpc = "next" /\ mpc' = "wait" /\ mround' = mround + 1 /\ lnf_mem' = EmptyBag
    BY <1>3 DEF NextRecvLoop
  <2>2. lnf_mem = SetToBag(Due[mround])
    BY <2>1, AllGathered
  <2>3. mround < Len(rounds) /\ rounds \in Seq([Threads -> Job])
    BY <2>1 DEF Inv, ReceiverInv, JobTypes, Job
  <2>4. Len(Due) = Len(rounds)
    BY <2>3 DEF Due
  <2>5. Gathered!NextRound
    BY <1>0, <2>1, <2>2, <2>3, <2>4, SameBags DEF Gathered!NextRound, Gathered!Complete
  <2> QED
    BY <2>5 DEF Gathered!Next
<1>4. CASE RecvTerminator
  <2>1. mpc = "wait" /\ mround' = mround /\ lnf_mem' = lnf_mem
    BY <1>4 DEF RecvTerminator
  <2>2. CASE mpc' = "done"
    <3>1. lnf_mem' = SetToBag(Due[mround])'
      <4>1. (mpc \in {"next", "done"})'
        BY <2>2
      <4>2. (Inv /\ GatherInv /\ mpc \in {"next", "done"} => lnf_mem = SetToBag(Due[mround]))'
        BY AllGathered, PTL
      <4> QED
        BY <4>1, <4>2
    <3>2. lnf_mem = SetToBag(Due[mround])
      BY <1>0, <2>1, <3>1
    <3>3. mround = Len(rounds) /\ rounds \in Seq([Threads -> Job])
      BY <1>4, <2>2 DEF RecvTerminator, Inv, JobTypes, Job
    <3>4. Len(Due) = Len(rounds)
      BY <3>3 DEF Due
    <3>5. Gathered!Finish
      BY <1>0, <2>1, <2>2, <3>2, <3>3, <3>4, SameBags DEF Gathered!Finish, Gathered!Complete
    <3> QED
      BY <3>5 DEF Gathered!Next
  <2>3. CASE mpc' # "done"
    BY <1>0, <2>1, <2>3 DEF Gathered!vars
  <2> QED
    BY <2>2, <2>3
<1>5. CASE RecvData
  <2>1. mpc # "done" /\ mpc' # "done" /\ mround' = mround /\ lnf_mem' = lnf_mem
    BY <1>5 DEF RecvData
  <2> QED
    BY <1>0, <2>1 DEF Gathered!vars
<1>6. ASSUME NEW t \in Threads, Deliver(t) PROVE UNCHANGED <<mpc, mround, lnf_mem>>
  BY <1>6 DEF Deliver
<1>7. ASSUME UNCHANGED masterVars PROVE UNCHANGED <<mpc, mround, lnf_mem>>
  BY <1>7 DEF masterVars
<1> QED
  BY <1>1, <1>2, <1>3, <1>4, <1>5, <1>6, <1>7, StepFrames DEF MasterStep

\* The safety of ImplementsGathering: in every round send_raw_mem and recv_loop
\* bring exactly the records due into the master's memory, each once and
\* unchanged, and no round ends before they are all there, whatever the sizes,
\* the number of threads and the order in which MPI delivers.
THEOREM GatheringImplemented == Spec => Gathered!Safety
<1>1. Init => Gathered!Init
  BY SameBags DEF Init, Gathered!Init
<1>2. Inv /\ GatherInv /\ [Next]_vars /\ Inv' /\ GatherInv' => [Gathered!Next]_Gathered!vars
  BY GatheringStep
<1> QED
  BY <1>1, <1>2, GatherInvariance, PTL DEF Spec, Gathered!Safety

============================================================================
