----------------------------- MODULE BatchQuery -----------------------------
(***************************************************************************)
(* Sorting (MODE_SORT) and aggregation (MODE_AGGR) queries after the flow  *)
(* files have been read: every worker thread holds its records in a libnf  *)
(* memory ordered by the sort key, sends some of them to the master, and   *)
(* the master merges what it receives into a memory of its own and prints  *)
(* the first rec_limit records of it.                                      *)
(*                                                                         *)
(* With TPUT an aggregation avoids sending everything.  In phase 1 every   *)
(* thread sends its first rec_limit records; the value of the record at    *)
(* position rec_limit among the partial sums is the bottom.  In phase 2    *)
(* threads send the records that satisfy a threshold, the bottom divided   *)
(* by the number of threads.  In phase 3 the master broadcasts the keys it *)
(* has seen and threads answer with their records for these keys.          *)
(*                                                                         *)
(* How messages travel is the subject of ListQuery: here the records one   *)
(* thread sends with one tag, with the terminator, are one message.        *)
(***************************************************************************)
EXTENDS Naturals, FiniteSets, FiniteSetsExt

CONSTANTS
    Slaves, Threads,
    SlaveOf,     \* SlaveOf[t]: the slave process of a thread
    Keys,        \* aggregation keys
    Memories,    \* possible contents of a thread's libnf memory: functions
                 \* from the keys it holds to the value of the sort key
    Queries,     \* possible command lines: records with mode "sort", "aggr" or
                 \* "tput", direction "asc" or "desc", and rec_limit, which is
                 \* zero for no limit and nonzero with TPUT
    Mantissa,    \* significant bits of a C double (53 with IEEE 754)
    NotSet,      \* a shared variable that has not been assigned yet
    Freed        \* a pointer that has been freed

ASSUME ThreadsAssumption ==
    /\ SlaveOf \in [Threads -> Slaves]
    /\ IsFiniteSet(Threads)
    /\ Threads # {}

ASSUME InputAssumption ==
    /\ \A m \in Memories : DOMAIN m \subseteq Keys
                           /\ \A k \in DOMAIN m : m[k] \in Nat
    /\ IsFiniteSet(Keys)
    /\ Queries \subseteq [mode : {"sort", "aggr", "tput"},
                          direction : {"asc", "desc"}, rec_limit : Nat]
    /\ \A q \in Queries : q.mode = "tput" => q.rec_limit # 0
    /\ Mantissa \in Nat \ {0} /\ 2 ^ Mantissa \in Nat

ASSUME SentinelAssumption ==
    /\ NotSet # Freed
    /\ NotSet \notin Nat
    /\ \A K \in SUBSET Keys : K # NotSet /\ K # Freed

VARIABLES
    mode, rec_limit, direction,  \* command line: fixed once chosen
    mem,                         \* t_ctx->lnf_mem of every thread, not modified
    pc,                          \* control of every thread
    tput_threshold,              \* slave_ctx of every slave
    tput_rec_buff,
    box,                         \* message under way from every thread
    mpc,                         \* control of the master
    active,                      \* sources whose terminator is awaited
    lnf_mem,                     \* the master's memory
    bottom, threshold,           \* results of phase 1
    candidates,                  \* keys broadcast in phase 3
    printed                      \* records printed, as a function

argVars    == <<mode, rec_limit, direction, mem>>
slaveVars  == <<pc, tput_threshold, tput_rec_buff>>
masterVars == <<mpc, active, lnf_mem, bottom, threshold, candidates, printed>>
vars       == <<argVars, slaveVars, box, masterVars>>

Team(t) == {u \in Threads : SlaveOf[u] = SlaveOf[t]}

----------------------------------------------------------------------------
(* libnf memories (external): functions from keys to the sort key's value. *)

Empty == [k \in {} |-> 0]

NoMsg == [tag |-> "none", recs |-> Empty]

Restricted(m, K) == [k \in K |-> m[k]]

\* Adding the records of r to memory m: values of equal keys are added up.
Merge(m, r) ==
    [k \in DOMAIN m \cup DOMAIN r |->
        (IF k \in DOMAIN m THEN m[k] ELSE 0) + (IF k \in DOMAIN r THEN r[k] ELSE 0)]

\* May a record with value a come before one with value b?
Precedes(a, b) == IF direction = "desc" THEN a >= b ELSE a <= b

\* The possible sets of the first n records: sorting leaves the order of equal
\* values open.
Leading(m, n) ==
    LET D == DOMAIN m
        cnt == Min({n, Cardinality(D)}) IN
    {K \in kSubset(cnt, D) : \A k \in K, j \in D \ K : Precedes(m[k], m[j])}

----------------------------------------------------------------------------
(* Arithmetic of the threshold.                                            *)

CeilDiv(a, b) == (a + b - 1) \div b

\* a / b rounded to the nearest integer, ties to even.
RoundHalfEven(a, b) ==
    LET q == a \div b
        r == a % b IN
    IF 2 * r > b \/ (2 * r = b /\ q % 2 = 1) THEN q + 1 ELSE q

\* Spacing of the doubles around the integer a: one below 2^Mantissa, then
\* doubling with every further bit.
Ulp(a) ==
    IF a < 2 ^ Mantissa THEN 1
    ELSE 2 ^ (CHOOSE e \in 1..a : 2 ^ (Mantissa + e - 1) <= a /\ a < 2 ^ (Mantissa + e))

\* The conversion (double)a.
ToDouble(a) == RoundHalfEven(a, Ulp(a)) * Ulp(a)

\* ceil((double)bottom / slave_threads_cnt).  The quotient is rounded as well;
\* when doubles are one or less apart this does not change its ceiling.
Threshold(b) ==
    LET n == Cardinality(Threads)
        u == Ulp(ToDouble(b) \div n) IN
    IF u = 1 THEN CeilDiv(ToDouble(b), n)
    ELSE RoundHalfEven(ToDouble(b), n * u) * u

----------------------------------------------------------------------------
(* The slaves.                                                             *)

FirstLabel ==
    CASE mode = "sort" -> "sendSort"
      [] mode = "aggr" -> "sendAll"
      [] mode = "tput" -> "send1"

Init ==
    /\ \E q \in Queries :
          mode = q.mode /\ rec_limit = q.rec_limit /\ direction = q.direction
    /\ mem \in [Threads -> Memories]
    /\ pc = [t \in Threads |-> FirstLabel]
    /\ tput_threshold = [s \in Slaves |-> NotSet]
    /\ tput_rec_buff = [s \in Slaves |-> NotSet]
    /\ box = [t \in Threads |-> NoMsg]
    /\ mpc = CASE mode = "sort" -> "recvSort"
               [] mode = "aggr" -> "recvAll"
               [] mode = "tput" -> "recv1"
    /\ active = Threads
    /\ lnf_mem = Empty
    /\ bottom = 0
    /\ threshold = NotSet
    /\ candidates = NotSet
    /\ printed = Empty

\* send_raw_mem: the first limit records, or all of them for limit zero.
SendRawMem(t, m, limit, tag) ==
    \E K \in IF limit = 0 THEN {DOMAIN m} ELSE Leading(m, limit) :
        box' = [box EXCEPT ![t] = [tag |-> tag, recs |-> Restricted(m, K)]]

\* The message has been received (the thread waits for its last send).
Received(t) == box[t] = NoMsg

GoTo(t, label) == pc' = [pc EXCEPT ![t] = label]

\* MODE_SORT.  A thread's records stay apart from those of other threads.
SendSorted(t) ==
    /\ pc[t] = "sendSort"
    /\ SendRawMem(t, [r \in {t} \X DOMAIN mem[t] |-> mem[t][r[2]]], rec_limit,
                  "SORT")
    /\ GoTo(t, "done")
    /\ UNCHANGED <<argVars, tput_threshold, tput_rec_buff, masterVars>>

\* MODE_AGGR without TPUT.
SendAll(t) ==
    /\ pc[t] = "sendAll"
    /\ SendRawMem(t, mem[t], 0, "AGGR")
    /\ GoTo(t, "done")
    /\ UNCHANGED <<argVars, tput_threshold, tput_rec_buff, masterVars>>

\* Mistake: a thread does not go on to phase 2.
Phase1Again(t) ==
    /\ pc[t] = "send1"
    /\ SendRawMem(t, mem[t], rec_limit, "TPUT1")
    /\ UNCHANGED <<argVars, pc, tput_threshold, tput_rec_buff, masterVars>>

\* TPUT, slave's side.  Phase 1: the first rec_limit records.
Phase1(t) ==
    /\ pc[t] = "send1"
    /\ SendRawMem(t, mem[t], rec_limit, "TPUT1")
    /\ GoTo(t, "single2")
    /\ UNCHANGED <<argVars, tput_threshold, tput_rec_buff, masterVars>>

\* omp single of phase 2: one thread takes part in the broadcast.
Bcast2(t) ==
    LET s == SlaveOf[t] IN
    /\ pc[t] = "single2"
    /\ Received(t)
    /\ tput_threshold[s] = NotSet
    /\ threshold # NotSet
    /\ tput_threshold' = [tput_threshold EXCEPT ![s] = threshold]
    /\ UNCHANGED <<argVars, pc, tput_rec_buff, box, masterVars>>

\* tput_phase_2_find_threshold_cnt
ThresholdCnt(t) ==
    Cardinality({k \in DOMAIN mem[t] :
                   Precedes(mem[t][k], tput_threshold[SlaveOf[t]])})

\* Mistake: only the first rec_limit records are considered.
Phase2Limited(t) ==
    /\ pc[t] = "single2"
    /\ tput_threshold[SlaveOf[t]] # NotSet
    /\ \A u \in Team(t) : pc[u] # "send1"
    /\ SendRawMem(t, mem[t], Min({ThresholdCnt(t), rec_limit}), "TPUT2")
    /\ GoTo(t, "single3")
    /\ UNCHANGED <<argVars, tput_threshold, tput_rec_buff, masterVars>>

\* Behind the barrier of the single construct the records that satisfy the
\* threshold are sent; send_raw_mem takes a count of zero for "all records".
Phase2(t) ==
    /\ pc[t] = "single2"
    /\ tput_threshold[SlaveOf[t]] # NotSet
    /\ \A u \in Team(t) : pc[u] # "send1"
    /\ SendRawMem(t, mem[t], ThresholdCnt(t), "TPUT2")
    /\ GoTo(t, "single3")
    /\ UNCHANGED <<argVars, tput_threshold, tput_rec_buff, masterVars>>

\* omp single of phase 3: the buffer is allocated and filled.
Bcast3(t) ==
    LET s == SlaveOf[t] IN
    /\ pc[t] = "single3"
    /\ Received(t)
    /\ tput_rec_buff[s] = NotSet
    /\ candidates # NotSet
    /\ tput_rec_buff' = [tput_rec_buff EXCEPT ![s] = candidates]
    /\ UNCHANGED <<argVars, pc, tput_threshold, box, masterVars>>

EnterPhase3(t) ==
    /\ pc[t] = "single3"
    /\ tput_rec_buff[SlaveOf[t]] # NotSet
    /\ \A u \in Team(t) : pc[u] \notin {"send1", "single2"}
    /\ GoTo(t, "lookup")
    /\ UNCHANGED <<argVars, tput_threshold, tput_rec_buff, box, masterVars>>

\* The received records are looked up in the thread's memory, and the ones
\* found are sent.
Phase3(t) ==
    LET found == tput_rec_buff[SlaveOf[t]] \cap DOMAIN mem[t] IN
    /\ pc[t] = "lookup"
    /\ SendRawMem(t, Restricted(mem[t], found), 0, "TPUT3")
    /\ GoTo(t, "barrier")
    /\ UNCHANGED <<argVars, tput_threshold, tput_rec_buff, masterVars>>

\* Mistake: no barrier before the shared buffer is freed.
FreeBuffNoBarrier(t) ==
    /\ pc[t] = "barrier"
    /\ Received(t)
    /\ tput_rec_buff' = [tput_rec_buff EXCEPT ![SlaveOf[t]] = Freed]
    /\ GoTo(t, "done")
    /\ UNCHANGED <<argVars, tput_threshold, box, masterVars>>

\* Behind the barrier one thread frees the shared buffer.
FreeBuff(t) ==
    /\ pc[t] = "barrier"
    /\ Received(t)
    /\ \A u \in Team(t) : pc[u] \in {"barrier", "done"}
    /\ tput_rec_buff' = [tput_rec_buff EXCEPT ![SlaveOf[t]] = Freed]
    /\ GoTo(t, "done")
    /\ UNCHANGED <<argVars, tput_threshold, box, masterVars>>

ThreadStep(t) ==
    \/ SendSorted(t) \/ SendAll(t)
    \/ Phase1(t) \/ Bcast2(t) \/ Phase2(t)
    \/ Bcast3(t) \/ EnterPhase3(t) \/ Phase3(t) \/ FreeBuff(t)

----------------------------------------------------------------------------
(* The master.                                                             *)

Tag == CASE mpc = "recvSort" -> "SORT"
         [] mpc = "recvAll" -> "AGGR"
         [] mpc = "recv1" -> "TPUT1"
         [] mpc = "recv2" -> "TPUT2"
         [] mpc = "recv3" -> "TPUT3"
         [] mpc = "done" -> "no_tag"

\* recv_loop with mem_write_raw_callback: the records of one source up to its
\* terminator.
Recv(t) ==
    /\ t \in active
    /\ box[t].tag = Tag
    /\ lnf_mem' = Merge(lnf_mem, box[t].recs)
    /\ active' = active \ {t}
    /\ box' = [box EXCEPT ![t] = NoMsg]
    /\ UNCHANGED <<argVars, slaveVars, mpc, bottom, threshold, candidates,
                   printed>>

\* tput_phase_1_find_bottom: the rec_limit-th value, or the last one if there
\* are fewer, or zero if there is none.
FindBottom ==
    IF DOMAIN lnf_mem = {} THEN 0
    ELSE LET K == CHOOSE K \in Leading(lnf_mem, rec_limit) : TRUE IN
         CHOOSE v \in {lnf_mem[k] : k \in K} : \A k \in K : Precedes(lnf_mem[k], v)

\* Mistake: the quotient is rounded up even when it is exact.
StartPhase2TooHigh ==
    /\ mpc = "recv1"
    /\ active = {}
    /\ bottom' = FindBottom
    /\ threshold' = bottom' \div Cardinality(Threads) + 1
    /\ lnf_mem' = Empty
    /\ active' = Threads
    /\ mpc' = "recv2"
    /\ UNCHANGED <<argVars, slaveVars, box, candidates, printed>>

\* End of phase 1 and the broadcast of phase 2.
StartPhase2 ==
    /\ mpc = "recv1"
    /\ active = {}
    /\ bottom' = FindBottom
    /\ threshold' = Threshold(bottom')
    /\ lnf_mem' = Empty
    /\ active' = Threads
    /\ mpc' = "recv2"
    /\ UNCHANGED <<argVars, slaveVars, box, candidates, printed>>

\* End of phase 2 and the broadcasts of phase 3.
StartPhase3 ==
    /\ mpc = "recv2"
    /\ active = {}
    /\ candidates' = DOMAIN lnf_mem
    /\ lnf_mem' = Empty
    /\ active' = Threads
    /\ mpc' = "recv3"
    /\ UNCHANGED <<argVars, slaveVars, box, bottom, threshold, printed>>

\* print_batch: the first rec_limit records, or all for limit zero.
PrintBatch ==
    /\ mpc \in {"recvSort", "recvAll", "recv3"}
    /\ active = {}
    /\ \E K \in IF rec_limit = 0 THEN {DOMAIN lnf_mem}
                ELSE Leading(lnf_mem, rec_limit) :
          printed' = Restricted(lnf_mem, K)
    /\ mpc' = "done"
    /\ UNCHANGED <<argVars, slaveVars, box, active, lnf_mem, bottom, threshold,
                   candidates>>

MasterStep ==
    \/ \E t \in Threads : Recv(t)
    \/ StartPhase2 \/ StartPhase3 \/ PrintBatch

----------------------------------------------------------------------------

Terminated == mpc = "done" /\ \A t \in Threads : pc[t] = "done"

\* The query is over; not a step of the program.
Finished == Terminated /\ UNCHANGED vars

Next ==
    \/ \E t \in Threads : ThreadStep(t)
    \/ MasterStep
    \/ Finished

Spec == Init /\ [][Next]_vars

\* Every thread and the master run on.
Fairness == (\A t \in Threads : WF_vars(ThreadStep(t))) /\ WF_vars(MasterStep)

FairSpec == Spec /\ Fairness

----------------------------------------------------------------------------
(* Properties                                                              *)

\* TPUT prunes correctly when it looks for the largest values ...
DescendingTput == \A q \in Queries : q.mode = "tput" => q.direction = "desc"

\* ... and no threshold is rounded up to more than the next integer, which large
\* values may be on their way through a double.  Values are at most top.
ThresholdFits(top) ==
    LET n == Cardinality(Threads) IN
    /\ \A m \in Memories : \A k \in DOMAIN m : m[k] <= top
    /\ \A b \in 0..(n * top) : Threshold(b) \in Nat /\ n * Threshold(b) < b + n

\* The records the query is about: all records of all threads when sorting,
\* one record for every key when aggregating.
AllRecords ==
    IF mode = "sort"
    THEN UNION {{t} \X DOMAIN mem[t] : t \in Threads}
    ELSE UNION {DOMAIN mem[t] : t \in Threads}

\* Their values over all threads.
Total(k) ==
    IF mode = "sort" THEN mem[k[1]][k[2]]
    ELSE LET v == [t \in {u \in Threads : k \in DOMAIN mem[u]} |-> mem[t][k]] IN
         MapThenSumSet(LAMBDA t : v[t], DOMAIN v)

\* The records printed are the first rec_limit of the whole result, with their
\* values over all threads, as if everything had been merged in one place: no
\* matter how records are spread over threads, who comes first, and whether
\* TPUT is used ("--no-tput ... should not affect the results").
TopRecordsPrinted ==
    mpc = "done" =>
        /\ DOMAIN printed \subseteq AllRecords
        /\ Cardinality(DOMAIN printed) =
              IF rec_limit = 0 THEN Cardinality(AllRecords)
              ELSE Min({rec_limit, Cardinality(AllRecords)})
        /\ \A k \in DOMAIN printed : printed[k] = Total(k)
        /\ \A k \in DOMAIN printed, j \in AllRecords \ DOMAIN printed :
              Precedes(Total(k), Total(j))

\* "At the end of this round-trip, the master has seen records in the true
\* Top-N set": a key left out of phase 3 is beaten by rec_limit others that are
\* in.
CandidatesSuffice ==
    candidates # NotSet =>
        \A k \in AllRecords \ candidates :
            Cardinality({j \in candidates : Precedes(Total(j), Total(k))})
                >= rec_limit

\* "Establish a lower bound on the true bottom": at least rec_limit keys reach
\* the bottom of phase 1, unless all keys do.
BottomIsBound ==
    threshold # NotSet =>
        LET reached == {k \in AllRecords : Precedes(Total(k), bottom)} IN
        Cardinality(reached) >= rec_limit \/ reached = AllRecords

\* The two claims on which TPUT rests (the comments of the two phases): a bound
\* found in phase 1 that leaves no record of the result out of phase 3.
TputClaims == BottomIsBound /\ CandidatesSuffice

\* No thread of a slave looks up records in the shared buffer before it has
\* been received or after another thread has freed it.
BufferAlive ==
    \A t \in Threads : pc[t] = "lookup" =>
        tput_rec_buff[SlaveOf[t]] \notin {NotSet, Freed}

\* The query ends: no thread waits forever at a barrier or a broadcast.
Termination == <>Terminated

============================================================================
