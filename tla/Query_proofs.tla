---------------------------- MODULE Query_proofs ----------------------------
(***************************************************************************)
(* Proofs about the course of a query, for any slaves, threads and files.  *)
(*                                                                         *)
(* First CollectivesAgree and OneCollectiveAtATime: the invariant says for *)
(* every process which collective operations it has called, as a prefix of *)
(* one course that depends on the mode only, and where its threads can be  *)
(* meanwhile.  Then what is counted, each with an invariant of its own on  *)
(* top of that: the reports the progress bar counts (ProgressExact,        *)
(* NoRemains), the metadata the slaves add up (SummaryComplete) and the    *)
(* messages the master waits for (NoMessageLost).                          *)
(***************************************************************************)
EXTENDS Query, SequenceTheorems, SumTheorems

ProcLabels == {"init", "dup1", "dup2", "role", "free1", "free2", "finalize", "exit"}
SlaveLabels == {"start", "gather", "threads", "parallel", "processed", "metadata", "done"}
ThreadLabels == {"idle", "for", "report", "sent", "single1", "bcast1", "barrier1",
                 "single2", "bcast2", "bcast3", "barrier2", "barrier3", "join"}
MainLabels == {"start", "threads", "recv1", "bcast1", "recv2", "bcast2", "bcast3",
               "recv3", "join"}
Comms == {"world", "main", "progress"}
Ops == {"Comm_dup_main", "Comm_dup_progress", "Gather_files", "Reduce_threads",
        "Bcast_threshold", "Bcast_info", "Bcast_records", "Reduce_processed",
        "Reduce_metadata", "Comm_free", "Finalize"}

ControlTypes ==
    /\ query \in Query
    /\ ppc \in [Processes -> ProcLabels]
    /\ colls \in [Processes -> [Comms -> Seq(Ops)]]
    /\ spc \in [Slaves -> SlaveLabels]
    /\ team \in [Slaves -> Nat]
    /\ num_threads_used \in [Slaves -> Nat]
    /\ singles \in [Slaves -> 0..2]
    /\ tpc \in [Threads -> ThreadLabels]
    /\ mpc \in {"parallel", "processed", "metadata", "done"}
    /\ main \in MainLabels
    /\ prog \in {"start", "gather", "recv", "join"}

----------------------------------------------------------------------------
(* The course of the collective operations.                                *)

\* What every process calls on a communicator, from the first to the last.
Course(c) ==
    CASE c = "world" ->
            IF mode = "help" THEN <<"Finalize">>
            ELSE <<"Comm_dup_main", "Comm_dup_progress", "Finalize">>
      [] c = "main" ->
            IF mode = "tput"
            THEN <<"Reduce_threads", "Bcast_threshold", "Bcast_info", "Bcast_records",
                   "Reduce_processed", "Reduce_metadata", "Comm_free">>
            ELSE <<"Reduce_threads", "Reduce_processed", "Reduce_metadata", "Comm_free">>
      [] c = "progress" -> <<"Gather_files", "Comm_free">>

\* How many of them a process has called, by where it is.
Bcasts == IF mode = "tput" THEN 3 ELSE 0

InBcast(s, label) == \E t \in Team(s) : tpc[t] = label

Broadcasts(s) == IF singles[s] = 2 /\ ~InBcast(s, "bcast2") THEN 3 ELSE singles[s]

WorldCalls(p) ==
    CASE ppc[p] = "init" -> 0
      [] ppc[p] = "dup1" -> 1
      [] ppc[p] \in {"dup2", "role", "free1", "free2"} -> 2
      [] OTHER -> IF mode = "help" THEN 1 ELSE 3

Freed(p, labels) == IF mode # "help" /\ ppc[p] \in labels THEN 1 ELSE 0

SlaveCalls(s) ==
    CASE spc[s] \in {"start", "gather"} -> 0
      [] spc[s] = "threads" -> 1
      [] spc[s] = "parallel" -> 1 + Broadcasts(s)
      [] spc[s] = "processed" -> 2 + Bcasts
      [] OTHER -> 3 + Bcasts

MasterCalls ==
    CASE mpc = "processed" -> 2 + Bcasts
      [] mpc \in {"metadata", "done"} -> 3 + Bcasts
      [] OTHER ->
            CASE main = "start" -> 0
              [] main \in {"threads", "recv1"} -> 1
              [] main \in {"bcast1", "recv2"} -> 2
              [] main = "bcast2" -> 3
              [] main \in {"bcast3", "recv3"} -> 4
              [] OTHER -> 1 + Bcasts

\* ... in master_main or slave_main, and then in main() when it is back there.
RoleCalls(p) == IF p = Master THEN MasterCalls ELSE SlaveCalls(p)

RoleProgress(p) == IF (IF p = Master THEN prog ELSE spc[p]) = "start" THEN 0 ELSE 1

MainCalls(p) == RoleCalls(p) + Freed(p, {"free1", "free2", "finalize", "exit"})

ProgressCalls(p) == RoleProgress(p) + Freed(p, {"free2", "finalize", "exit"})

Calls(p, c) ==
    CASE c = "world" -> WorldCalls(p)
      [] c = "main" -> MainCalls(p)
      [] c = "progress" -> ProgressCalls(p)

OnCourse(p) == \A c \in Comms : colls[p][c] = SubSeq(Course(c), 1, Calls(p, c))

----------------------------------------------------------------------------
(* Where processes and threads can be.                                     *)

\* A process calls master_main or slave_main between the two parts of main(),
\* and not at all when help was asked for.
ProcInv(p) ==
    LET started == IF p = Master THEN main # "start" \/ prog # "start" \/ mpc # "parallel"
                   ELSE spc[p] # "start" IN
    /\ mode = "help" => ppc[p] \in {"init", "finalize", "exit"}
    /\ mode = "help" \/ ppc[p] \in {"init", "dup1", "dup2"} => ~started
    /\ mode # "help" /\ ppc[p] \in {"free1", "free2", "finalize", "exit"} => RoleOver(p)

MasterInv ==
    /\ mpc # "parallel" => main = "join" /\ prog = "join"
    /\ mode # "tput" => main \in {"start", "threads", "recv1", "join"}

\* The labels behind the first barrier of TPUT, and behind the second.
After(n) == IF n = 1 THEN {"single2", "bcast2", "bcast3", "barrier2", "barrier3", "join"}
            ELSE {"barrier3", "join"}

InSingle == {"bcast1", "bcast2", "bcast3"}

TeamInv(s) ==
    /\ spc[s] \in {"start", "gather", "threads"} <=> team[s] = 0
    /\ \A t \in Threads : t[1] = s => (tpc[t] = "idle" <=> t \notin Team(s))
    /\ spc[s] \in {"processed", "metadata", "done"} => \A t \in Team(s) : tpc[t] = "join"
    /\ num_threads_used[s] <= MaxThreads[s]
    /\ spc[s] = "threads" => num_threads_used[s] # 0
    /\ team[s] <= num_threads_used[s]
    /\ team[s] = 0 \/ mode # "tput" => singles[s] = 0
    /\ mode = "tput" => \A t \in Team(s) : tpc[t] # "sent"
    /\ mode # "tput" => \A t \in Team(s) : tpc[t] \in {"for", "report", "sent", "join"}

\* TPUT: nobody passes a barrier before the whole team has come to it, and the
\* threads behind a broadcast come after it was called.
SinglesInv(s) ==
    mode = "tput" =>
        /\ \A t, u \in Team(s) : tpc[t] \in After(1) => tpc[u] \notin Before(1)
        /\ \A t, u \in Team(s) : tpc[t] \in After(2) => tpc[u] \notin Before(1) \cup Before(2)
        /\ \A t \in Team(s) :
              /\ tpc[t] \in {"bcast1", "barrier1"} \cup After(1) => singles[s] # 0
              /\ tpc[t] \in {"bcast2", "bcast3", "barrier2"} \cup After(2) => singles[s] = 2
        /\ \A t, u \in Team(s) : tpc[t] \in InSingle /\ tpc[u] \in InSingle => t = u

ControlInv ==
    /\ ControlTypes
    /\ MasterInv
    /\ \A p \in Processes : ProcInv(p) /\ OnCourse(p)
    /\ \A s \in Slaves : TeamInv(s) /\ SinglesInv(s)

----------------------------------------------------------------------------
(* Prefixes.                                                               *)

\* What a prefix is.
LEMMA PrefixIs ==
    ASSUME NEW x \in Seq(Ops), NEW n \in Nat, n <= Len(x)
    PROVE  /\ SubSeq(x, 1, n) \in Seq(Ops) /\ Len(SubSeq(x, 1, n)) = n
           /\ \A i \in 1..n : SubSeq(x, 1, n)[i] = x[i]
  OBVIOUS

\* The next element makes a prefix one longer.
LEMMA PrefixAppend ==
    ASSUME NEW x \in Seq(Ops), NEW n \in Nat, n < Len(x)
    PROVE  /\ SubSeq(x, 1, n) \in Seq(Ops)
           /\ Append(SubSeq(x, 1, n), x[n + 1]) = SubSeq(x, 1, n + 1)
<1> DEFINE a == Append(SubSeq(x, 1, n), x[n + 1])
           b == SubSeq(x, 1, n + 1)
<1>1. /\ SubSeq(x, 1, n) \in Seq(Ops) /\ Len(SubSeq(x, 1, n)) = n
      /\ \A i \in 1..n : SubSeq(x, 1, n)[i] = x[i]
  OBVIOUS
<1>2. x[n + 1] \in Ops
  OBVIOUS
<1>3. a \in Seq(Ops) /\ Len(a) = n + 1 /\ \A i \in 1..(n + 1) : a[i] = x[i]
  BY <1>1, <1>2
<1>4. b \in Seq(Ops) /\ Len(b) = n + 1 /\ \A i \in 1..(n + 1) : b[i] = x[i]
  OBVIOUS
<1> HIDE DEF a, b
<1>5. a = b
  BY <1>3, <1>4, SeqEqual
<1> QED
  BY <1>1, <1>5 DEF a, b

\* The smaller of two numbers.
LEMMA MinPair ==
    ASSUME NEW a \in Int, NEW b \in Int
    PROVE  Min({a, b}) \in {a, b} /\ Min({a, b}) <= a /\ Min({a, b}) <= b
<1>1. \E x \in {a, b} : \A y \in {a, b} : x <= y
  <2>1. CASE a <= b
    BY <2>1
  <2>2. CASE ~(a <= b)
    BY <2>2
  <2> QED
    BY <2>1, <2>2
<1> QED
  BY <1>1 DEF Min

\* Two prefixes of the same sequence are in order.
LEMMA PrefixesInOrder ==
    ASSUME NEW x \in Seq(Ops), NEW m \in 0..Len(x), NEW n \in 0..Len(x)
    PROVE  InOrder(SubSeq(x, 1, m), SubSeq(x, 1, n))
<1> DEFINE a == SubSeq(x, 1, m)
           b == SubSeq(x, 1, n)
<1>1. /\ a \in Seq(Ops) /\ Len(a) = m /\ \A i \in 1..m : a[i] = x[i]
      /\ b \in Seq(Ops) /\ Len(b) = n /\ \A i \in 1..n : b[i] = x[i]
  OBVIOUS
<1> HIDE DEF a, b
<1>2. m \in Nat /\ n \in Nat /\ m \in Int /\ n \in Int
  OBVIOUS
<1>3. Min({m, n}) \in {m, n} /\ Min({m, n}) <= m /\ Min({m, n}) <= n
  BY <1>2, MinPair
<1>4. PICK k \in Nat : k = Min({m, n}) /\ k <= m /\ k <= n
  BY <1>2, <1>3
<1>5. /\ SubSeq(a, 1, k) \in Seq(Ops) /\ Len(SubSeq(a, 1, k)) = k
      /\ \A i \in 1..k : SubSeq(a, 1, k)[i] = a[i]
  BY <1>1, <1>4, PrefixIs
<1>6. /\ SubSeq(b, 1, k) \in Seq(Ops) /\ Len(SubSeq(b, 1, k)) = k
      /\ \A i \in 1..k : SubSeq(b, 1, k)[i] = b[i]
  BY <1>1, <1>4, PrefixIs
<1>7. \A i \in 1..k : a[i] = b[i]
  BY <1>1, <1>2, <1>4
<1>8. SubSeq(a, 1, k) = SubSeq(b, 1, k)
  BY <1>5, <1>6, <1>7, SeqEqual
<1> QED
  BY <1>1, <1>4, <1>8 DEF InOrder, a, b

\* The course of a communicator, call by call.
LEMMA CourseFacts ==
    /\ \A c \in Comms : Course(c) \in Seq(Ops)
    /\ mode = "help" => Len(Course("world")) = 1 /\ Course("world")[1] = "Finalize"
    /\ mode # "help" => /\ Len(Course("world")) = 3
                        /\ Course("world")[1] = "Comm_dup_main"
                        /\ Course("world")[2] = "Comm_dup_progress"
                        /\ Course("world")[3] = "Finalize"
    /\ Len(Course("main")) = 4 + Bcasts
    /\ Course("main")[1] = "Reduce_threads"
    /\ Course("main")[2 + Bcasts] = "Reduce_processed"
    /\ Course("main")[3 + Bcasts] = "Reduce_metadata"
    /\ Course("main")[4 + Bcasts] = "Comm_free"
    /\ mode = "tput" => /\ Course("main")[2] = "Bcast_threshold"
                        /\ Course("main")[3] = "Bcast_info"
                        /\ Course("main")[4] = "Bcast_records"
    /\ Len(Course("progress")) = 2
    /\ Course("progress")[1] = "Gather_files" /\ Course("progress")[2] = "Comm_free"
<1>1. /\ mode = "help" => Course("world") = <<"Finalize">>
      /\ mode # "help" => Course("world") = <<"Comm_dup_main", "Comm_dup_progress", "Finalize">>
  BY DEF Course
<1>2. /\ mode = "tput" =>
            Course("main") = <<"Reduce_threads", "Bcast_threshold", "Bcast_info",
                               "Bcast_records", "Reduce_processed", "Reduce_metadata",
                               "Comm_free">>
      /\ mode # "tput" =>
            Course("main") = <<"Reduce_threads", "Reduce_processed", "Reduce_metadata",
                               "Comm_free">>
  BY DEF Course
<1>3. Course("progress") = <<"Gather_files", "Comm_free">>
  BY DEF Course
<1>4. Course("world") \in Seq(Ops)
  <2>1. <<"Finalize">> \in Seq(Ops)
    BY DEF Ops
  <2>2. <<"Comm_dup_main", "Comm_dup_progress", "Finalize">> \in Seq(Ops)
    BY DEF Ops
  <2> QED
    BY <1>1, <2>1, <2>2
<1>5. Course("progress") \in Seq(Ops)
  <2>1. <<"Gather_files", "Comm_free">> \in Seq(Ops)
    BY DEF Ops
  <2> QED
    BY <1>3, <2>1
<1>6. /\ mode = "help" => Len(Course("world")) = 1 /\ Course("world")[1] = "Finalize"
      /\ mode # "help" => /\ Len(Course("world")) = 3
                          /\ Course("world")[1] = "Comm_dup_main"
                          /\ Course("world")[2] = "Comm_dup_progress"
                          /\ Course("world")[3] = "Finalize"
  <2> DEFINE w == <<"Finalize">>
             v == <<"Comm_dup_main", "Comm_dup_progress", "Finalize">>
  <2>1. /\ Len(w) = 1 /\ w[1] = "Finalize"
        /\ Len(v) = 3 /\ v[1] = "Comm_dup_main" /\ v[2] = "Comm_dup_progress"
        /\ v[3] = "Finalize"
    OBVIOUS
  <2>2. /\ mode = "help" => Course("world") = w
        /\ mode # "help" => Course("world") = v
    BY <1>1
  <2> HIDE DEF w, v
  <2> QED
    BY <2>1, <2>2
<1>7. /\ Len(Course("progress")) = 2
      /\ Course("progress")[1] = "Gather_files" /\ Course("progress")[2] = "Comm_free"
  <2> DEFINE m == <<"Gather_files", "Comm_free">>
  <2>1. Len(m) = 2 /\ m[1] = "Gather_files" /\ m[2] = "Comm_free"
    OBVIOUS
  <2>2. Course("progress") = m
    BY <1>3
  <2> HIDE DEF m
  <2> QED
    BY <2>1, <2>2
<1>8. CASE mode = "tput"
  <2> DEFINE m == <<"Reduce_threads", "Bcast_threshold", "Bcast_info", "Bcast_records",
                    "Reduce_processed", "Reduce_metadata", "Comm_free">>
  <2>1. m \in Seq(Ops)
    BY DEF Ops
  <2>2. /\ Len(m) = 7 /\ m[1] = "Reduce_threads" /\ m[2] = "Bcast_threshold"
        /\ m[3] = "Bcast_info" /\ m[4] = "Bcast_records" /\ m[5] = "Reduce_processed"
        /\ m[6] = "Reduce_metadata" /\ m[7] = "Comm_free"
    OBVIOUS
  <2>3. Course("main") = m
    BY <1>2, <1>8
  <2>4. 4 + Bcasts = 7 /\ 2 + Bcasts = 5 /\ 3 + Bcasts = 6
    BY <1>8 DEF Bcasts
  <2> HIDE DEF m
  <2> QED
    BY <1>4, <1>5, <1>6, <1>7, <1>8, <2>1, <2>2, <2>3, <2>4 DEF Comms
<1>9. CASE mode # "tput"
  <2> DEFINE m == <<"Reduce_threads", "Reduce_processed", "Reduce_metadata", "Comm_free">>
  <2>1. m \in Seq(Ops)
    BY DEF Ops
  <2>2. /\ Len(m) = 4 /\ m[1] = "Reduce_threads" /\ m[2] = "Reduce_processed"
        /\ m[3] = "Reduce_metadata" /\ m[4] = "Comm_free"
    OBVIOUS
  <2>3. Course("main") = m
    BY <1>2, <1>9
  <2>4. 4 + Bcasts = 4 /\ 2 + Bcasts = 2 /\ 3 + Bcasts = 3
    BY <1>9 DEF Bcasts
  <2> HIDE DEF m
  <2> QED
    BY <1>4, <1>5, <1>6, <1>7, <1>9, <2>1, <2>2, <2>3, <2>4 DEF Comms
<1> QED
  BY <1>8, <1>9

\* A process enters the next operation of its course.
LEMMA EnterNext ==
    ASSUME NEW p \in Processes, NEW c \in Comms, NEW n \in Nat, NEW op,
           colls \in [Processes -> [Comms -> Seq(Ops)]],
           colls[p][c] = SubSeq(Course(c), 1, n), n < Len(Course(c)),
           op = Course(c)[n + 1], Enter(p, c, op)
    PROVE  /\ colls' \in [Processes -> [Comms -> Seq(Ops)]]
           /\ colls'[p][c] = SubSeq(Course(c), 1, n + 1)
           /\ \A d \in Comms : d # c => colls'[p][d] = colls[p][d]
           /\ \A q \in Processes : q # p => colls'[q] = colls[q]
<1>1. Course(c) \in Seq(Ops)
  BY CourseFacts
<1>2. PICK x \in Seq(Ops) : x = Course(c)
  BY <1>1
<1>3. op \in Ops
  BY <1>2
<1>4. Append(colls[p][c], op) = SubSeq(x, 1, n + 1) /\ Append(colls[p][c], op) \in Seq(Ops)
  <2>1. Append(SubSeq(x, 1, n), x[n + 1]) = SubSeq(x, 1, n + 1)
    BY <1>2, PrefixAppend
  <2>2. colls[p][c] \in Seq(Ops)
    OBVIOUS
  <2> QED
    BY <1>2, <1>3, <2>1, <2>2
<1>5. PICK y \in Seq(Ops) : y = Append(colls[p][c], op)
  BY <1>4
<1>6. colls' = [colls EXCEPT ![p] = [colls[p] EXCEPT ![c] = y]]
  BY <1>5 DEF Enter
<1>7. [colls[p] EXCEPT ![c] = y] \in [Comms -> Seq(Ops)]
  BY <1>5
<1>8. colls' \in [Processes -> [Comms -> Seq(Ops)]]
  BY <1>6, <1>7
<1>9. colls'[p] = [colls[p] EXCEPT ![c] = y]
  BY <1>6
<1> QED
  BY <1>2, <1>4, <1>5, <1>6, <1>8, <1>9

----------------------------------------------------------------------------

\* The initial states satisfy the invariant.
LEMMA ControlInit == Init => ControlInv
<1> SUFFICES ASSUME Init PROVE ControlInv
  OBVIOUS
<1>0. <<>> \in Seq(Ops) /\ Master \notin Slaves /\ MaxThreads \in [Slaves -> Nat \ {0}]
      /\ Queries \subseteq Query
  BY QueryAssumption
<1>1. colls \in [Processes -> [Comms -> Seq(Ops)]] /\ \A p \in Processes, c \in Comms : colls[p][c] = <<>>
  <2> DEFINE r == [world |-> <<>>, main |-> <<>>, progress |-> <<>>]
  <2>1. r = [c \in Comms |-> <<>>]
    BY DEF Comms
  <2>2. colls = [p \in Processes |-> r]
    BY DEF Init
  <2>3. colls = [p \in Processes |-> [c \in Comms |-> <<>>]]
    BY <2>1, <2>2
  <2> QED
    BY <1>0, <2>3
<1>2. ControlTypes
  BY <1>0, <1>1 DEF Init, ControlTypes, ProcLabels, SlaveLabels, ThreadLabels, MainLabels
<1>3. MasterInv
  BY DEF Init, MasterInv
<1>4. ASSUME NEW p \in Processes PROVE ProcInv(p)
  BY DEF Init, ProcInv, RoleOver, Processes
<1>5. ASSUME NEW p \in Processes, NEW c \in Comms PROVE colls[p][c] = SubSeq(Course(c), 1, Calls(p, c))
  <2>1. ppc[p] = "init" /\ main = "start" /\ mpc = "parallel" /\ prog = "start"
        /\ \A s \in Slaves : spc[s] = "start"
    BY DEF Init
  <2>2. WorldCalls(p) = 0 /\ MasterCalls = 0 /\ \A s \in Slaves : SlaveCalls(s) = 0
    BY <2>1 DEF WorldCalls, MasterCalls, SlaveCalls
  <2>3. RoleCalls(p) = 0 /\ RoleProgress(p) = 0
    BY <2>1, <2>2 DEF RoleCalls, RoleProgress, Processes
  <2>4. Freed(p, {"free1", "free2", "finalize", "exit"}) = 0 /\ Freed(p, {"free2", "finalize", "exit"}) = 0
    BY <2>1 DEF Freed
  <2>5. Calls(p, c) = 0
    BY <2>2, <2>3, <2>4 DEF Calls, MainCalls, ProgressCalls, Comms
  <2> QED
    BY <1>1, <2>5, SubSeqEmpty
<1>6. ASSUME NEW s \in Slaves PROVE TeamInv(s) /\ SinglesInv(s)
  <2>1. team[s] = 0 /\ spc[s] = "start" /\ num_threads_used[s] = 0 /\ singles[s] = 0
        /\ \A t \in Threads : tpc[t] = "idle"
    BY DEF Init
  <2>2. Team(s) = {}
    <3>1. \A t \in Threads : t[2] \in Nat \ {0}
      BY <1>0 DEF Threads
    <3> QED
      BY <2>1, <3>1 DEF Team
  <2> QED
    BY <1>0, <2>1, <2>2 DEF TeamInv, SinglesInv
<1> QED
  BY <1>2, <1>3, <1>4, <1>5, <1>6 DEF ControlInv, OnCourse

\* What the steps of each kind leave alone.
LEMMA StepKinds ==
    ASSUME [Next]_vars
    PROVE  /\ query' = query
           /\ \/ \E p \in Processes : ProcStep(p) /\ UNCHANGED <<slaveVars, threadVars, masterVars>>
              \/ \E s \in Slaves : SlaveStep(s) /\ UNCHANGED <<ppc, singles, masterVars>>
              \/ \E t \in Threads : ThreadStep(t)
                                    /\ UNCHANGED <<ppc, spc, num_threads_used, team, masterVars>>
              \/ MainStep /\ UNCHANGED <<ppc, slaveVars, tpc, mpc, prog>>
              \/ ProgStep /\ UNCHANGED <<ppc, slaveVars, tpc, mpc, main>>
              \/ MasterStep /\ UNCHANGED <<ppc, slaveVars, tpc, main, prog>>
              \/ UNCHANGED vars
<1>1. ASSUME NEW p \in Processes, ProcStep(p)
      PROVE  UNCHANGED <<query, slaveVars, threadVars, masterVars>>
  BY <1>1 DEF ProcStep, ParseArgs, CommInit, Split, CommFree, CommFreeProgress, Finalize, Exit
<1>2. ASSUME NEW s \in Slaves, SlaveStep(s) PROVE UNCHANGED <<query, ppc, singles, masterVars>>
  BY <1>2 DEF SlaveStep, SlaveGather, SlaveThreads, Fork, Join, SlaveMetadata, SlaveEnd, outerVars
<1>3. ASSUME NEW t \in Threads, ThreadStep(t)
      PROVE  UNCHANGED <<query, ppc, spc, num_threads_used, team, masterVars>>
  BY <1>3 DEF ThreadStep, ProcessFile, Reported, Share, SentAll, EnterSingle, Broadcast,
    LeaveSingle, LeaveTput, outerVars, slaveVars
<1>4. ASSUME MainStep PROVE UNCHANGED <<query, ppc, slaveVars, tpc, mpc, prog>>
  BY <1>4 DEF MainStep, MainStart, MainMode, MainBroadcast, MainBroadcast2, MainNextRound,
    MainEnd, MainReceive, outerVars, threadVars, progVars
<1>5. ASSUME ProgStep PROVE UNCHANGED <<query, ppc, slaveVars, tpc, mpc, main>>
  BY <1>5 DEF ProgStep, ProgStart, ProgGoals, ProgEnd, ProgReceive, outerVars, threadVars, mainVars
<1>6. ASSUME MasterStep PROVE UNCHANGED <<query, ppc, slaveVars, tpc, main, prog>>
  BY <1>6 DEF MasterStep, MasterJoin, MasterMetadata, MasterEnd, outerVars, threadVars,
    mainVars, progVars
<1>7. ASSUME Finished \/ UNCHANGED vars PROVE UNCHANGED vars /\ query' = query
  BY <1>7 DEF Finished, vars, outerVars
<1> QED
  BY <1>1, <1>2, <1>3, <1>4, <1>5, <1>6, <1>7 DEF Next

\* A thread belongs to a slave.
LEMMA ThreadOf ==
    ASSUME NEW t \in Threads
    PROVE  t[1] \in Slaves /\ t[2] \in 1..MaxThreads[t[1]] /\ t = <<t[1], t[2]>>
  BY DEF Threads

\* A process whose part in the query is not over is in master_main or slave_main.
LEMMA InRole ==
    ASSUME ControlInv
    PROVE  /\ \A s \in Slaves : spc[s] \notin {"start", "done"} => ppc[s] = "role" /\ mode # "help"
           /\ main # "start" \/ prog # "start" \/ mpc # "parallel" =>
                 mode # "help" /\ (mpc # "done" => ppc[Master] = "role")
           /\ \A p \in Processes : ppc[p] = "role" => mode # "help"
<1>0. Master \notin Slaves /\ Master \in Processes /\ Slaves \subseteq Processes
  BY QueryAssumption DEF Processes
<1>1. \A p \in Processes : ppc[p] \in ProcLabels /\ ProcInv(p)
  BY DEF ControlInv, ControlTypes
<1> QED
  BY <1>0, <1>1 DEF ProcInv, ProcLabels, RoleOver

\* A thread that can take a step is one of the team of a parallel region.
LEMMA ActiveThread ==
    ASSUME ControlInv, NEW t \in Threads, tpc[t] \notin {"idle", "join"}
    PROVE  t \in Team(t[1]) /\ spc[t[1]] = "parallel" /\ ppc[t[1]] = "role" /\ mode # "help"
<1>1. t[1] \in Slaves /\ TeamInv(t[1]) /\ spc[t[1]] \in SlaveLabels
  BY ThreadOf DEF ControlInv, ControlTypes
<1>2. t \in Team(t[1])
  BY <1>1 DEF TeamInv
<1>3. t[2] \in Nat \ {0} /\ t[2] <= team[t[1]]
  BY <1>1, <1>2, ThreadOf, QueryAssumption DEF Team
<1>4. team[t[1]] # 0
  BY <1>3
<1>5. spc[t[1]] = "parallel"
  BY <1>1, <1>2, <1>4 DEF TeamInv, SlaveLabels
<1> QED
  BY <1>1, <1>2, <1>5, InRole

----------------------------------------------------------------------------
(* The course is kept.                                                     *)

\* The course depends on the query only.
LEMMA CourseFixed ==
    ASSUME query' = query
    PROVE  mode' = mode /\ Bcasts' = Bcasts /\ \A c \in Comms : Course(c)' = Course(c)
  BY DEF mode, Bcasts, Course, Comms

\* A process that stays where it is makes no call.
LEMMA CallsSame ==
    ASSUME query' = query, NEW p \in Processes, ppc'[p] = ppc[p],
           p = Master => UNCHANGED <<mpc, main, prog>>,
           p # Master => /\ spc'[p] = spc[p] /\ singles'[p] = singles[p] /\ team'[p] = team[p]
                         /\ \A t \in Threads : t[1] = p => tpc'[t] = tpc[t]
    PROVE  /\ \A c \in Comms : Calls(p, c)' = Calls(p, c)
           /\ RoleCalls(p)' = RoleCalls(p) /\ RoleProgress(p)' = RoleProgress(p)
<1>1. mode' = mode /\ Bcasts' = Bcasts
  BY CourseFixed
<1>2. WorldCalls(p)' = WorldCalls(p)
  BY <1>1 DEF WorldCalls
<1>3. /\ Freed(p, {"free1", "free2", "finalize", "exit"})' = Freed(p, {"free1", "free2", "finalize", "exit"})
      /\ Freed(p, {"free2", "finalize", "exit"})' = Freed(p, {"free2", "finalize", "exit"})
  BY <1>1 DEF Freed
<1>4. RoleProgress(p)' = RoleProgress(p)
  BY DEF RoleProgress
<1>5. CASE p = Master
  <2>1. MasterCalls' = MasterCalls
    BY <1>1, <1>5 DEF MasterCalls
  <2> QED
    BY <1>2, <1>3, <1>4, <1>5, <2>1 DEF RoleCalls, MainCalls, ProgressCalls, Calls, Comms
<1>6. CASE p # Master
  <2>1. Team(p)' = Team(p) /\ \A t \in Team(p) : tpc'[t] = tpc[t]
    BY <1>6 DEF Team
  <2>2. InBcast(p, "bcast2")' <=> InBcast(p, "bcast2")
    BY <2>1 DEF InBcast
  <2>3. Broadcasts(p)' = Broadcasts(p)
    BY <1>6, <2>2 DEF Broadcasts
  <2>4. SlaveCalls(p)' = SlaveCalls(p)
    BY <1>1, <1>6, <2>3 DEF SlaveCalls
  <2> QED
    BY <1>2, <1>3, <1>4, <1>6, <2>4 DEF RoleCalls, MainCalls, ProgressCalls, Calls, Comms
<1> QED
  BY <1>5, <1>6

\* Without a call the process is where it was on its course.
LEMMA CourseKept ==
    ASSUME query' = query, NEW p \in Processes, OnCourse(p), colls'[p] = colls[p],
           \A c \in Comms : Calls(p, c)' = Calls(p, c)
    PROVE  OnCourse(p)'
  BY CourseFixed DEF OnCourse

\* With one it is one call further.
LEMMA CourseAdvanced ==
    ASSUME ControlTypes, query' = query, NEW p \in Processes, OnCourse(p),
           NEW c \in Comms, NEW op, Enter(p, c, op),
           NEW m \in Nat, NEW n \in Nat, m = n + 1, m <= Len(Course(c)),
           op = Course(c)[m], Calls(p, c) = n, Calls(p, c)' = m,
           \A d \in Comms : d # c => Calls(p, d)' = Calls(p, d)
    PROVE  /\ colls' \in [Processes -> [Comms -> Seq(Ops)]]
           /\ OnCourse(p)'
           /\ \A q \in Processes : q # p => colls'[q] = colls[q]
<1>2. /\ colls' \in [Processes -> [Comms -> Seq(Ops)]]
      /\ colls'[p][c] = SubSeq(Course(c), 1, m)
      /\ \A d \in Comms : d # c => colls'[p][d] = colls[p][d]
      /\ \A q \in Processes : q # p => colls'[q] = colls[q]
  <2>1. /\ colls \in [Processes -> [Comms -> Seq(Ops)]]
        /\ colls[p][c] = SubSeq(Course(c), 1, n) /\ n < Len(Course(c)) /\ op = Course(c)[n + 1]
    <3>1. Course(c) \in Seq(Ops)
      BY CourseFacts
    <3>2. Len(Course(c)) \in Nat
      BY <3>1
    <3> QED
      BY <3>2 DEF ControlTypes, OnCourse
  <2> QED
    BY <2>1, EnterNext
<1>3. ASSUME NEW d \in Comms PROVE colls'[p][d] = SubSeq(Course(d)', 1, Calls(p, d)')
  <2>1. Course(d)' = Course(d)
    BY CourseFixed
  <2>2. CASE d = c
    BY <1>2, <2>1, <2>2
  <2>3. CASE d # c
    BY <1>2, <2>1, <2>3 DEF OnCourse
  <2> QED
    BY <2>2, <2>3
<1> QED
  BY <1>2, <1>3 DEF OnCourse

\* A team that stays where it is keeps its part of the invariant.
LEMMA TeamsSame ==
    ASSUME \A s \in Slaves : TeamInv(s) /\ SinglesInv(s),
           UNCHANGED <<query, spc, team, num_threads_used, singles, tpc>>
    PROVE  \A s \in Slaves : TeamInv(s)' /\ SinglesInv(s)'
<1>1. mode' = mode /\ \A s \in Slaves : Team(s)' = Team(s)
  BY CourseFixed DEF Team
<1> QED
  BY <1>1 DEF TeamInv, SinglesInv

\* The parts of the invariant.
LEMMA ControlParts ==
    ASSUME ControlInv
    PROVE  /\ ControlTypes /\ MasterInv
           /\ \A p \in Processes : ProcInv(p) /\ OnCourse(p)
           /\ \A s \in Slaves : TeamInv(s) /\ SinglesInv(s)
           /\ Master \notin Slaves /\ Master \in Processes /\ Slaves \subseteq Processes
           /\ Bcasts \in {0, 3}
  BY QueryAssumption DEF ControlInv, Processes, Bcasts

\* What a process has called when its part in the query is over.
LEMMA CallsOfRole ==
    ASSUME ControlInv, NEW p \in Processes, RoleOver(p)
    PROVE  RoleCalls(p) = 3 + Bcasts /\ RoleProgress(p) = 1
<1>1. CASE p = Master
  BY <1>1, ControlParts DEF RoleOver, RoleCalls, RoleProgress, MasterCalls, MasterInv
<1>2. CASE p # Master
  BY <1>2 DEF RoleOver, RoleCalls, RoleProgress, SlaveCalls
<1> QED
  BY <1>1, <1>2

\* main() keeps the invariant.
LEMMA ProcNext ==
    ASSUME ControlInv, query' = query, NEW p \in Processes, ProcStep(p),
           UNCHANGED <<slaveVars, threadVars, masterVars>>
    PROVE  ControlInv'
<1>0. /\ ControlTypes /\ MasterInv
      /\ \A q \in Processes : ProcInv(q) /\ OnCourse(q)
      /\ \A s \in Slaves : TeamInv(s) /\ SinglesInv(s)
      /\ Master \notin Slaves /\ Master \in Processes /\ Slaves \subseteq Processes
      /\ Bcasts \in {0, 3}
  BY ControlParts
<1>1. UNCHANGED <<spc, team, num_threads_used, singles, tpc, mpc, main, prog>>
  BY DEF slaveVars, threadVars, masterVars, mainVars, progVars
<1>2. mode' = mode /\ Bcasts' = Bcasts
  BY CourseFixed
<1>3. MasterInv'
  BY <1>0, <1>1, <1>2 DEF MasterInv
<1>4. \A s \in Slaves : TeamInv(s)' /\ SinglesInv(s)'
  BY <1>0, <1>1, TeamsSame
<1>5. RoleCalls(p)' = RoleCalls(p) /\ RoleProgress(p)' = RoleProgress(p)
  <2>1. CASE p = Master
    BY <1>1, <1>2, <2>1 DEF RoleCalls, RoleProgress, MasterCalls
  <2>2. CASE p # Master
    <3>1. Team(p)' = Team(p)
      BY <1>1 DEF Team
    <3>2. InBcast(p, "bcast2")' <=> InBcast(p, "bcast2")
      BY <1>1, <3>1 DEF InBcast
    <3>3. Broadcasts(p)' = Broadcasts(p)
      BY <1>1, <3>2 DEF Broadcasts
    <3> QED
      BY <1>1, <1>2, <2>2, <3>3 DEF RoleCalls, RoleProgress, SlaveCalls
  <2> QED
    BY <2>1, <2>2
<1>6. ASSUME NEW l \in ProcLabels, ProcGoTo(p, l),
             colls' \in [Processes -> [Comms -> Seq(Ops)]], OnCourse(p)',
             \A q \in Processes : q # p => colls'[q] = colls[q],
             ProcInv(p)'
      PROVE  ControlInv'
  <2>1. ppc' = [ppc EXCEPT ![p] = l] /\ ppc' \in [Processes -> ProcLabels]
    BY <1>0, <1>6 DEF ProcGoTo, ControlTypes
  <2>2. ControlTypes'
    BY <1>0, <1>1, <1>6, <2>1 DEF ControlTypes
  <2>3. ASSUME NEW q \in Processes, q # p PROVE ProcInv(q)' /\ OnCourse(q)'
    <3>1. ppc'[q] = ppc[q]
      BY <1>0, <2>1, <2>3 DEF ControlTypes
    <3>2. ProcInv(q)'
      BY <1>0, <1>1, <1>2, <3>1 DEF ProcInv, RoleOver
    <3>3. \A c \in Comms : Calls(q, c)' = Calls(q, c)
      BY <1>1, <3>1, CallsSame
    <3> QED
      BY <1>0, <1>6, <2>3, <3>2, <3>3, CourseKept
  <2> QED
    BY <1>3, <1>4, <1>6, <2>2, <2>3 DEF ControlInv
<1>7. ASSUME NEW l \in ProcLabels, ProcGoTo(p, l) PROVE ppc'[p] = l
  BY <1>0, <1>7 DEF ProcGoTo, ControlTypes
<1>8. ppc[p] # "init" /\ mode = "help" => ppc[p] \in {"finalize", "exit"}
  BY <1>0 DEF ProcInv
<1> DEFINE M == Freed(p, {"free1", "free2", "finalize", "exit"})
           P == Freed(p, {"free2", "finalize", "exit"})
<1>10. /\ Calls(p, "world") = WorldCalls(p) /\ Calls(p, "world")' = WorldCalls(p)'
       /\ Calls(p, "main") = RoleCalls(p) + M /\ Calls(p, "main")' = RoleCalls(p) + M'
       /\ Calls(p, "progress") = RoleProgress(p) + P /\ Calls(p, "progress")' = RoleProgress(p) + P'
  BY <1>5 DEF Calls, MainCalls, ProgressCalls
<1>11. "world" \in Comms /\ "main" \in Comms /\ "progress" \in Comms
       /\ \A c \in Comms : c \in {"world", "main", "progress"}
  BY DEF Comms
<1>12. CASE ParseArgs(p) /\ mode = "help"
  <2>1. ppc[p] = "init" /\ Enter(p, "world", "Finalize") /\ ProcGoTo(p, "finalize") /\ ppc'[p] = "finalize"
    BY <1>7, <1>12 DEF ParseArgs, ProcLabels
  <2>2. WorldCalls(p) = 0 /\ WorldCalls(p)' = 1 /\ M = 0 /\ M' = 0 /\ P = 0 /\ P' = 0
    BY <1>2, <1>12, <2>1 DEF WorldCalls, Freed
  <2>3. Len(Course("world")) = 1 /\ Course("world")[1] = "Finalize"
    BY <1>12, CourseFacts
  <2> HIDE DEF M, P
  <2>4. /\ Calls(p, "world") = 0 /\ Calls(p, "world")' = 1
        /\ \A d \in Comms : d # "world" => Calls(p, d)' = Calls(p, d)
    BY <1>10, <1>11, <2>2
  <2>5. /\ colls' \in [Processes -> [Comms -> Seq(Ops)]] /\ OnCourse(p)'
        /\ \A q \in Processes : q # p => colls'[q] = colls[q]
    BY <1>0, <1>11, <2>1, <2>3, <2>4, CourseAdvanced
  <2>6. ProcInv(p)'
    BY <1>0, <1>1, <1>2, <1>12, <2>1 DEF ProcInv, RoleOver
  <2> QED
    BY <1>6, <2>1, <2>5, <2>6 DEF ProcLabels
<1>13. CASE ParseArgs(p) /\ mode # "help"
  <2>1. ppc[p] = "init" /\ Enter(p, "world", "Comm_dup_main") /\ ProcGoTo(p, "dup1") /\ ppc'[p] = "dup1"
    BY <1>7, <1>13 DEF ParseArgs, ProcLabels
  <2>2. WorldCalls(p) = 0 /\ WorldCalls(p)' = 1 /\ M = 0 /\ M' = 0 /\ P = 0 /\ P' = 0
    BY <1>2, <1>13, <2>1 DEF WorldCalls, Freed
  <2>3. Len(Course("world")) = 3 /\ Course("world")[1] = "Comm_dup_main"
    BY <1>13, CourseFacts
  <2> HIDE DEF M, P
  <2>4. /\ Calls(p, "world") = 0 /\ Calls(p, "world")' = 1
        /\ \A d \in Comms : d # "world" => Calls(p, d)' = Calls(p, d)
    BY <1>10, <1>11, <2>2
  <2>5. /\ colls' \in [Processes -> [Comms -> Seq(Ops)]] /\ OnCourse(p)'
        /\ \A q \in Processes : q # p => colls'[q] = colls[q]
    <3>1. 0 \in Nat /\ 1 \in Nat /\ 1 = 0 + 1 /\ 1 <= Len(Course("world"))
      BY <2>3
    <3> QED
      BY <1>0, <1>11, <2>1, <2>3, <2>4, <3>1, CourseAdvanced
  <2>6. ProcInv(p)'
    BY <1>0, <1>1, <1>2, <1>13, <2>1 DEF ProcInv, RoleOver
  <2> QED
    BY <1>6, <2>1, <2>5, <2>6 DEF ProcLabels
<1>14. CASE CommInit(p)
  <2>1. ppc[p] = "dup1" /\ Enter(p, "world", "Comm_dup_progress") /\ ProcGoTo(p, "dup2") /\ ppc'[p] = "dup2"
    BY <1>7, <1>14 DEF CommInit, ProcLabels
  <2>2. WorldCalls(p) = 1 /\ WorldCalls(p)' = 2 /\ M = 0 /\ M' = 0 /\ P = 0 /\ P' = 0
    BY <1>2, <2>1 DEF WorldCalls, Freed
  <2>3. Len(Course("world")) = 3 /\ Course("world")[2] = "Comm_dup_progress"
    BY <1>8, <2>1, CourseFacts
  <2> HIDE DEF M, P
  <2>4. /\ Calls(p, "world") = 1 /\ Calls(p, "world")' = 2
        /\ \A d \in Comms : d # "world" => Calls(p, d)' = Calls(p, d)
    BY <1>10, <1>11, <2>2
  <2>5. /\ colls' \in [Processes -> [Comms -> Seq(Ops)]] /\ OnCourse(p)'
        /\ \A q \in Processes : q # p => colls'[q] = colls[q]
    <3>1. 1 \in Nat /\ 2 \in Nat /\ 2 = 1 + 1 /\ 2 <= Len(Course("world"))
      BY <2>3
    <3> QED
      BY <1>0, <1>11, <2>1, <2>3, <2>4, <3>1, CourseAdvanced
  <2>6. ProcInv(p)'
    BY <1>0, <1>1, <1>2, <1>8, <2>1 DEF ProcInv, RoleOver
  <2> QED
    BY <1>6, <2>1, <2>5, <2>6 DEF ProcLabels
<1>15. CASE Split(p)
  <2>1. ppc[p] = "dup2" /\ colls' = colls /\ ProcGoTo(p, "role") /\ ppc'[p] = "role"
    BY <1>7, <1>15 DEF Split, ProcLabels
  <2>2. WorldCalls(p) = 2 /\ WorldCalls(p)' = 2 /\ M = 0 /\ M' = 0 /\ P = 0 /\ P' = 0
    BY <1>2, <2>1 DEF WorldCalls, Freed
  <2> HIDE DEF M, P
  <2>3. \A d \in Comms : Calls(p, d)' = Calls(p, d)
    BY <1>10, <1>11, <2>2
  <2>4. OnCourse(p)'
    BY <1>0, <2>1, <2>3, CourseKept
  <2>5. ProcInv(p)'
    BY <1>0, <1>1, <1>2, <1>8, <2>1 DEF ProcInv, RoleOver
  <2> QED
    BY <1>0, <1>6, <2>1, <2>4, <2>5 DEF ProcLabels, ControlTypes
<1>16. CASE CommFree(p)
  <2>1. ppc[p] = "role" /\ RoleOver(p) /\ Enter(p, "main", "Comm_free") /\ ProcGoTo(p, "free1") /\ ppc'[p] = "free1"
    BY <1>7, <1>16 DEF CommFree, ProcLabels
  <2>2. WorldCalls(p) = 2 /\ WorldCalls(p)' = 2 /\ M = 0 /\ M' = 1 /\ P = 0 /\ P' = 0
    BY <1>2, <1>8, <2>1 DEF WorldCalls, Freed
  <2>3. Len(Course("main")) = 4 + Bcasts /\ Course("main")[4 + Bcasts] = "Comm_free"
    BY CourseFacts
  <2>4. RoleCalls(p) = 3 + Bcasts
    BY <2>1, CallsOfRole
  <2> HIDE DEF M, P
  <2>5. /\ Calls(p, "main") = 3 + Bcasts /\ Calls(p, "main")' = 4 + Bcasts
        /\ \A d \in Comms : d # "main" => Calls(p, d)' = Calls(p, d)
    BY <1>0, <1>10, <1>11, <2>2, <2>4
  <2>6. /\ colls' \in [Processes -> [Comms -> Seq(Ops)]] /\ OnCourse(p)'
        /\ \A q \in Processes : q # p => colls'[q] = colls[q]
    <3>1. 3 + Bcasts \in Nat /\ 4 + Bcasts \in Nat /\ 4 + Bcasts = (3 + Bcasts) + 1
      BY <1>0
    <3> QED
      BY <1>0, <1>11, <2>1, <2>3, <2>5, <3>1, CourseAdvanced
  <2>7. ProcInv(p)'
    BY <1>0, <1>1, <1>2, <1>8, <2>1 DEF ProcInv, RoleOver
  <2> QED
    BY <1>6, <2>1, <2>6, <2>7 DEF ProcLabels
<1>17. CASE CommFreeProgress(p)
  <2>1. ppc[p] = "free1" /\ Enter(p, "progress", "Comm_free") /\ ProcGoTo(p, "free2") /\ ppc'[p] = "free2"
    BY <1>7, <1>17 DEF CommFreeProgress, ProcLabels
  <2>2. RoleOver(p)
    BY <1>0, <1>8, <2>1 DEF ProcInv
  <2>3. WorldCalls(p) = 2 /\ WorldCalls(p)' = 2 /\ M = 1 /\ M' = 1 /\ P = 0 /\ P' = 1
    BY <1>2, <1>8, <2>1 DEF WorldCalls, Freed
  <2>4. Len(Course("progress")) = 2 /\ Course("progress")[2] = "Comm_free"
    BY CourseFacts
  <2>5. RoleProgress(p) = 1
    BY <2>2, CallsOfRole
  <2> HIDE DEF M, P
  <2>6. /\ Calls(p, "progress") = 1 /\ Calls(p, "progress")' = 2
        /\ \A d \in Comms : d # "progress" => Calls(p, d)' = Calls(p, d)
    BY <1>10, <1>11, <2>3, <2>5
  <2>7. /\ colls' \in [Processes -> [Comms -> Seq(Ops)]] /\ OnCourse(p)'
        /\ \A q \in Processes : q # p => colls'[q] = colls[q]
    BY <1>0, <1>11, <2>1, <2>4, <2>6, CourseAdvanced
  <2>8. ProcInv(p)'
    BY <1>0, <1>1, <1>2, <1>8, <2>1, <2>2 DEF ProcInv, RoleOver
  <2> QED
    BY <1>6, <2>1, <2>7, <2>8 DEF ProcLabels
<1>18. CASE Finalize(p)
  <2>1. ppc[p] = "free2" /\ Enter(p, "world", "Finalize") /\ ProcGoTo(p, "finalize") /\ ppc'[p] = "finalize"
    BY <1>7, <1>18 DEF Finalize, ProcLabels
  <2>2. RoleOver(p)
    BY <1>0, <1>8, <2>1 DEF ProcInv
  <2>3. WorldCalls(p) = 2 /\ WorldCalls(p)' = 3 /\ M = 1 /\ M' = 1 /\ P = 1 /\ P' = 1
    BY <1>2, <1>8, <2>1 DEF WorldCalls, Freed
  <2>4. Len(Course("world")) = 3 /\ Course("world")[3] = "Finalize"
    BY <1>8, <2>1, CourseFacts
  <2> HIDE DEF M, P
  <2>5. /\ Calls(p, "world") = 2 /\ Calls(p, "world")' = 3
        /\ \A d \in Comms : d # "world" => Calls(p, d)' = Calls(p, d)
    BY <1>10, <1>11, <2>3
  <2>6. /\ colls' \in [Processes -> [Comms -> Seq(Ops)]] /\ OnCourse(p)'
        /\ \A q \in Processes : q # p => colls'[q] = colls[q]
    BY <1>0, <1>11, <2>1, <2>4, <2>5, CourseAdvanced
  <2>7. ProcInv(p)'
    BY <1>0, <1>1, <1>2, <1>8, <2>1, <2>2 DEF ProcInv, RoleOver
  <2> QED
    BY <1>6, <2>1, <2>6, <2>7 DEF ProcLabels
<1>19. CASE Exit(p)
  <2>1. ppc[p] = "finalize" /\ colls' = colls /\ ProcGoTo(p, "exit") /\ ppc'[p] = "exit"
    BY <1>7, <1>19 DEF Exit, ProcLabels
  <2>2. WorldCalls(p) = WorldCalls(p)' /\ M' = M /\ P' = P
    BY <1>2, <2>1 DEF WorldCalls, Freed
  <2> HIDE DEF M, P
  <2>3. \A d \in Comms : Calls(p, d)' = Calls(p, d)
    BY <1>10, <1>11, <2>2
  <2>4. OnCourse(p)'
    BY <1>0, <2>1, <2>3, CourseKept
  <2>5. ProcInv(p)'
    BY <1>0, <1>1, <1>2, <1>8, <2>1 DEF ProcInv, RoleOver
  <2> QED
    BY <1>0, <1>6, <2>1, <2>4, <2>5 DEF ProcLabels, ControlTypes
<1> QED
  BY <1>12, <1>13, <1>14, <1>15, <1>16, <1>17, <1>18, <1>19 DEF ProcStep

\* A step of one slave or its threads leaves the others where they are.
LEMMA OthersKept ==
    ASSUME ControlInv, query' = query, ppc' = ppc, UNCHANGED <<mpc, main, prog>>,
           NEW s \in Slaves,
           \A r \in Slaves : r # s =>
              /\ spc'[r] = spc[r] /\ singles'[r] = singles[r] /\ team'[r] = team[r]
              /\ num_threads_used'[r] = num_threads_used[r]
              /\ \A t \in Threads : t[1] = r => tpc'[t] = tpc[t],
           \A q \in Processes : q # s => colls'[q] = colls[q]
    PROVE  /\ MasterInv'
           /\ \A p \in Processes : p # s => ProcInv(p)' /\ OnCourse(p)'
           /\ \A r \in Slaves : r # s => TeamInv(r)' /\ SinglesInv(r)'
<1>0. /\ ControlTypes /\ MasterInv
      /\ \A q \in Processes : ProcInv(q) /\ OnCourse(q)
      /\ \A r \in Slaves : TeamInv(r) /\ SinglesInv(r)
      /\ Master \notin Slaves /\ Slaves \subseteq Processes
      /\ \A p \in Processes : p # Master => p \in Slaves
  BY ControlParts DEF Processes
<1>1. mode' = mode
  BY CourseFixed
<1>2. MasterInv'
  BY <1>0, <1>1 DEF MasterInv
<1>3. ASSUME NEW p \in Processes, p # s PROVE ProcInv(p)' /\ OnCourse(p)'
  <2>1. ProcInv(p)'
    BY <1>0, <1>1, <1>3 DEF ProcInv, RoleOver
  <2>2. \A c \in Comms : Calls(p, c)' = Calls(p, c)
    BY <1>0, <1>3, CallsSame
  <2> QED
    BY <1>0, <1>3, <2>1, <2>2, CourseKept
<1>4. ASSUME NEW r \in Slaves, r # s PROVE TeamInv(r)' /\ SinglesInv(r)'
  <2>1. Team(r)' = Team(r) /\ \A t \in Team(r) : t \in Threads /\ t[1] = r
    BY <1>4 DEF Team
  <2>2. \A t \in Team(r) : tpc'[t] = tpc[t]
    BY <1>4, <2>1
  <2>3. TeamInv(r)'
    BY <1>0, <1>1, <1>4, <2>1, <2>2 DEF TeamInv
  <2>4. SinglesInv(r)'
    BY <1>0, <1>1, <1>4, <2>1, <2>2 DEF SinglesInv
  <2> QED
    BY <2>3, <2>4
<1> QED
  BY <1>2, <1>3, <1>4

\* The calls of a slave that is in slave_main.
LEMMA CallsInRole ==
    ASSUME ControlInv, query' = query, ppc' = ppc, NEW s \in Slaves, ppc[s] = "role"
    PROVE  /\ Calls(s, "world") = 2 /\ Calls(s, "world")' = 2
           /\ Calls(s, "main") = SlaveCalls(s) + 0 /\ Calls(s, "main")' = SlaveCalls(s)' + 0
           /\ Calls(s, "progress") = RoleProgress(s) + 0
           /\ Calls(s, "progress")' = RoleProgress(s)' + 0
<1>1. s # Master
  BY ControlParts
<1>2. WorldCalls(s) = 2 /\ WorldCalls(s)' = 2
  BY DEF WorldCalls
<1>3. /\ Freed(s, {"free1", "free2", "finalize", "exit"}) = 0
      /\ Freed(s, {"free1", "free2", "finalize", "exit"})' = 0
      /\ Freed(s, {"free2", "finalize", "exit"}) = 0
      /\ Freed(s, {"free2", "finalize", "exit"})' = 0
  BY DEF Freed
<1> QED
  BY <1>1, <1>2, <1>3 DEF Calls, MainCalls, ProgressCalls, RoleCalls

\* The larger of two numbers.
LEMMA MaxPair ==
    ASSUME NEW a \in Int, NEW b \in Int
    PROVE  Max({a, b}) \in {a, b} /\ Max({a, b}) >= a /\ Max({a, b}) >= b
<1>1. \E x \in {a, b} : \A y \in {a, b} : x >= y
  <2>1. CASE a <= b
    BY <2>1
  <2>2. CASE ~(a <= b)
    BY <2>2
  <2> QED
    BY <2>1, <2>2
<1> QED
  BY <1>1 DEF Max

\* A slave asks for at least one thread, and never for more than it may have.
LEMMA TeamSizeIs ==
    ASSUME query \in Query, NEW s \in Slaves
    PROVE  TeamSize(s) \in 1..MaxThreads[s] /\ MaxThreads[s] \in Nat
<1>1. MaxThreads[s] \in Nat \ {0}
  BY QueryAssumption
<1>2. files[s] \in Seq(FlowFile)
  BY DEF files, Query
<1>3. Len(files[s]) \in Nat
  BY <1>2
<1>4. PICK m \in Int : m = Min({Len(files[s]), MaxThreads[s]}) /\ m <= MaxThreads[s]
  <2>1. PICK a \in Int, b \in Int : a = Len(files[s]) /\ b = MaxThreads[s]
    BY <1>1, <1>3
  <2>2. Min({a, b}) \in {a, b} /\ Min({a, b}) <= a /\ Min({a, b}) <= b
    BY MinPair
  <2> QED
    BY <2>1, <2>2
<1>5. Max({1, m}) \in {1, m} /\ Max({1, m}) >= 1
  <2>1. 1 \in Int
    OBVIOUS
  <2> QED
    BY <2>1, MaxPair
<1> QED
  BY <1>1, <1>4, <1>5 DEF TeamSize

\* The members of a team.
LEMMA TeamMembers ==
    ASSUME ControlInv, NEW s \in Slaves
    PROVE  /\ team[s] # 0 => <<s, 1>> \in Team(s)
           /\ \A t \in Team(s) : t \in Threads /\ t[1] = s
<1>1. team[s] \in Nat /\ num_threads_used[s] \in Nat /\ MaxThreads[s] \in Nat
      /\ team[s] <= num_threads_used[s] /\ num_threads_used[s] <= MaxThreads[s]
  BY ControlParts, QueryAssumption DEF ControlTypes, TeamInv
<1>2. ASSUME team[s] # 0 PROVE <<s, 1>> \in Threads
  <2>1. 1 \in 1..MaxThreads[s]
    BY <1>1, <1>2
  <2>2. <<s, 1>> \in {s} \X (1..MaxThreads[s])
    BY <2>1
  <2> QED
    BY <2>2 DEF Threads
<1>3. ASSUME team[s] # 0 PROVE <<s, 1>> \in Team(s)
  <2>1. <<s, 1>>[1] = s /\ <<s, 1>>[2] = 1 /\ 1 <= team[s]
    BY <1>1, <1>3
  <2> QED
    BY <1>2, <1>3, <2>1 DEF Team
<1> QED
  BY <1>3 DEF Team

\* The part of a slave outside the parallel region, and its borders.
LEMMA SlaveNext ==
    ASSUME ControlInv, query' = query, NEW s \in Slaves, SlaveStep(s),
           UNCHANGED <<ppc, singles, masterVars>>
    PROVE  ControlInv'
<1>0. /\ ControlTypes /\ MasterInv
      /\ \A q \in Processes : ProcInv(q) /\ OnCourse(q)
      /\ \A r \in Slaves : TeamInv(r) /\ SinglesInv(r)
      /\ Master \notin Slaves /\ Master \in Processes /\ Slaves \subseteq Processes
      /\ Bcasts \in {0, 3}
  BY ControlParts
<1>1. UNCHANGED <<mpc, main, prog>>
  BY DEF masterVars, mainVars, progVars
<1>2. mode' = mode /\ Bcasts' = Bcasts
  BY CourseFixed
<1>3. ppc[s] = "role" /\ mode # "help"
  <2>1. spc[s] \notin {"start", "done"} => ppc[s] = "role"
    BY InRole
  <2>2. spc[s] = "start" => ppc[s] = "role"
    BY DEF SlaveStep, SlaveGather, SlaveThreads, Fork, Join, SlaveMetadata, SlaveEnd
  <2>3. spc[s] # "done"
    BY DEF SlaveStep, SlaveGather, SlaveThreads, Fork, Join, SlaveMetadata, SlaveEnd
  <2> QED
    BY <1>0, <2>1, <2>2, <2>3, InRole
<1>4. /\ Calls(s, "world") = 2 /\ Calls(s, "world")' = 2
      /\ Calls(s, "main") = SlaveCalls(s) + 0 /\ Calls(s, "main")' = SlaveCalls(s)' + 0
      /\ Calls(s, "progress") = RoleProgress(s) + 0
      /\ Calls(s, "progress")' = RoleProgress(s)' + 0
  BY <1>3, CallsInRole
<1>5. "world" \in Comms /\ "main" \in Comms /\ "progress" \in Comms
      /\ \A c \in Comms : c \in {"world", "main", "progress"}
  BY DEF Comms
<1>6. ASSUME NEW l \in SlaveLabels, SlaveGoTo(s, l), l # "start",
             colls' \in [Processes -> [Comms -> Seq(Ops)]], OnCourse(s)',
             \A q \in Processes : q # s => colls'[q] = colls[q],
             team' \in [Slaves -> Nat], num_threads_used' \in [Slaves -> Nat],
             tpc' \in [Threads -> ThreadLabels],
             \A r \in Slaves : r # s =>
                /\ team'[r] = team[r] /\ num_threads_used'[r] = num_threads_used[r]
                /\ \A t \in Threads : t[1] = r => tpc'[t] = tpc[t],
             TeamInv(s)', SinglesInv(s)'
      PROVE  ControlInv'
  <2>1. spc' = [spc EXCEPT ![s] = l] /\ spc' \in [Slaves -> SlaveLabels] /\ spc'[s] = l
    BY <1>0, <1>6 DEF SlaveGoTo, ControlTypes
  <2>2. ControlTypes'
    BY <1>0, <1>1, <1>6, <2>1 DEF ControlTypes
  <2>3. \A r \in Slaves : r # s => spc'[r] = spc[r]
    BY <1>0, <2>1 DEF ControlTypes
  <2>4. /\ MasterInv'
        /\ \A p \in Processes : p # s => ProcInv(p)' /\ OnCourse(p)'
        /\ \A r \in Slaves : r # s => TeamInv(r)' /\ SinglesInv(r)'
    BY <1>1, <1>6, <2>3, OthersKept
  <2>5. ProcInv(s)'
    BY <1>0, <1>2, <1>3, <2>1 DEF ProcInv, RoleOver
  <2> QED
    BY <1>6, <2>2, <2>4, <2>5 DEF ControlInv
<1>7. ASSUME NEW l \in SlaveLabels, SlaveGoTo(s, l), UNCHANGED <<team, num_threads_used, tpc>>,
             (spc[s] \in {"start", "gather", "threads"}) = (l \in {"start", "gather", "threads"}),
             l = "threads" => num_threads_used[s] # 0,
             l \in {"processed", "metadata", "done"} => \A t \in Team(s) : tpc[t] = "join"
      PROVE  TeamInv(s)' /\ SinglesInv(s)'
  <2>1. spc'[s] = l /\ Team(s)' = Team(s)
    BY <1>0, <1>7 DEF SlaveGoTo, ControlTypes, Team
  <2> QED
    BY <1>0, <1>2, <1>7, <2>1 DEF TeamInv, SinglesInv
<1>8. ASSUME NEW l \in SlaveLabels, SlaveGoTo(s, l) PROVE spc'[s] = l
  BY <1>0, <1>8 DEF SlaveGoTo, ControlTypes
<1>9. OnCourse(s) /\ TeamInv(s) /\ SinglesInv(s) /\ s \in Processes /\ s # Master
  BY <1>0
<1>10. CASE SlaveGather(s)
  <2>1. spc[s] = "start" /\ Enter(s, "progress", "Gather_files") /\ SlaveGoTo(s, "gather")
        /\ spc'[s] = "gather" /\ UNCHANGED <<team, num_threads_used, tpc>>
    BY <1>8, <1>10 DEF SlaveGather, SlaveLabels, threadVars
  <2>2. SlaveCalls(s) = 0 /\ SlaveCalls(s)' = 0 /\ RoleProgress(s) = 0 /\ RoleProgress(s)' = 1
    BY <1>9, <2>1 DEF SlaveCalls, RoleProgress
  <2>3. Calls(s, "progress") = 0 /\ Calls(s, "progress")' = 1
        /\ \A d \in Comms : d # "progress" => Calls(s, d)' = Calls(s, d)
    BY <1>4, <1>5, <2>2
  <2>4. Len(Course("progress")) = 2 /\ Course("progress")[1] = "Gather_files"
    BY CourseFacts
  <2>5. /\ colls' \in [Processes -> [Comms -> Seq(Ops)]] /\ OnCourse(s)'
        /\ \A q \in Processes : q # s => colls'[q] = colls[q]
    BY <1>0, <1>5, <1>9, <2>1, <2>3, <2>4, CourseAdvanced
  <2>6. TeamInv(s)' /\ SinglesInv(s)'
    BY <1>7, <2>1 DEF SlaveLabels
  <2> QED
    BY <1>0, <1>6, <2>1, <2>5, <2>6 DEF SlaveLabels, ControlTypes
<1>11. CASE SlaveThreads(s)
  <2>1. spc[s] = "gather" /\ Enter(s, "main", "Reduce_threads") /\ SlaveGoTo(s, "threads")
        /\ spc'[s] = "threads" /\ UNCHANGED <<team, tpc>>
        /\ num_threads_used' = [num_threads_used EXCEPT ![s] = TeamSize(s)]
    BY <1>8, <1>11 DEF SlaveThreads, SlaveLabels, threadVars
  <2>2. SlaveCalls(s) = 0 /\ SlaveCalls(s)' = 1 /\ RoleProgress(s) = 1 /\ RoleProgress(s)' = 1
    BY <1>9, <2>1 DEF SlaveCalls, RoleProgress
  <2>3. Calls(s, "main") = 0 /\ Calls(s, "main")' = 1
        /\ \A d \in Comms : d # "main" => Calls(s, d)' = Calls(s, d)
    BY <1>4, <1>5, <2>2
  <2>4. Len(Course("main")) = 4 + Bcasts /\ Course("main")[1] = "Reduce_threads"
    BY CourseFacts
  <2>5. /\ colls' \in [Processes -> [Comms -> Seq(Ops)]] /\ OnCourse(s)'
        /\ \A q \in Processes : q # s => colls'[q] = colls[q]
    <3>1. 1 <= Len(Course("main"))
      BY <1>0, <2>4
    <3> QED
      BY <1>0, <1>5, <1>9, <2>1, <2>3, <2>4, <3>1, CourseAdvanced
  <2>6. TeamSize(s) \in 1..MaxThreads[s] /\ MaxThreads[s] \in Nat
    BY <1>0, TeamSizeIs DEF ControlTypes
  <2>7. /\ num_threads_used' \in [Slaves -> Nat] /\ num_threads_used'[s] = TeamSize(s)
        /\ \A r \in Slaves : r # s => num_threads_used'[r] = num_threads_used[r]
    BY <1>0, <2>1, <2>6 DEF ControlTypes
  <2>8. Team(s)' = Team(s) /\ team[s] = 0
    BY <1>9, <2>1 DEF Team, TeamInv
  <2>9. TeamInv(s)'
    BY <1>2, <1>9, <2>1, <2>6, <2>7, <2>8 DEF TeamInv
  <2>10. SinglesInv(s)'
    BY <1>2, <1>9, <2>1, <2>8 DEF SinglesInv
  <2> QED
    BY <1>0, <1>6, <2>1, <2>5, <2>7, <2>9, <2>10 DEF SlaveLabels, ControlTypes
<1>12. CASE Fork(s)
  <2>1. spc[s] = "threads" /\ SlaveGoTo(s, "parallel") /\ spc'[s] = "parallel"
        /\ UNCHANGED <<colls, num_threads_used>>
    BY <1>8, <1>12 DEF Fork, SlaveLabels
  <2>2. PICK n \in 1..num_threads_used[s] :
          /\ team' = [team EXCEPT ![s] = n]
          /\ tpc' = [t \in Threads |-> IF t[1] = s /\ t[2] <= n THEN "for" ELSE tpc[t]]
    BY <1>12 DEF Fork
  <2>3. n \in Nat /\ n # 0 /\ n <= num_threads_used[s] /\ team[s] = 0 /\ singles[s] = 0
        /\ num_threads_used[s] \in Nat
    BY <1>0, <2>1 DEF TeamInv, ControlTypes
  <2>4. /\ team' \in [Slaves -> Nat] /\ team'[s] = n
        /\ \A r \in Slaves : r # s => team'[r] = team[r]
    BY <1>0, <2>2, <2>3 DEF ControlTypes
  <2>5. tpc' \in [Threads -> ThreadLabels]
    BY <1>0, <2>2 DEF ControlTypes, ThreadLabels
  <2>6. \A t \in Threads : t[1] # s => tpc'[t] = tpc[t]
    BY <2>2
  <2>7. Team(s) = {} /\ Team(s)' = {t \in Threads : t[1] = s /\ t[2] <= n}
    <3>1. \A t \in Threads : t[2] \in Nat \ {0}
      BY ThreadOf, QueryAssumption
    <3> QED
      BY <2>3, <2>4, <3>1 DEF Team
  <2>8. \A t \in Threads : t[1] = s =>
           (tpc'[t] = "for" /\ t \in Team(s)') \/ (tpc'[t] = "idle" /\ t \notin Team(s)')
    BY <1>9, <2>2, <2>7 DEF TeamInv
  <2>9. \A t \in Team(s)' : t \in Threads /\ t[1] = s
    BY <2>7
  <2>10. \A t \in Team(s)' : tpc'[t] = "for"
    BY <2>8, <2>9
  <2>11. SlaveCalls(s) = 1 /\ SlaveCalls(s)' = 1 /\ RoleProgress(s) = 1 /\ RoleProgress(s)' = 1
    <3>1. Broadcasts(s)' = 0
      BY <2>3 DEF Broadcasts
    <3> QED
      BY <1>9, <2>1, <3>1 DEF SlaveCalls, RoleProgress
  <2>12. \A d \in Comms : Calls(s, d)' = Calls(s, d)
    BY <1>4, <1>5, <2>11
  <2>13. OnCourse(s)'
    BY <1>9, <2>1, <2>12, CourseKept
  <2>14. TeamInv(s)'
    BY <1>2, <1>9, <2>1, <2>3, <2>4, <2>8, <2>10 DEF TeamInv
  <2>15. SinglesInv(s)'
    BY <2>10 DEF SinglesInv, After, InSingle
  <2> QED
    BY <1>0, <1>6, <2>1, <2>4, <2>5, <2>6, <2>13, <2>14, <2>15 DEF SlaveLabels, ControlTypes
<1>13. CASE Join(s)
  <2>1. spc[s] = "parallel" /\ Enter(s, "main", "Reduce_processed") /\ SlaveGoTo(s, "processed")
        /\ spc'[s] = "processed" /\ UNCHANGED <<team, num_threads_used, tpc>>
        /\ \A t \in Team(s) : tpc[t] = "join"
    BY <1>8, <1>13 DEF Join, SlaveLabels, threadVars
  <2>2. <<s, 1>> \in Team(s)
    BY <1>9, <2>1, TeamMembers DEF TeamInv
  <2>3. Broadcasts(s) = Bcasts
    <3>1. CASE mode = "tput"
      <4>1. singles[s] = 2
        BY <1>9, <2>1, <2>2, <3>1 DEF SinglesInv, After
      <4>2. ~InBcast(s, "bcast2")
        BY <2>1 DEF InBcast
      <4> QED
        BY <3>1, <4>1, <4>2 DEF Broadcasts, Bcasts
    <3>2. CASE mode # "tput"
      BY <1>9, <3>2 DEF Broadcasts, Bcasts, TeamInv
    <3> QED
      BY <3>1, <3>2
  <2>4. SlaveCalls(s) = 1 + Bcasts /\ SlaveCalls(s)' = 2 + Bcasts
        /\ RoleProgress(s) = 1 /\ RoleProgress(s)' = 1
    BY <1>2, <1>9, <2>1, <2>3 DEF SlaveCalls, RoleProgress
  <2>5. Calls(s, "main") = 1 + Bcasts /\ Calls(s, "main")' = 2 + Bcasts
        /\ \A d \in Comms : d # "main" => Calls(s, d)' = Calls(s, d)
    BY <1>0, <1>4, <1>5, <2>4
  <2>6. Len(Course("main")) = 4 + Bcasts /\ Course("main")[2 + Bcasts] = "Reduce_processed"
    BY CourseFacts
  <2>7. /\ colls' \in [Processes -> [Comms -> Seq(Ops)]] /\ OnCourse(s)'
        /\ \A q \in Processes : q # s => colls'[q] = colls[q]
    <3>1. 1 + Bcasts \in Nat /\ 2 + Bcasts \in Nat /\ 2 + Bcasts = (1 + Bcasts) + 1
          /\ 2 + Bcasts <= Len(Course("main"))
      BY <1>0, <2>6
    <3> QED
      BY <1>0, <1>5, <1>9, <2>1, <2>5, <2>6, <3>1, CourseAdvanced
  <2>8. TeamInv(s)' /\ SinglesInv(s)'
    BY <1>7, <2>1 DEF SlaveLabels
  <2> QED
    BY <1>0, <1>6, <2>1, <2>7, <2>8 DEF SlaveLabels, ControlTypes
<1>14. CASE SlaveMetadata(s)
  <2>1. spc[s] = "processed" /\ Enter(s, "main", "Reduce_metadata") /\ SlaveGoTo(s, "metadata")
        /\ spc'[s] = "metadata" /\ UNCHANGED <<team, num_threads_used, tpc>>
    BY <1>8, <1>14 DEF SlaveMetadata, SlaveLabels, threadVars
  <2>2. SlaveCalls(s) = 2 + Bcasts /\ SlaveCalls(s)' = 3 + Bcasts
        /\ RoleProgress(s) = 1 /\ RoleProgress(s)' = 1
    BY <1>2, <1>9, <2>1 DEF SlaveCalls, RoleProgress
  <2>3. Calls(s, "main") = 2 + Bcasts /\ Calls(s, "main")' = 3 + Bcasts
        /\ \A d \in Comms : d # "main" => Calls(s, d)' = Calls(s, d)
    BY <1>0, <1>4, <1>5, <2>2
  <2>4. Len(Course("main")) = 4 + Bcasts /\ Course("main")[3 + Bcasts] = "Reduce_metadata"
    BY CourseFacts
  <2>5. /\ colls' \in [Processes -> [Comms -> Seq(Ops)]] /\ OnCourse(s)'
        /\ \A q \in Processes : q # s => colls'[q] = colls[q]
    <3>1. 2 + Bcasts \in Nat /\ 3 + Bcasts \in Nat /\ 3 + Bcasts = (2 + Bcasts) + 1
          /\ 3 + Bcasts <= Len(Course("main"))
      BY <1>0, <2>4
    <3> QED
      BY <1>0, <1>5, <1>9, <2>1, <2>3, <2>4, <3>1, CourseAdvanced
  <2>6. TeamInv(s)' /\ SinglesInv(s)'
    BY <1>7, <1>9, <2>1 DEF SlaveLabels, TeamInv
  <2> QED
    BY <1>0, <1>6, <2>1, <2>5, <2>6 DEF SlaveLabels, ControlTypes
<1>15. CASE SlaveEnd(s)
  <2>1. spc[s] = "metadata" /\ SlaveGoTo(s, "done") /\ spc'[s] = "done"
        /\ UNCHANGED <<colls, team, num_threads_used, tpc>>
    BY <1>8, <1>15 DEF SlaveEnd, SlaveLabels, threadVars
  <2>2. SlaveCalls(s) = SlaveCalls(s)' /\ RoleProgress(s) = 1 /\ RoleProgress(s)' = 1
    BY <1>2, <1>9, <2>1 DEF SlaveCalls, RoleProgress
  <2>3. \A d \in Comms : Calls(s, d)' = Calls(s, d)
    BY <1>4, <1>5, <2>2
  <2>4. OnCourse(s)'
    BY <1>9, <2>1, <2>3, CourseKept
  <2>5. TeamInv(s)' /\ SinglesInv(s)'
    BY <1>7, <1>9, <2>1 DEF SlaveLabels, TeamInv
  <2> QED
    BY <1>0, <1>6, <2>1, <2>4, <2>5 DEF SlaveLabels, ControlTypes
<1> QED
  BY <1>10, <1>11, <1>12, <1>13, <1>14, <1>15 DEF SlaveStep

\* The parallel region of a slave.
LEMMA ThreadNext ==
    ASSUME ControlInv, query' = query, NEW t \in Threads, ThreadStep(t),
           UNCHANGED <<ppc, spc, num_threads_used, team, masterVars>>
    PROVE  ControlInv'
<1>0. /\ ControlTypes /\ MasterInv
      /\ \A q \in Processes : ProcInv(q) /\ OnCourse(q)
      /\ \A r \in Slaves : TeamInv(r) /\ SinglesInv(r)
      /\ Master \notin Slaves /\ Master \in Processes /\ Slaves \subseteq Processes
      /\ Bcasts \in {0, 3}
  BY ControlParts
<1>1. UNCHANGED <<mpc, main, prog>>
  BY DEF masterVars, mainVars, progVars
<1>2. mode' = mode /\ Bcasts' = Bcasts
  BY CourseFixed
<1>3. PICK s \in Slaves : s = t[1]
  BY ThreadOf
<1>4. tpc[t] \notin {"idle", "join"}
  BY DEF ThreadStep, ProcessFile, Reported, Share, SentAll, EnterSingle, Broadcast, LeaveSingle,
    LeaveTput
<1>5. t \in Team(s) /\ spc[s] = "parallel" /\ ppc[s] = "role" /\ mode # "help"
  BY <1>3, <1>4, ActiveThread
<1>6. /\ OnCourse(s) /\ TeamInv(s) /\ SinglesInv(s) /\ s \in Processes /\ s # Master
      /\ Team(s)' = Team(s) /\ \A u \in Team(s) : u \in Threads /\ u[1] = s
      /\ singles[s] \in 0..2
  BY <1>0 DEF Team, ControlTypes
<1>7. /\ Calls(s, "world") = 2 /\ Calls(s, "world")' = 2
      /\ Calls(s, "main") = 1 + Broadcasts(s) + 0 /\ Calls(s, "main")' = 1 + Broadcasts(s)' + 0
      /\ Calls(s, "progress") = 1 /\ Calls(s, "progress")' = 1
  <2>1. SlaveCalls(s) = 1 + Broadcasts(s) /\ SlaveCalls(s)' = 1 + Broadcasts(s)'
        /\ RoleProgress(s) = 1 /\ RoleProgress(s)' = 1
    BY <1>5, <1>6 DEF SlaveCalls, RoleProgress
  <2> QED
    BY <1>5, <2>1, CallsInRole
<1>8. ASSUME NEW l, GoTo(t, l), tpc[t] # "bcast2", l # "bcast2", singles'[s] = singles[s]
      PROVE  Broadcasts(s)' = Broadcasts(s)
  <2>1. \A u \in Team(s) : tpc'[u] = "bcast2" <=> tpc[u] = "bcast2"
    BY <1>0, <1>6, <1>8 DEF GoTo, ControlTypes
  <2>2. InBcast(s, "bcast2")' <=> InBcast(s, "bcast2")
    BY <1>6, <2>1 DEF InBcast
  <2> QED
    BY <1>8, <2>2 DEF Broadcasts
<1>9. SinglesInv(s) /\ t \in Team(s) /\ Team(s)' = Team(s) /\ mode' = mode
  BY <1>2, <1>5, <1>6
<1>10. ASSUME NEW l, GoTo(t, l) PROVE tpc'[t] = l /\ \A u \in Team(s) : u # t => tpc'[u] = tpc[u]
  BY <1>0, <1>6, <1>10 DEF GoTo, ControlTypes
<1>11. ASSUME NEW l \in ThreadLabels \ {"idle"}, GoTo(t, l), mode = "tput" => l # "sent",
              mode # "tput" => l \in {"for", "report", "sent", "join"} /\ singles' = singles,
              singles' \in [Slaves -> 0..2],
              \A r \in Slaves : r # s => singles'[r] = singles[r],
              colls' \in [Processes -> [Comms -> Seq(Ops)]], OnCourse(s)',
              \A q \in Processes : q # s => colls'[q] = colls[q], SinglesInv(s)'
       PROVE  ControlInv'
  <2>1. tpc' = [tpc EXCEPT ![t] = l] /\ tpc' \in [Threads -> ThreadLabels]
    BY <1>0, <1>11 DEF GoTo, ControlTypes
  <2>2. ControlTypes'
    BY <1>0, <1>1, <1>11, <2>1 DEF ControlTypes
  <2>3. \A r \in Slaves : r # s => \A u \in Threads : u[1] = r => tpc'[u] = tpc[u]
    BY <1>0, <1>3, <2>1 DEF ControlTypes
  <2>4. /\ MasterInv'
        /\ \A p \in Processes : p # s => ProcInv(p)' /\ OnCourse(p)'
        /\ \A r \in Slaves : r # s => TeamInv(r)' /\ SinglesInv(r)'
    BY <1>1, <1>11, <2>3, OthersKept
  <2>5. ProcInv(s)'
    BY <1>0, <1>2, <1>6 DEF ProcInv, RoleOver
  <2>6. \A u \in Threads : u # t => tpc'[u] = tpc[u]
    BY <1>0, <2>1 DEF ControlTypes
  <2>7. tpc'[t] = l /\ l # "idle" /\ tpc[t] # "idle"
    BY <1>0, <1>4, <1>11, <2>1 DEF ControlTypes
  <2>8. TeamInv(s)'
    <3>1. \A u \in Threads : u[1] = s => (tpc'[u] = "idle" <=> u \notin Team(s)')
      BY <1>5, <1>6, <2>6, <2>7 DEF TeamInv
    <3>2. mode = "tput" => \A u \in Team(s) : tpc'[u] # "sent"
      BY <1>6, <1>11, <2>6, <2>7 DEF TeamInv
    <3>3. mode # "tput" => \A u \in Team(s) : tpc'[u] \in {"for", "report", "sent", "join"}
      BY <1>6, <1>11, <2>6, <2>7 DEF TeamInv
    <3>4. team[s] # 0
      BY <1>5, <1>6 DEF TeamInv
    <3>5. mode # "tput" => singles'[s] = 0
      BY <1>6, <1>11 DEF TeamInv
    <3> QED
      BY <1>2, <1>5, <1>6, <3>1, <3>2, <3>3, <3>4, <3>5 DEF TeamInv
  <2> QED
    BY <1>11, <2>2, <2>4, <2>5, <2>8 DEF ControlInv
<1>12. ASSUME NEW l \in ThreadLabels \ {"idle"}, GoTo(t, l), UNCHANGED <<colls, singles>>,
              mode = "tput" => l # "sent",
              mode # "tput" => l \in {"for", "report", "sent", "join"},
              Broadcasts(s)' = Broadcasts(s), SinglesInv(s)'
       PROVE  ControlInv'
  <2>1. \A d \in Comms : Calls(s, d)' = Calls(s, d)
    BY <1>7, <1>12 DEF Comms
  <2>2. OnCourse(s)'
    BY <1>6, <1>12, <2>1, CourseKept
  <2> QED
    BY <1>0, <1>11, <1>12, <2>2 DEF ControlTypes
<1>13. mode # "tput" => tpc[t] \in {"for", "report", "sent", "join"}
  BY <1>5, <1>6 DEF TeamInv
<1>14. CASE ProcessFile(t) \/ Reported(t) \/ Share(t) \/ SentAll(t)
  <2>1. PICK l \in {"for", "report", "join", "single1", "sent"} :
           /\ GoTo(t, l) /\ UNCHANGED <<colls, singles>>
           /\ tpc[t] \in {"for", "report", "sent"}
           /\ l = "join" => mode = "meta" \/ tpc[t] = "sent"
           /\ l = "sent" => mode # "tput"
           /\ l = "single1" => mode = "tput"
    BY <1>14 DEF ProcessFile, Reported, Share, SentAll, slaveVars
  <2>2. Broadcasts(s)' = Broadcasts(s)
    BY <1>8, <2>1
  <2>3. mode = "tput" => l \in {"for", "report", "single1"} /\ tpc[t] \in {"for", "report"}
    BY <1>5, <1>6, <2>1 DEF TeamInv
  <2>4. SinglesInv(s)'
    BY <1>9, <1>10, <2>1, <2>3 DEF SinglesInv, Before, After, InSingle
  <2> QED
    BY <1>12, <2>1, <2>2, <2>3, <2>4 DEF ThreadLabels
<1>15. CASE EnterSingle(t) /\ ~(singles[s] < SingleNo(tpc[t]))
  <2>1. PICK l \in {"barrier1", "barrier2"} :
           /\ GoTo(t, l) /\ UNCHANGED <<colls, singles>> /\ mode = "tput"
           /\ \/ tpc[t] = "single1" /\ l = "barrier1" /\ singles[s] # 0
              \/ tpc[t] = "single2" /\ l = "barrier2" /\ singles[s] = 2
    BY <1>3, <1>6, <1>13, <1>15 DEF EnterSingle, SingleNo
  <2>2. Broadcasts(s)' = Broadcasts(s)
    BY <1>8, <2>1
  <2>3. SinglesInv(s)'
    BY <1>9, <1>10, <2>1 DEF SinglesInv, Before, After, InSingle
  <2> QED
    BY <1>12, <2>1, <2>2, <2>3 DEF ThreadLabels
<1>16. CASE EnterSingle(t) /\ tpc[t] = "single1" /\ singles[s] < 1
  <2>1. GoTo(t, "bcast1") /\ singles' = [singles EXCEPT ![s] = 1]
        /\ Enter(s, "main", "Bcast_threshold") /\ mode = "tput"
    BY <1>3, <1>6, <1>13, <1>16 DEF EnterSingle, SingleNo
  <2>2. singles[s] = 0 /\ singles'[s] = 1 /\ singles' \in [Slaves -> 0..2]
        /\ \A r \in Slaves : r # s => singles'[r] = singles[r]
    BY <1>0, <1>6, <1>16, <2>1 DEF ControlTypes
  <2>3. Broadcasts(s) = 0 /\ Broadcasts(s)' = 1
    BY <2>2 DEF Broadcasts
  <2>4. Calls(s, "main") = 1 /\ Calls(s, "main")' = 2
        /\ \A d \in Comms : d # "main" => Calls(s, d)' = Calls(s, d)
    BY <1>7, <2>3 DEF Comms
  <2>5. Len(Course("main")) = 7 /\ Course("main")[2] = "Bcast_threshold"
    BY <2>1, CourseFacts DEF Bcasts
  <2>6. /\ colls' \in [Processes -> [Comms -> Seq(Ops)]] /\ OnCourse(s)'
        /\ \A q \in Processes : q # s => colls'[q] = colls[q]
    BY <1>0, <1>6, <2>1, <2>4, <2>5, CourseAdvanced DEF Comms
  <2>7. SinglesInv(s)'
    <3>1. \A u \in Team(s) : tpc[u] \notin InSingle \cup {"barrier1", "barrier2"} \cup After(1)
      BY <1>9, <2>1, <2>2 DEF SinglesInv, InSingle, After
    <3> QED
      BY <1>9, <1>10, <2>1, <2>2, <3>1 DEF SinglesInv, Before, After, InSingle
  <2> QED
    BY <1>11, <2>1, <2>2, <2>6, <2>7 DEF ThreadLabels
<1>17. CASE EnterSingle(t) /\ tpc[t] = "single2" /\ singles[s] < 2
  <2>1. GoTo(t, "bcast2") /\ singles' = [singles EXCEPT ![s] = 2]
        /\ Enter(s, "main", "Bcast_info") /\ mode = "tput"
    BY <1>3, <1>6, <1>13, <1>17 DEF EnterSingle, SingleNo
  <2>2. singles'[s] = 2 /\ singles' \in [Slaves -> 0..2]
        /\ \A r \in Slaves : r # s => singles'[r] = singles[r]
    BY <1>0, <1>6, <1>17, <2>1 DEF ControlTypes
  <2>3. singles[s] = 1 /\ \A u \in Team(s) : tpc[u] \notin InSingle \cup Before(1) \cup {"barrier2"} \cup After(2)
    <3>1. singles[s] # 0 /\ \A u \in Team(s) : tpc[u] \notin Before(1)
      BY <1>9, <1>17, <2>1 DEF SinglesInv, After
    <3>2. \A u \in Team(s) : tpc[u] \notin {"bcast2", "bcast3", "barrier2"} \cup After(2)
      BY <1>6, <1>9, <1>17, <2>1 DEF SinglesInv
    <3> QED
      BY <1>6, <1>17, <3>1, <3>2 DEF InSingle, Before
  <2>4. Broadcasts(s) = 1 /\ Broadcasts(s)' = 2
    <3>1. InBcast(s, "bcast2")'
      BY <1>9, <1>10, <2>1 DEF InBcast
    <3> QED
      BY <2>2, <2>3, <3>1 DEF Broadcasts
  <2>5. Calls(s, "main") = 2 /\ Calls(s, "main")' = 3
        /\ \A d \in Comms : d # "main" => Calls(s, d)' = Calls(s, d)
    BY <1>7, <2>4 DEF Comms
  <2>6. Len(Course("main")) = 7 /\ Course("main")[3] = "Bcast_info"
    BY <2>1, CourseFacts DEF Bcasts
  <2>7. /\ colls' \in [Processes -> [Comms -> Seq(Ops)]] /\ OnCourse(s)'
        /\ \A q \in Processes : q # s => colls'[q] = colls[q]
    BY <1>0, <1>6, <2>1, <2>5, <2>6, CourseAdvanced DEF Comms
  <2>8. SinglesInv(s)'
    BY <1>9, <1>10, <2>1, <2>2, <2>3 DEF SinglesInv, Before, After, InSingle
  <2> QED
    BY <1>11, <2>1, <2>2, <2>7, <2>8 DEF ThreadLabels
<1>18. CASE Broadcast(t) /\ tpc[t] # "bcast2"
  <2>1. PICK l \in {"barrier1", "barrier2"} :
           /\ GoTo(t, l) /\ UNCHANGED <<colls, singles>> /\ mode = "tput"
           /\ \/ tpc[t] = "bcast1" /\ l = "barrier1"
              \/ tpc[t] = "bcast3" /\ l = "barrier2"
    BY <1>13, <1>18 DEF Broadcast, slaveVars
  <2>2. Broadcasts(s)' = Broadcasts(s)
    BY <1>8, <2>1
  <2>3. SinglesInv(s)'
    BY <1>9, <1>10, <2>1 DEF SinglesInv, Before, After, InSingle
  <2> QED
    BY <1>12, <2>1, <2>2, <2>3 DEF ThreadLabels
<1>19. CASE Broadcast(t) /\ tpc[t] = "bcast2"
  <2>1. GoTo(t, "bcast3") /\ singles' = singles /\ Enter(s, "main", "Bcast_records") /\ mode = "tput"
    BY <1>3, <1>13, <1>19 DEF Broadcast, slaveVars
  <2>2. singles[s] = 2 /\ \A u \in Team(s) : u # t => tpc[u] \notin InSingle
    BY <1>9, <1>19, <2>1 DEF SinglesInv, InSingle
  <2>3. Broadcasts(s) = 2 /\ Broadcasts(s)' = 3
    <3>1. InBcast(s, "bcast2")
      BY <1>9, <1>19 DEF InBcast
    <3>2. ~InBcast(s, "bcast2")'
      BY <1>9, <1>10, <2>1, <2>2 DEF InBcast, InSingle
    <3> QED
      BY <2>1, <2>2, <3>1, <3>2 DEF Broadcasts
  <2>4. Calls(s, "main") = 3 /\ Calls(s, "main")' = 4
        /\ \A d \in Comms : d # "main" => Calls(s, d)' = Calls(s, d)
    BY <1>7, <2>3 DEF Comms
  <2>5. Len(Course("main")) = 7 /\ Course("main")[4] = "Bcast_records"
    BY <2>1, CourseFacts DEF Bcasts
  <2>6. /\ colls' \in [Processes -> [Comms -> Seq(Ops)]] /\ OnCourse(s)'
        /\ \A q \in Processes : q # s => colls'[q] = colls[q]
    BY <1>0, <1>6, <2>1, <2>4, <2>5, CourseAdvanced DEF Comms
  <2>7. SinglesInv(s)'
    BY <1>9, <1>10, <1>19, <2>1, <2>2 DEF SinglesInv, Before, After, InSingle
  <2> QED
    BY <1>0, <1>11, <2>1, <2>6, <2>7 DEF ThreadLabels, ControlTypes
<1>20. CASE LeaveSingle(t)
  <2>1. PICK l \in {"single2", "barrier3"} :
           /\ GoTo(t, l) /\ UNCHANGED <<colls, singles>> /\ mode = "tput"
           /\ \/ tpc[t] = "barrier1" /\ l = "single2" /\ \A u \in Team(s) : tpc[u] \notin Before(1)
              \/ tpc[t] = "barrier2" /\ l = "barrier3" /\ \A u \in Team(s) : tpc[u] \notin Before(2)
    BY <1>3, <1>13, <1>20 DEF LeaveSingle, slaveVars
  <2>2. Broadcasts(s)' = Broadcasts(s)
    BY <1>8, <2>1
  <2>3. SinglesInv(s)'
    BY <1>9, <1>10, <2>1 DEF SinglesInv, Before, After, InSingle
  <2> QED
    BY <1>12, <2>1, <2>2, <2>3 DEF ThreadLabels
<1>21. CASE LeaveTput(t)
  <2>1. GoTo(t, "join") /\ UNCHANGED <<colls, singles>> /\ mode = "tput" /\ tpc[t] = "barrier3"
    BY <1>13, <1>21 DEF LeaveTput, slaveVars
  <2>2. Broadcasts(s)' = Broadcasts(s)
    BY <1>8, <2>1
  <2>3. SinglesInv(s)'
    BY <1>9, <1>10, <2>1 DEF SinglesInv, Before, After, InSingle
  <2> QED
    BY <1>12, <2>1, <2>2, <2>3 DEF ThreadLabels
<1>22. EnterSingle(t) /\ singles[s] < SingleNo(tpc[t]) =>
          \/ tpc[t] = "single1" /\ singles[s] < 1
          \/ tpc[t] = "single2" /\ singles[s] < 2
  BY DEF EnterSingle, SingleNo
<1> QED
  BY <1>14, <1>15, <1>16, <1>17, <1>18, <1>19, <1>20, <1>21, <1>22 DEF ThreadStep

\* The master keeps the invariant when it makes its next call on one of its
\* communicators, or none.
LEMMA MasterKeeps ==
    ASSUME ControlInv, query' = query, UNCHANGED <<ppc, slaveVars, tpc>>,
           ppc[Master] = "role", mpc # "done", main' \in MainLabels, MasterInv',
           mpc' \in {"parallel", "processed", "metadata", "done"},
           prog' \in {"start", "gather", "recv", "join"},
           \/ /\ colls' = colls
              /\ MasterCalls' = MasterCalls /\ RoleProgress(Master)' = RoleProgress(Master)
           \/ \E n \in Nat :
                 /\ n + 1 <= Len(Course("main")) /\ Enter(Master, "main", Course("main")[n + 1])
                 /\ MasterCalls = n /\ MasterCalls' = n + 1
                 /\ RoleProgress(Master)' = RoleProgress(Master)
           \/ /\ Enter(Master, "progress", "Gather_files")
              /\ RoleProgress(Master) = 0 /\ RoleProgress(Master)' = 1
              /\ MasterCalls' = MasterCalls
    PROVE  ControlInv'
<1>0. /\ ControlTypes /\ MasterInv
      /\ \A q \in Processes : ProcInv(q) /\ OnCourse(q)
      /\ \A s \in Slaves : TeamInv(s) /\ SinglesInv(s)
      /\ Master \notin Slaves /\ Master \in Processes /\ Slaves \subseteq Processes
      /\ Bcasts \in {0, 3}
  BY ControlParts
<1>1. UNCHANGED <<spc, team, num_threads_used, singles, tpc>>
  BY DEF slaveVars
<1>2. mode' = mode /\ mode # "help"
  BY <1>0, CourseFixed, InRole
<1>3. \A s \in Slaves : TeamInv(s)' /\ SinglesInv(s)'
  BY <1>0, <1>1, TeamsSame
<1>4. /\ Calls(Master, "world") = 2 /\ Calls(Master, "world")' = 2
      /\ Calls(Master, "main") = MasterCalls + 0 /\ Calls(Master, "main")' = MasterCalls' + 0
      /\ Calls(Master, "progress") = RoleProgress(Master) + 0
      /\ Calls(Master, "progress")' = RoleProgress(Master)' + 0
  <2>1. WorldCalls(Master) = 2 /\ WorldCalls(Master)' = 2
    BY DEF WorldCalls
  <2>2. /\ Freed(Master, {"free1", "free2", "finalize", "exit"}) = 0
        /\ Freed(Master, {"free1", "free2", "finalize", "exit"})' = 0
        /\ Freed(Master, {"free2", "finalize", "exit"}) = 0
        /\ Freed(Master, {"free2", "finalize", "exit"})' = 0
    BY DEF Freed
  <2> QED
    BY <2>1, <2>2 DEF Calls, MainCalls, ProgressCalls, RoleCalls
<1>5. /\ colls' \in [Processes -> [Comms -> Seq(Ops)]] /\ OnCourse(Master)'
      /\ \A q \in Processes : q # Master => colls'[q] = colls[q]
  <2>1. CASE /\ colls' = colls
             /\ MasterCalls' = MasterCalls /\ RoleProgress(Master)' = RoleProgress(Master)
    <3>1. \A c \in Comms : Calls(Master, c)' = Calls(Master, c)
      BY <1>4, <2>1 DEF Comms
    <3>2. OnCourse(Master)'
      BY <1>0, <2>1, <3>1, CourseKept
    <3> QED
      BY <1>0, <2>1, <3>2 DEF ControlTypes
  <2>2. ASSUME NEW n \in Nat, n + 1 <= Len(Course("main")),
               Enter(Master, "main", Course("main")[n + 1]),
               MasterCalls = n, MasterCalls' = n + 1,
               RoleProgress(Master)' = RoleProgress(Master)
        PROVE  /\ colls' \in [Processes -> [Comms -> Seq(Ops)]] /\ OnCourse(Master)'
               /\ \A q \in Processes : q # Master => colls'[q] = colls[q]
    <3>1. PICK m \in Nat : m = n + 1
      OBVIOUS
    <3>2. Calls(Master, "main") = n /\ Calls(Master, "main")' = m
          /\ \A d \in Comms : d # "main" => Calls(Master, d)' = Calls(Master, d)
      BY <1>4, <2>2, <3>1 DEF Comms
    <3>3. "main" \in Comms
      BY DEF Comms
    <3> QED
      BY <1>0, <2>2, <3>1, <3>2, <3>3, CourseAdvanced
  <2>3. CASE /\ Enter(Master, "progress", "Gather_files")
             /\ RoleProgress(Master) = 0 /\ RoleProgress(Master)' = 1
             /\ MasterCalls' = MasterCalls
    <3>1. Calls(Master, "progress") = 0 /\ Calls(Master, "progress")' = 1
          /\ \A d \in Comms : d # "progress" => Calls(Master, d)' = Calls(Master, d)
      BY <1>4, <2>3 DEF Comms
    <3>2. Len(Course("progress")) = 2 /\ Course("progress")[1] = "Gather_files"
      BY CourseFacts
    <3> QED
      BY <1>0, <2>3, <3>1, <3>2, CourseAdvanced DEF Comms
  <2> QED
    BY <2>1, <2>2, <2>3
<1>6. ControlTypes'
  BY <1>0, <1>1, <1>5 DEF ControlTypes
<1>7. ASSUME NEW p \in Processes PROVE ProcInv(p)'
  <2>1. CASE p = Master
    BY <1>2, <2>1 DEF ProcInv
  <2>2. CASE p # Master
    BY <1>0, <1>1, <1>2, <2>2 DEF ProcInv, RoleOver
  <2> QED
    BY <2>1, <2>2
<1>8. ASSUME NEW p \in Processes, p # Master PROVE OnCourse(p)'
  <2>1. \A c \in Comms : Calls(p, c)' = Calls(p, c)
    BY <1>1, <1>8, CallsSame
  <2> QED
    BY <1>0, <1>5, <1>8, <2>1, CourseKept
<1> QED
  BY <1>3, <1>5, <1>6, <1>7, <1>8 DEF ControlInv

\* The main thread of the master.
LEMMA MainNext ==
    ASSUME ControlInv, query' = query, MainStep, UNCHANGED <<ppc, slaveVars, tpc, mpc, prog>>
    PROVE  ControlInv'
<1>0. ControlTypes /\ MasterInv /\ Bcasts \in {0, 3}
  BY ControlParts
<1>1. mode' = mode /\ Bcasts' = Bcasts
  BY CourseFixed
<1>2. main # "join" /\ (main = "start" => ppc[Master] = "role")
  BY DEF MainStep, MainStart, MainMode, MainBroadcast, MainBroadcast2, MainNextRound, MainEnd,
    MainReceive, Receiving
<1>3. mpc = "parallel" /\ ppc[Master] = "role"
  <2>1. mpc = "parallel"
    BY <1>0, <1>2 DEF MasterInv
  <2> QED
    BY <1>2, <2>1, InRole
<1>4. RoleProgress(Master)' = RoleProgress(Master)
  BY DEF RoleProgress
<1>5. /\ Len(Course("main")) = 4 + Bcasts /\ Course("main")[1] = "Reduce_threads"
      /\ mode = "tput" => /\ Course("main")[2] = "Bcast_threshold"
                          /\ Course("main")[3] = "Bcast_info"
                          /\ Course("main")[4] = "Bcast_records"
  BY CourseFacts
<1>6. mpc' = mpc /\ prog' = prog
  OBVIOUS
<1>7. ASSUME NEW n \in Nat, NEW m \in Nat, m = n + 1, m <= Len(Course("main")), NEW op,
             op = Course("main")[m], Enter(Master, "main", op), MasterCalls = n, MasterCalls' = m,
             main' \in MainLabels, MasterInv'
      PROVE  ControlInv'
  <2>1. \E k \in Nat : /\ k + 1 <= Len(Course("main"))
                       /\ Enter(Master, "main", Course("main")[k + 1])
                       /\ MasterCalls = k /\ MasterCalls' = k + 1
                       /\ RoleProgress(Master)' = RoleProgress(Master)
    BY <1>4, <1>7
  <2> QED
    BY <1>0, <1>3, <1>6, <1>7, <2>1, MasterKeeps DEF ControlTypes
<1>8. ASSUME colls' = colls, MasterCalls' = MasterCalls, main' \in MainLabels, MasterInv'
      PROVE  ControlInv'
  BY <1>0, <1>3, <1>4, <1>6, <1>8, MasterKeeps DEF ControlTypes
<1>9. CASE MainStart
  <2>1. main = "start" /\ main' = "threads" /\ Enter(Master, "main", "Reduce_threads")
    BY <1>9 DEF MainStart
  <2>2. MasterCalls = 0 /\ MasterCalls' = 1
    BY <1>3, <1>6, <2>1 DEF MasterCalls
  <2>3. MasterInv' /\ main' \in MainLabels
    BY <1>0, <1>1, <1>3, <1>6, <2>1 DEF MasterInv, MainLabels
  <2>4. 1 <= Len(Course("main"))
    BY <1>0, <1>5
  <2> QED
    BY <1>5, <1>7, <2>1, <2>2, <2>3, <2>4
<1>10. CASE MainMode
  <2>1. main = "threads" /\ colls' = colls
        /\ \/ main' = "recv1"
           \/ main' = "join" /\ mode = "meta"
    BY <1>10 DEF MainMode
  <2>2. MasterCalls' = MasterCalls
    BY <1>1, <1>3, <1>6, <2>1 DEF MasterCalls, Bcasts
  <2>3. MasterInv' /\ main' \in MainLabels
    BY <1>0, <1>1, <1>3, <1>6, <2>1 DEF MasterInv, MainLabels
  <2> QED
    BY <1>8, <2>1, <2>2, <2>3
<1>11. CASE MainBroadcast
  <2>1. mode = "tput"
        /\ \/ main = "recv1" /\ main' = "bcast1" /\ Enter(Master, "main", "Bcast_threshold")
           \/ main = "recv2" /\ main' = "bcast2" /\ Enter(Master, "main", "Bcast_info")
    BY <1>11 DEF MainBroadcast
  <2>2. /\ main = "recv1" => MasterCalls = 1 /\ MasterCalls' = 2
        /\ main = "recv2" => MasterCalls = 2 /\ MasterCalls' = 3
    BY <1>3, <1>6, <2>1 DEF MasterCalls
  <2>3. MasterInv' /\ main' \in MainLabels
    BY <1>0, <1>1, <1>3, <1>6, <2>1 DEF MasterInv, MainLabels
  <2>4. Len(Course("main")) = 7
    BY <1>5, <2>1 DEF Bcasts
  <2> QED
    BY <1>5, <1>7, <2>1, <2>2, <2>3, <2>4
<1>12. CASE MainBroadcast2
  <2>1. main = "bcast2" /\ main' = "bcast3" /\ Enter(Master, "main", "Bcast_records")
    BY <1>12 DEF MainBroadcast2
  <2>2. mode = "tput" /\ MasterCalls = 3 /\ MasterCalls' = 4
    BY <1>0, <1>3, <1>6, <2>1 DEF MasterCalls, MasterInv
  <2>3. MasterInv' /\ main' \in MainLabels
    BY <1>0, <1>1, <1>3, <1>6, <2>1, <2>2 DEF MasterInv, MainLabels
  <2>4. Len(Course("main")) = 7
    BY <1>5, <2>2 DEF Bcasts
  <2> QED
    BY <1>5, <1>7, <2>1, <2>2, <2>3, <2>4
<1>13. CASE MainNextRound
  <2>1. colls' = colls
        /\ \/ main = "bcast1" /\ main' = "recv2"
           \/ main = "bcast3" /\ main' = "recv3"
    BY <1>13 DEF MainNextRound
  <2>2. mode = "tput" /\ MasterCalls' = MasterCalls
    BY <1>0, <1>3, <1>6, <2>1 DEF MasterCalls, MasterInv
  <2>3. MasterInv' /\ main' \in MainLabels
    BY <1>0, <1>1, <1>3, <1>6, <2>1, <2>2 DEF MasterInv, MainLabels
  <2> QED
    BY <1>8, <2>1, <2>2, <2>3
<1>14. CASE MainEnd
  <2>1. colls' = colls /\ main' = "join"
        /\ \/ mode = "tput" /\ main = "recv3"
           \/ mode # "tput" /\ main = "recv1"
    BY <1>14 DEF MainEnd
  <2>2. MasterCalls' = MasterCalls
    BY <1>1, <1>3, <1>6, <2>1 DEF MasterCalls, Bcasts
  <2>3. MasterInv' /\ main' \in MainLabels
    BY <1>0, <1>1, <1>3, <1>6, <2>1 DEF MasterInv, MainLabels
  <2> QED
    BY <1>8, <2>1, <2>2, <2>3
<1>15. CASE \E t \in Threads : MainReceive(t)
  <2>1. colls' = colls /\ main' = main
    BY <1>15 DEF MainReceive
  <2>2. MasterCalls' = MasterCalls
    BY <1>1, <1>6, <2>1 DEF MasterCalls
  <2>3. MasterInv' /\ main' \in MainLabels
    BY <1>0, <1>1, <1>6, <2>1 DEF MasterInv, ControlTypes
  <2> QED
    BY <1>8, <2>1, <2>2, <2>3
<1> QED
  BY <1>9, <1>10, <1>11, <1>12, <1>13, <1>14, <1>15 DEF MainStep

\* The progress thread of the master.
LEMMA ProgNext ==
    ASSUME ControlInv, query' = query, ProgStep, UNCHANGED <<ppc, slaveVars, tpc, mpc, main>>
    PROVE  ControlInv'
<1>0. ControlTypes /\ MasterInv
  BY ControlParts
<1>1. mode' = mode /\ Bcasts' = Bcasts
  BY CourseFixed
<1>2. prog # "join" /\ (prog = "start" => ppc[Master] = "role")
  BY DEF ProgStep, ProgStart, ProgGoals, ProgReceive, ProgEnd
<1>3. mpc = "parallel" /\ ppc[Master] = "role"
  <2>1. mpc = "parallel"
    BY <1>0, <1>2 DEF MasterInv
  <2> QED
    BY <1>2, <2>1, InRole
<1>4. MasterCalls' = MasterCalls
  BY <1>1 DEF MasterCalls
<1>5. /\ prog' \in {"gather", "recv", "join"}
      /\ \/ prog = "start" /\ Enter(Master, "progress", "Gather_files")
         \/ prog # "start" /\ colls' = colls
  BY DEF ProgStep, ProgStart, ProgGoals, ProgReceive, ProgEnd
<1>6. /\ RoleProgress(Master)' = 1
      /\ prog = "start" => RoleProgress(Master) = 0
      /\ prog # "start" => RoleProgress(Master) = 1
  BY <1>5 DEF RoleProgress
<1>7. MasterInv'
  BY <1>0, <1>1, <1>3 DEF MasterInv
<1>8. main' \in MainLabels /\ mpc' \in {"parallel", "processed", "metadata", "done"} /\ mpc # "done"
  BY <1>0, <1>3 DEF ControlTypes
<1> QED
  BY <1>3, <1>4, <1>5, <1>6, <1>7, <1>8, MasterKeeps

\* The master behind its parallel region.
LEMMA MasterNext ==
    ASSUME ControlInv, query' = query, MasterStep, UNCHANGED <<ppc, slaveVars, tpc, main, prog>>
    PROVE  ControlInv'
<1>0. ControlTypes /\ MasterInv /\ Bcasts \in {0, 3}
  BY ControlParts
<1>1. mode' = mode /\ Bcasts' = Bcasts
  BY CourseFixed
<1>2. mpc # "done" /\ main = "join" /\ prog = "join"
  BY <1>0 DEF MasterStep, MasterJoin, MasterMetadata, MasterEnd, MasterInv
<1>3. ppc[Master] = "role"
  BY <1>2, InRole
<1>4. RoleProgress(Master)' = RoleProgress(Master)
  BY DEF RoleProgress
<1>5. /\ Len(Course("main")) = 4 + Bcasts /\ Course("main")[2 + Bcasts] = "Reduce_processed"
      /\ Course("main")[3 + Bcasts] = "Reduce_metadata"
  BY CourseFacts
<1>6. main' \in MainLabels /\ prog' \in {"start", "gather", "recv", "join"}
  BY <1>0 DEF ControlTypes
<1>7. CASE MasterJoin
  <2>1. mpc = "parallel" /\ mpc' = "processed" /\ Enter(Master, "main", "Reduce_processed")
    BY <1>7 DEF MasterJoin
  <2>2. MasterCalls = 1 + Bcasts /\ MasterCalls' = 2 + Bcasts
    BY <1>1, <1>2, <2>1 DEF MasterCalls
  <2>3. MasterInv'
    BY <1>0, <1>1, <1>2 DEF MasterInv
  <2>4. PICK n \in Nat : n = 1 + Bcasts
    BY <1>0
  <2>5. /\ n + 1 <= Len(Course("main")) /\ Enter(Master, "main", Course("main")[n + 1])
        /\ MasterCalls = n /\ MasterCalls' = n + 1
    <3>1. n + 1 = 2 + Bcasts /\ n + 1 <= 4 + Bcasts
      BY <1>0, <2>4
    <3> QED
      BY <1>5, <2>1, <2>2, <2>4, <3>1
  <2> QED
    BY <1>2, <1>3, <1>4, <1>6, <2>1, <2>3, <2>5, MasterKeeps
<1>8. CASE MasterMetadata
  <2>1. mpc = "processed" /\ mpc' = "metadata" /\ Enter(Master, "main", "Reduce_metadata")
    BY <1>8 DEF MasterMetadata
  <2>2. MasterCalls = 2 + Bcasts /\ MasterCalls' = 3 + Bcasts
    BY <1>1, <1>2, <2>1 DEF MasterCalls
  <2>3. MasterInv'
    BY <1>0, <1>1, <1>2 DEF MasterInv
  <2>4. PICK n \in Nat : n = 2 + Bcasts
    BY <1>0
  <2>5. /\ n + 1 <= Len(Course("main")) /\ Enter(Master, "main", Course("main")[n + 1])
        /\ MasterCalls = n /\ MasterCalls' = n + 1
    <3>1. n + 1 = 3 + Bcasts /\ n + 1 <= 4 + Bcasts
      BY <1>0, <2>4
    <3> QED
      BY <1>5, <2>1, <2>2, <2>4, <3>1
  <2> QED
    BY <1>2, <1>3, <1>4, <1>6, <2>1, <2>3, <2>5, MasterKeeps
<1>9. CASE MasterEnd
  <2>1. mpc = "metadata" /\ mpc' = "done" /\ colls' = colls
    BY <1>9 DEF MasterEnd
  <2>2. MasterCalls' = MasterCalls
    BY <1>1, <2>1 DEF MasterCalls
  <2>3. MasterInv'
    BY <1>0, <1>1, <1>2 DEF MasterInv
  <2> QED
    BY <1>2, <1>3, <1>4, <1>6, <2>1, <2>2, <2>3, MasterKeeps
<1> QED
  BY <1>7, <1>8, <1>9 DEF MasterStep

\* Nothing changes.
LEMMA ControlStutter == ASSUME ControlInv, UNCHANGED vars PROVE ControlInv'
<1>0. /\ ControlTypes /\ MasterInv
      /\ \A q \in Processes : ProcInv(q) /\ OnCourse(q)
      /\ \A s \in Slaves : TeamInv(s) /\ SinglesInv(s)
  BY ControlParts
<1>1. UNCHANGED <<query, ppc, colls, spc, team, num_threads_used, singles, tpc, mpc, main, prog>>
  BY DEF vars, outerVars, slaveVars, threadVars, masterVars, mainVars, progVars
<1>2. mode' = mode
  BY <1>1, CourseFixed
<1>3. ControlTypes' /\ MasterInv'
  BY <1>0, <1>1, <1>2 DEF ControlTypes, MasterInv
<1>4. \A s \in Slaves : TeamInv(s)' /\ SinglesInv(s)'
  BY <1>0, <1>1, TeamsSame
<1>5. ASSUME NEW p \in Processes PROVE ProcInv(p)' /\ OnCourse(p)'
  <2>1. ProcInv(p)'
    BY <1>0, <1>1, <1>2 DEF ProcInv, RoleOver
  <2>2. \A c \in Comms : Calls(p, c)' = Calls(p, c)
    BY <1>1, CallsSame
  <2> QED
    BY <1>0, <1>1, <2>1, <2>2, CourseKept
<1> QED
  BY <1>3, <1>4, <1>5 DEF ControlInv

\* The invariant is inductive.
LEMMA ControlNext == ControlInv /\ [Next]_vars => ControlInv'
  BY StepKinds, ProcNext, SlaveNext, ThreadNext, MainNext, ProgNext, MasterNext, ControlStutter

\* Every step of the program keeps the control invariant: the collective
\* operations of every process are a prefix of the one course of the query.
THEOREM ControlHolds == Spec => []ControlInv
<1>1. Init => ControlInv
  BY ControlInit
<1>2. ControlInv /\ [Next]_vars => ControlInv'
  BY ControlNext
<1> QED
  BY <1>1, <1>2, PTL DEF Spec

\* How many calls a process can have made.
LEMMA CallsBound ==
    ASSUME ControlInv, NEW p \in Processes, NEW c \in Comms
    PROVE  Calls(p, c) \in 0..Len(Course(c))
<1>0. /\ ControlTypes /\ MasterInv /\ ProcInv(p) /\ Bcasts \in {0, 3}
      /\ Master \notin Slaves /\ (p # Master => p \in Slaves)
  BY ControlParts DEF Processes
<1>1. /\ mode = "help" => Len(Course("world")) = 1
      /\ mode # "help" => Len(Course("world")) = 3
      /\ Len(Course("main")) = 4 + Bcasts /\ Len(Course("progress")) = 2
  BY CourseFacts
<1>2. WorldCalls(p) \in 0..Len(Course("world"))
  <2>1. ppc[p] \in ProcLabels
    BY <1>0 DEF ControlTypes
  <2>2. mode = "help" => ppc[p] \in {"init", "finalize", "exit"}
    BY <1>0 DEF ProcInv
  <2>3. CASE mode = "help"
    <3>1. WorldCalls(p) \in 0..1
      BY <2>2, <2>3 DEF WorldCalls
    <3>2. Len(Course("world")) = 1
      BY <1>1, <2>3
    <3> QED
      BY <3>1, <3>2
  <2>4. CASE mode # "help"
    <3>1. WorldCalls(p) \in 0..3
      BY <2>1, <2>4 DEF WorldCalls, ProcLabels
    <3>2. Len(Course("world")) = 3
      BY <1>1, <2>4
    <3> QED
      BY <3>1, <3>2
  <2> QED
    BY <2>3, <2>4
<1>3. RoleCalls(p) \in 0..(3 + Bcasts)
  <2>1. CASE p = Master
    <3>1. mode # "tput" => main \in {"start", "threads", "recv1", "join"}
      BY <1>0 DEF MasterInv
    <3>2. mode = "tput" => Bcasts = 3
      BY DEF Bcasts
    <3> QED
      BY <1>0, <2>1, <3>1, <3>2 DEF RoleCalls, MasterCalls, ControlTypes, MainLabels
  <2>2. CASE p # Master
    <3>1. p \in Slaves /\ TeamInv(p) /\ singles[p] \in 0..2
      BY <1>0, <2>2, ControlParts DEF ControlTypes
    <3>2. mode # "tput" => singles[p] = 0
      BY <3>1 DEF TeamInv
    <3>3. Broadcasts(p) \in 0..Bcasts
      BY <3>1, <3>2 DEF Broadcasts, Bcasts
    <3> QED
      BY <1>0, <2>2, <3>3 DEF RoleCalls, SlaveCalls
  <2> QED
    BY <2>1, <2>2
<1>4. RoleProgress(p) \in 0..1
  BY DEF RoleProgress
<1>5. /\ Freed(p, {"free1", "free2", "finalize", "exit"}) \in 0..1
      /\ Freed(p, {"free2", "finalize", "exit"}) \in 0..1
  BY DEF Freed
<1>6. MainCalls(p) \in 0..(4 + Bcasts)
  BY <1>0, <1>3, <1>5 DEF MainCalls
<1>7. ProgressCalls(p) \in 0..2
  BY <1>4, <1>5 DEF ProgressCalls
<1> QED
  BY <1>1, <1>2, <1>6, <1>7 DEF Calls, Comms

\* Processes on the same course agree about their collective operations.
LEMMA CourseAgrees == ControlInv => CollectivesAgree
<1> SUFFICES ASSUME ControlInv, NEW p \in Processes, NEW q \in Processes, NEW c \in Comms
             PROVE  InOrder(colls[p][c], colls[q][c])
  BY DEF CollectivesAgree, Comms
<1>1. Course(c) \in Seq(Ops)
  BY CourseFacts
<1>2. Calls(p, c) \in 0..Len(Course(c)) /\ Calls(q, c) \in 0..Len(Course(c))
  BY CallsBound
<1>3. PICK x \in Seq(Ops) : x = Course(c)
  BY <1>1
<1>4. PICK m \in 0..Len(x), n \in 0..Len(x) : m = Calls(p, c) /\ n = Calls(q, c)
  BY <1>2, <1>3
<1>5. colls[p][c] = SubSeq(x, 1, m) /\ colls[q][c] = SubSeq(x, 1, n)
  BY <1>3, <1>4 DEF ControlInv, OnCourse
<1> QED
  BY <1>5, PrefixesInOrder

\* CollectivesAgree, for any slaves, threads and files and in every mode: on
\* each communicator all processes call the same operations in the same order,
\* although the calls are spread over main(), slave_main, one thread of each
\* slave's team and two threads of the master.
THEOREM CollectivesOrdered == Spec => []CollectivesAgree
  BY ControlHolds, CourseAgrees, PTL

\* Only the thread that has entered the omp single construct is inside a
\* collective operation.
LEMMA OneInside == ControlInv => OneCollectiveAtATime
<1> SUFFICES ASSUME ControlInv, NEW s \in Slaves
             PROVE  LET inside == {t \in Team(s) : tpc[t] \in {"bcast1", "bcast2", "bcast3"}} IN
                    /\ Cardinality(inside) <= 1
                    /\ inside # {} => spc[s] = "parallel"
  BY DEF OneCollectiveAtATime
<1> DEFINE inside == {t \in Team(s) : tpc[t] \in {"bcast1", "bcast2", "bcast3"}}
<1>1. TeamInv(s) /\ SinglesInv(s) /\ \A t \in Team(s) : t \in Threads /\ t[1] = s
  BY ControlParts, TeamMembers
<1>2. \A t, u \in inside : t = u
  BY <1>1 DEF SinglesInv, TeamInv, InSingle
<1>3. \A t \in inside : spc[s] = "parallel"
  BY <1>1, ActiveThread
<1>4. Cardinality(inside) <= 1
  <2> HIDE DEF inside
  <2>1. CASE inside = {}
    BY <2>1, FS_EmptySet
  <2>2. CASE inside # {}
    <3>1. PICK t \in inside : inside = {t}
      BY <1>2, <2>2
    <3> QED
      BY <3>1, FS_Singleton
  <2> QED
    BY <2>1, <2>2
<1> QED
  BY <1>3, <1>4

\* OneCollectiveAtATime, for any teams: the broadcasts inside the omp single
\* constructs of the TPUT postprocessing never overlap on one slave, and never with
\* a collective of the process itself.
THEOREM CollectivesOneByOne == Spec => []OneCollectiveAtATime
  BY ControlHolds, OneInside, PTL

----------------------------------------------------------------------------
\* The threads a slave may have.
Own(s) == {t \in Threads : t[1] = s}

----------------------------------------------------------------------------
(* Reports and progress bar.                                               *)

ReportTypes ==
    /\ next \in [Slaves -> Nat]
    /\ reports \in [Threads -> Nat]
    /\ files_cnt \in [Slaves -> Nat]
    /\ files_cnt_goal \in [Slaves -> Nat]
    /\ shown \in [length: Int, filesize: Int, done: Nat]

\* Every file taken from the loop is counted or its report is under way.
Reports(s) ==
    /\ next[s] \in 1..(Len(files[s]) + 1)
    /\ next[s] = 1 + files_cnt[s] + SumOver(reports, Own(s))

\* What the progress bar shows is what it has counted.
BarInv ==
    /\ prog \in {"start", "gather"} =>
          /\ files_cnt = [s \in Slaves |-> 0]
          /\ shown = [length |-> 0, filesize |-> 0, done |-> 0]
    /\ prog \in {"recv", "join"} => files_cnt_goal = [s \in Slaves |-> Len(files[s])]
    /\ prog = "join" => files_cnt = files_cnt_goal
    /\ prog \in {"recv", "join"} /\ BarType # "none" =>
          /\ shown.length = LineLength(files_cnt, files_cnt_goal)
          /\ shown.done = IF Sum(files_cnt) = Sum(files_cnt_goal) THEN 1 ELSE 0
    /\ shown.filesize = shown.length

ReportInv == ReportTypes /\ (\A s \in Slaves : Reports(s)) /\ BarInv

----------------------------------------------------------------------------
(* Metadata.                                                               *)

Counting == {"idle", "for", "report"}

MetaTypes ==
    /\ metadata_summ \in [Slaves -> [Counters -> Nat]]
    /\ private \in [Threads -> [Counters -> Nat]]

\* What a thread has counted and not yet shared.
Held(k) == [t \in Threads |-> IF tpc[t] \in Counting THEN private[t][k] ELSE 0]

\* The first n files of a slave that can be opened, and a counter of each.
Opened(s, n) == {i \in 1..n : files[s][i].opens}

Info(s, k) == [i \in 1..Len(files[s]) |-> files[s][i].info[k]]

\* The shared and the private counters together count the files taken from the
\* loop, and a thread leaves the loop when they are all taken.
Counted(s) ==
    /\ \A k \in Counters :
          metadata_summ[s][k] + SumOver(Held(k), Own(s))
             = SumOver(Info(s, k), Opened(s, next[s] - 1))
    /\ \A t \in Own(s) : tpc[t] = "idle" => private[t] = NoMetadata
    /\ \A t \in Own(s) : tpc[t] \notin Counting => next[s] = Len(files[s]) + 1

MetaInv == MetaTypes /\ (\A s \in Slaves : Counted(s)) /\ SummaryComplete

----------------------------------------------------------------------------
(* Messages.                                                               *)

Announced == {t \in Threads : t[2] <= num_threads_used[t[1]]}

Rounds == IF mode = "meta" THEN 0 ELSE IF mode = "tput" THEN 3 ELSE 1

\* The messages a thread has sent, and those of them the master has received.
Sent(t) ==
    CASE tpc[t] \in Counting -> 0
      [] tpc[t] \in {"sent", "single1", "bcast1", "barrier1"} -> 1
      [] tpc[t] \in {"single2", "bcast2", "bcast3", "barrier2"} -> 2
      [] tpc[t] = "barrier3" -> 3
      [] OTHER -> Rounds

Got(t) == Sent(t) - IF box[t] THEN 1 ELSE 0

\* The round the master is in.
Round ==
    CASE main \in {"recv1", "bcast1"} -> 1
      [] main \in {"recv2", "bcast2", "bcast3"} -> 2
      [] OTHER -> 3

Waiting(r) == {t \in Announced : Got(t) < r}

MessageTypes ==
    /\ box \in [Threads -> BOOLEAN]
    /\ slave_threads_cnt \in Nat
    /\ awaited \in Nat

RoundLabels == {"recv1", "bcast1", "recv2", "bcast2", "bcast3", "recv3"}

\* The master waits for exactly the announced threads that it has not heard in
\* this round.
Heard ==
    /\ \A t \in Threads : Got(t) >= 0 /\ (mode = "meta" => tpc[t] # "sent")
    /\ main \in {"start", "threads"} => \A t \in Threads : Got(t) = 0
    /\ main \notin {"start", "threads"} =>
          /\ \A s \in Slaves : spc[s] \notin {"start", "gather"}
          /\ slave_threads_cnt = Cardinality(Announced)
    /\ main \in RoundLabels =>
          /\ mode # "meta"
          /\ awaited = Cardinality(Waiting(Round))
          /\ \A t \in Announced : Got(t) \in {Round - 1, Round}
          /\ main \in {"bcast1", "bcast2", "bcast3"} => awaited = 0
    /\ main = "join" => \A t \in Announced : Got(t) = Rounds

\* A broadcast that has returned on a slave was called by the master.
Followed(s) ==
    mode = "tput" =>
        /\ singles[s] # 0 /\ ~InBcast(s, "bcast1") =>
              main \in {"bcast1", "recv2", "bcast2", "bcast3", "recv3", "join"}
        /\ singles[s] = 2 /\ ~InBcast(s, "bcast2") /\ ~InBcast(s, "bcast3") =>
              main \in {"bcast3", "recv3", "join"}

MessageInv == MessageTypes /\ Heard /\ \A s \in Slaves : Followed(s)

----------------------------------------------------------------------------
(* Sums over slaves and threads.                                           *)

\* There are finitely many slaves and threads.
LEMMA ThreadsFinite ==
    /\ IsFiniteSet(Slaves) /\ IsFiniteSet(Threads)
    /\ \A s \in Slaves : IsFiniteSet(Own(s)) /\ Own(s) \subseteq Threads
<1>1. IsFiniteSet(Slaves) /\ \A s \in Slaves : MaxThreads[s] \in Nat
  BY QueryAssumption
<1>2. Threads = Pairs(MaxThreads, Slaves)
  BY DEF Threads, Pairs
<1>3. IsFiniteSet(Threads)
  BY <1>1, <1>2, PairsCount
<1>4. ASSUME NEW s \in Slaves PROVE IsFiniteSet(Own(s)) /\ Own(s) \subseteq Threads
  <2>1. Own(s) \in SUBSET Threads
    BY DEF Own
  <2> QED
    BY <1>3, <2>1, FS_Subset
<1> QED
  BY <1>1, <1>3, <1>4

\* The sum of a function is the sum over its domain.
LEMMA SumIsOver == ASSUME NEW f PROVE Sum(f) = SumOver(f, DOMAIN f)
  BY DEF Sum, SumOver

\* The sum of a function on the slaves.
LEMMA SlaveSum ==
    ASSUME NEW f \in [Slaves -> Int]
    PROVE  Sum(f) = SumOver(f, Slaves) /\ Sum(f) \in Int
<1>1. DOMAIN f = Slaves
  OBVIOUS
<1>2. Sum(f) = SumOver(f, Slaves)
  BY <1>1, SumIsOver
<1>3. IsFiniteSet(Slaves) /\ \A s \in Slaves : f[s] \in Int
  BY ThreadsFinite
<1>4. SumOver(f, Slaves) \in Int
  BY <1>3, SumType
<1> QED
  BY <1>2, <1>4

\* Sums on the slaves are monotonic, and equal only when all terms are.
LEMMA SlaveSumLeq ==
    ASSUME NEW f \in [Slaves -> Int], NEW g \in [Slaves -> Int], \A s \in Slaves : f[s] <= g[s]
    PROVE  Sum(f) <= Sum(g) /\ (Sum(f) = Sum(g) => f = g)
<1>1. IsFiniteSet(Slaves) /\ \A s \in Slaves : f[s] \in Int /\ g[s] \in Int /\ f[s] <= g[s]
  BY ThreadsFinite
<1>2. /\ SumOver(f, Slaves) <= SumOver(g, Slaves)
      /\ SumOver(f, Slaves) = SumOver(g, Slaves) => \A s \in Slaves : f[s] = g[s]
  BY <1>1, SumLeq
<1>3. Sum(f) = SumOver(f, Slaves) /\ Sum(g) = SumOver(g, Slaves)
  BY SlaveSum
<1> QED
  BY <1>2, <1>3

----------------------------------------------------------------------------
(* The length of the progress bar.                                         *)

\* A product is monotonic in its second factor.
LEMMA TimesMonotone ==
    ASSUME NEW g \in Nat, NEW p \in Nat, NEW q \in Nat, p < q
    PROVE  g * q >= g * p + g
<1>1. PICK d \in Nat : q = p + 1 + d
  <2>1. q - p - 1 \in Nat /\ q = p + 1 + (q - p - 1)
    OBVIOUS
  <2> QED
    BY <2>1
<1>2. g * q = g * p + g + g * d
  BY <1>1
<1>3. g * d \in Nat /\ g * p \in Nat
  OBVIOUS
<1> QED
  BY <1>2, <1>3

\* What integer division is.
LEMMA DivIs ==
    ASSUME NEW a \in Nat, NEW g \in Nat \ {0}
    PROVE  a \div g \in Nat /\ g * (a \div g) <= a /\ a < g * (a \div g) + g
  OBVIOUS

\* Integer division is monotonic.
LEMMA DivMonotone ==
    ASSUME NEW a \in Nat, NEW b \in Nat, NEW g \in Nat \ {0}, a <= b
    PROVE  a \div g <= b \div g
<1>1. PICK q \in Nat : q = a \div g /\ g * q <= a
  BY DivIs
<1>2. PICK p \in Nat : p = b \div g /\ b < g * p + g
  BY DivIs
<1>3. ASSUME p < q PROVE FALSE
  <2>1. g * q >= g * p + g
    BY <1>3, TimesMonotone
  <2>2. g * q \in Nat /\ g * p \in Nat
    OBVIOUS
  <2> QED
    BY <1>1, <1>2, <2>1, <2>2
<1> QED
  BY <1>1, <1>2, <1>3

\* More files make no part of the line shorter.
LEMMA FmtMonotone ==
    ASSUME NEW c \in Nat, NEW d \in Nat, NEW g \in Nat, c <= d
    PROVE  /\ Digits(Percentage(c, g)) \in Nat /\ FmtLength(c, g) \in Nat
           /\ Digits(Percentage(c, g)) <= Digits(Percentage(d, g))
           /\ FmtLength(c, g) <= FmtLength(d, g)
<1>1. \A x, y \in Nat : x <= y => Digits(x) \in Nat /\ Digits(x) <= Digits(y)
  BY DEF Digits
<1>2. Percentage(c, g) \in Nat /\ Percentage(d, g) \in Nat /\ Percentage(c, g) <= Percentage(d, g)
  <2>1. CASE g = 0
    BY <2>1 DEF Percentage
  <2>2. CASE g # 0
    <3>1. PICK a \in Nat, b \in Nat : a = 100 * c /\ b = 100 * d /\ a <= b
      OBVIOUS
    <3>2. a \div g \in Nat /\ b \div g \in Nat /\ a \div g <= b \div g
      BY <2>2, <3>1, DivIs, DivMonotone
    <3> QED
      BY <2>2, <3>1, <3>2 DEF Percentage
  <2> QED
    BY <2>1, <2>2
<1>3. PICK x \in Nat, y \in Nat : x = Percentage(c, g) /\ y = Percentage(d, g) /\ x <= y
  BY <1>2
<1>4. Digits(x) \in Nat /\ Digits(y) \in Nat /\ Digits(x) <= Digits(y)
  BY <1>1, <1>3
<1>5. Digits(c) \in Nat /\ Digits(d) \in Nat /\ Digits(c) <= Digits(d) /\ Digits(g) \in Nat
  BY <1>1
<1> QED
  BY <1>3, <1>4, <1>5 DEF FmtLength

\* The types of a progress bar.
LEMMA BarTypes ==
    ASSUME query \in Query
    PROVE  BarType \in {"none", "total", "perslave", "json"}
  BY DEF BarType, Query

\* The line never gets shorter.
LEMMA LineMonotone ==
    ASSUME query \in Query, BarType # "none",
           NEW c \in [Slaves -> Nat], NEW d \in [Slaves -> Nat], NEW g \in [Slaves -> Nat],
           \A s \in Slaves : c[s] <= d[s]
    PROVE  /\ LineLength(c, g) \in Nat /\ LineLength(d, g) \in Nat
           /\ LineLength(c, g) <= LineLength(d, g)
<1>1. BarType \in {"total", "perslave", "json"}
  BY BarTypes
<1> DEFINE F(x) == [s \in Slaves |-> FmtLength(x[s], g[s])]
           D(x) == [s \in Slaves |-> Digits(Percentage(x[s], g[s]))]
<1>2. ASSUME NEW x \in [Slaves -> Nat]
      PROVE  Sum(x) \in Nat
  <2>1. IsFiniteSet(Slaves) /\ \A s \in Slaves : x[s] \in Nat
    BY ThreadsFinite
  <2>2. SumOver(x, Slaves) \in Nat
    BY <2>1, SumNat
  <2>3. x \in [Slaves -> Int]
    OBVIOUS
  <2> QED
    BY <2>2, <2>3, SlaveSum
<1>3. Sum(c) \in Nat /\ Sum(d) \in Nat /\ Sum(g) \in Nat
  BY <1>2
<1>4. Sum(c) <= Sum(d)
  <2>1. c \in [Slaves -> Int] /\ d \in [Slaves -> Int]
    OBVIOUS
  <2> QED
    BY <2>1, SlaveSumLeq
<1>5. PICK tc \in Nat, td \in Nat, tg \in Nat : tc = Sum(c) /\ td = Sum(d) /\ tg = Sum(g) /\ tc <= td
  BY <1>3, <1>4
<1>6. /\ Digits(Percentage(tc, tg)) \in Nat /\ FmtLength(tc, tg) \in Nat
      /\ Digits(Percentage(td, tg)) \in Nat /\ FmtLength(td, tg) \in Nat
      /\ Digits(Percentage(tc, tg)) <= Digits(Percentage(td, tg))
      /\ FmtLength(tc, tg) <= FmtLength(td, tg)
  BY <1>5, FmtMonotone
<1>7. F(c) \in [Slaves -> Nat] /\ F(d) \in [Slaves -> Nat] /\ \A s \in Slaves : F(c)[s] <= F(d)[s]
  <2>1. \A s \in Slaves : /\ FmtLength(c[s], g[s]) \in Nat /\ FmtLength(d[s], g[s]) \in Nat
                          /\ FmtLength(c[s], g[s]) <= FmtLength(d[s], g[s])
    <3>1. \A s \in Slaves : c[s] \in Nat /\ d[s] \in Nat /\ g[s] \in Nat /\ c[s] <= d[s]
      OBVIOUS
    <3> QED
      BY <3>1, FmtMonotone
  <2> QED
    BY <2>1
<1>8. D(c) \in [Slaves -> Nat] /\ D(d) \in [Slaves -> Nat] /\ \A s \in Slaves : D(c)[s] <= D(d)[s]
  <2>1. \A s \in Slaves : /\ Digits(Percentage(c[s], g[s])) \in Nat
                          /\ Digits(Percentage(d[s], g[s])) \in Nat
                          /\ Digits(Percentage(c[s], g[s])) <= Digits(Percentage(d[s], g[s]))
    <3>1. \A s \in Slaves : c[s] \in Nat /\ d[s] \in Nat /\ g[s] \in Nat /\ c[s] <= d[s]
      OBVIOUS
    <3> QED
      BY <3>1, FmtMonotone
  <2> QED
    BY <2>1
<1>9. ASSUME NEW x
      PROVE  /\ BarType = "total" => LineLength(x, g) = FmtLength(Sum(x), Sum(g))
             /\ BarType = "perslave" => LineLength(x, g) = FmtLength(Sum(x), Sum(g)) + Sum(F(x))
             /\ BarType = "json" => LineLength(x, g) = Digits(Percentage(Sum(x), Sum(g))) + Sum(D(x))
  BY DEF LineLength
<1> HIDE DEF F, D
<1>10. Sum(F(c)) \in Nat /\ Sum(F(d)) \in Nat /\ Sum(F(c)) <= Sum(F(d))
  <2>1. PICK a \in [Slaves -> Nat], b \in [Slaves -> Nat] : a = F(c) /\ b = F(d)
    BY <1>7
  <2>2. \A s \in Slaves : a[s] <= b[s]
    BY <1>7, <2>1
  <2>3. Sum(a) <= Sum(b)
    <3>1. a \in [Slaves -> Int] /\ b \in [Slaves -> Int]
      OBVIOUS
    <3> QED
      BY <2>2, <3>1, SlaveSumLeq
  <2>4. Sum(a) \in Nat /\ Sum(b) \in Nat
    BY <1>2
  <2> QED
    BY <2>1, <2>3, <2>4
<1>11. Sum(D(c)) \in Nat /\ Sum(D(d)) \in Nat /\ Sum(D(c)) <= Sum(D(d))
  <2>1. PICK a \in [Slaves -> Nat], b \in [Slaves -> Nat] : a = D(c) /\ b = D(d)
    BY <1>8
  <2>2. \A s \in Slaves : a[s] <= b[s]
    BY <1>8, <2>1
  <2>3. Sum(a) <= Sum(b)
    <3>1. a \in [Slaves -> Int] /\ b \in [Slaves -> Int]
      OBVIOUS
    <3> QED
      BY <2>2, <3>1, SlaveSumLeq
  <2>4. Sum(a) \in Nat /\ Sum(b) \in Nat
    BY <1>2
  <2> QED
    BY <2>1, <2>3, <2>4
<1>12. CASE BarType = "total"
  BY <1>5, <1>6, <1>9, <1>12
<1>13. CASE BarType = "perslave"
  BY <1>5, <1>6, <1>9, <1>10, <1>13
<1>14. CASE BarType = "json"
  BY <1>5, <1>6, <1>9, <1>11, <1>14
<1> QED
  BY <1>1, <1>12, <1>13, <1>14


----------------------------------------------------------------------------
(* The reports are counted.                                                *)

\* One thread changes its term of the sum of its slave, and of no other.
LEMMA OwnSum ==
    ASSUME NEW f, NEW g, NEW t \in Threads,
           \A u \in Threads : f[u] \in Int /\ g[u] \in Int /\ (u # t => g[u] = f[u])
    PROVE  \A s \in Slaves :
              /\ SumOver(f, Own(s)) \in Int
              /\ t[1] = s => SumOver(g, Own(s)) = SumOver(f, Own(s)) + g[t] - f[t]
              /\ t[1] # s => SumOver(g, Own(s)) = SumOver(f, Own(s))
<1> SUFFICES ASSUME NEW s \in Slaves
             PROVE  /\ SumOver(f, Own(s)) \in Int
                    /\ t[1] = s => SumOver(g, Own(s)) = SumOver(f, Own(s)) + g[t] - f[t]
                    /\ t[1] # s => SumOver(g, Own(s)) = SumOver(f, Own(s))
  OBVIOUS
<1>1. PICK S : S = Own(s)
  OBVIOUS
<1>2. IsFiniteSet(S) /\ S \subseteq Threads
  BY <1>1, ThreadsFinite
<1>3. SumOver(f, S) \in Int /\ SumOver(g, S) \in Int
  BY <1>2, SumType
<1>4. CASE t[1] = s
  <2>1. t \in S
    BY <1>1, <1>4 DEF Own
  <2>2. SumOver(g, S) - SumOver(f, S) = g[t] - f[t]
    BY <1>2, <2>1, SumUpdate
  <2> QED
    BY <1>1, <1>3, <1>4, <2>2
<1>5. CASE t[1] # s
  <2>1. t \notin S
    BY <1>1, <1>5 DEF Own
  <2>2. SumOver(f, S) = SumOver(g, S)
    BY <1>2, <2>1, SumEqual
  <2> QED
    BY <1>1, <1>3, <1>5, <2>2
<1> QED
  BY <1>4, <1>5

\* The files of a slave.
LEMMA FilesAre ==
    ASSUME query \in Query, NEW s \in Slaves
    PROVE  files[s] \in Seq(FlowFile) /\ Len(files[s]) \in Nat
<1>1. files[s] \in Seq(FlowFile)
  BY DEF files, Query
<1> QED
  BY <1>1

\* The initial states satisfy the invariant.
LEMMA ReportInit == Init => ReportInv
<1> SUFFICES ASSUME Init PROVE ReportInv
  OBVIOUS
<1>1. ReportTypes
  BY DEF Init, ReportTypes
<1>2. ASSUME NEW s \in Slaves PROVE Reports(s)
  <2>1. query \in Query
    BY QueryAssumption DEF Init
  <2>2. Len(files[s]) \in Nat
    BY <2>1, FilesAre
  <2>3. PICK S : S = Own(s) /\ IsFiniteSet(S) /\ S \subseteq Threads
    BY ThreadsFinite
  <2>4. \A t \in S : reports[t] = 0
    BY <2>3 DEF Init
  <2>5. SumOver(reports, S) = 0
    BY <2>3, <2>4, SumZero
  <2>6. next[s] = 1 /\ files_cnt[s] = 0
    BY DEF Init
  <2> QED
    BY <2>2, <2>3, <2>5, <2>6 DEF Reports
<1>3. BarInv
  BY DEF Init, BarInv
<1> QED
  BY <1>1, <1>2, <1>3 DEF ReportInv

\* Who touches the reports and the progress bar.
LEMMA ReportSteps ==
    ASSUME [Next]_vars
    PROVE  /\ query' = query
           /\ \/ UNCHANGED <<next, reports, files_cnt, files_cnt_goal, shown, prog>>
              \/ \E t \in Threads : ProcessFile(t)
              \/ ProgStep
<1>1. ASSUME NEW p \in Processes, ProcStep(p)
      PROVE  UNCHANGED <<query, next, reports, files_cnt, files_cnt_goal, shown, prog>>
  BY <1>1 DEF ProcStep, ParseArgs, CommInit, Split, CommFree, CommFreeProgress, Finalize, Exit,
    slaveVars, threadVars, masterVars, progVars
<1>2. ASSUME NEW s \in Slaves, SlaveStep(s)
      PROVE  UNCHANGED <<query, next, reports, files_cnt, files_cnt_goal, shown, prog>>
  BY <1>2 DEF SlaveStep, SlaveGather, SlaveThreads, Fork, Join, SlaveMetadata, SlaveEnd, outerVars,
    threadVars, masterVars, progVars
<1>3. ASSUME NEW t \in Threads, ThreadStep(t), ~ProcessFile(t)
      PROVE  UNCHANGED <<query, next, reports, files_cnt, files_cnt_goal, shown, prog>>
  BY <1>3 DEF ThreadStep, Reported, Share, SentAll, EnterSingle, Broadcast,
    LeaveSingle, LeaveTput, outerVars, slaveVars, masterVars, progVars
<1>4. ASSUME MainStep
      PROVE  UNCHANGED <<query, next, reports, files_cnt, files_cnt_goal, shown, prog>>
  BY <1>4 DEF MainStep, MainStart, MainMode, MainBroadcast, MainBroadcast2, MainNextRound,
    MainEnd, MainReceive, outerVars, slaveVars, threadVars, progVars
<1>5. ASSUME MasterStep
      PROVE  UNCHANGED <<query, next, reports, files_cnt, files_cnt_goal, shown, prog>>
  BY <1>5 DEF MasterStep, MasterJoin, MasterMetadata, MasterEnd, outerVars, slaveVars, threadVars,
    progVars
<1>6. ASSUME Finished \/ UNCHANGED vars
      PROVE  UNCHANGED <<query, next, reports, files_cnt, files_cnt_goal, shown, prog>>
  BY <1>6 DEF Finished, vars, outerVars, slaveVars, threadVars, masterVars, progVars
<1>7. query' = query
  BY StepKinds
<1> QED
  BY <1>1, <1>2, <1>3, <1>4, <1>5, <1>6, <1>7 DEF Next

\* A file is taken from the loop and reported.
LEMMA ReportFile ==
    ASSUME ReportInv, query \in Query, query' = query, NEW t \in Threads, ProcessFile(t)
    PROVE  ReportInv'
<1>0. ReportTypes /\ BarInv /\ \A s \in Slaves : Reports(s)
  BY DEF ReportInv
<1>1. PICK s \in Slaves : s = t[1]
  BY ThreadOf
<1>2. /\ next[s] <= Len(files[s])
      /\ next' = [next EXCEPT ![s] = next[s] + 1]
      /\ reports' = [reports EXCEPT ![t] = reports[t] + 1]
      /\ UNCHANGED <<files_cnt, files_cnt_goal, shown, prog>>
  BY <1>1 DEF ProcessFile, masterVars, progVars
<1>3. /\ next' \in [Slaves -> Nat] /\ reports' \in [Threads -> Nat]
      /\ next'[s] = next[s] + 1 /\ \A r \in Slaves : r # s => next'[r] = next[r]
      /\ reports'[t] = reports[t] + 1
  BY <1>0, <1>2 DEF ReportTypes
<1>4. \A u \in Threads : reports[u] \in Int /\ reports'[u] \in Int /\ (u # t => reports'[u] = reports[u])
  BY <1>0, <1>2, <1>3 DEF ReportTypes
<1>5. \A r \in Slaves :
         /\ SumOver(reports, Own(r)) \in Int
         /\ t[1] = r => SumOver(reports', Own(r)) = SumOver(reports, Own(r)) + reports'[t] - reports[t]
         /\ t[1] # r => SumOver(reports', Own(r)) = SumOver(reports, Own(r))
  BY <1>4, OwnSum
<1>6. ReportTypes'
  BY <1>0, <1>2, <1>3 DEF ReportTypes
<1>7. BarInv'
  BY <1>0, <1>2 DEF BarInv, BarType, LineLength, files
<1>8. files' = files
  BY DEF files
<1>9. ASSUME NEW r \in Slaves PROVE Reports(r)'
  <2>1. /\ next[r] \in Nat /\ files_cnt[r] \in Nat /\ files_cnt'[r] = files_cnt[r]
        /\ Len(files[r]) \in Nat /\ reports[t] \in Nat
    BY <1>0, <1>2, FilesAre DEF ReportTypes
  <2>2. PICK a \in Int, b \in Int : /\ a = SumOver(reports, Own(r)) /\ b = SumOver(reports', Own(r))
                                    /\ r = s => b = a + 1
                                    /\ r # s => b = a
    <3>1. CASE r = s
      BY <1>1, <1>3, <1>5, <2>1, <3>1
    <3>2. CASE r # s
      BY <1>1, <1>5, <3>2
    <3> QED
      BY <3>1, <3>2
  <2>3. next[r] \in 1..(Len(files[r]) + 1) /\ next[r] = 1 + files_cnt[r] + a
    BY <1>0, <2>2 DEF Reports
  <2>4. next'[r] \in 1..(Len(files[r]) + 1) /\ next'[r] = 1 + files_cnt[r] + b
    <3>1. CASE r = s
      <4>1. next[r] <= Len(files[r]) /\ next'[r] = next[r] + 1 /\ b = a + 1
        BY <1>2, <1>3, <2>2, <3>1
      <4>2. next[r] >= 1
        BY <2>1, <2>3
      <4> QED
        BY <2>1, <2>3, <4>1, <4>2
    <3>2. CASE r # s
      BY <1>3, <2>1, <2>2, <2>3, <3>2
    <3> QED
      BY <3>1, <3>2
  <2> QED
    BY <1>8, <2>1, <2>2, <2>4 DEF Reports, Own
<1> QED
  BY <1>6, <1>7, <1>9 DEF ReportInv


\* The bar prints a line that is no shorter than the one before.
LEMMA BarPrinted ==
    ASSUME shown \in [length: Int, filesize: Int, done: Nat], NEW c, NEW g,
           BarType # "none" => LineLength(c, g) \in Int /\ shown.filesize <= LineLength(c, g),
           shown.filesize = shown.length, ProgressBarPrint(c, g)
    PROVE  /\ shown' \in [length: Int, filesize: Int, done: Nat]
           /\ shown'.filesize = shown'.length
           /\ BarType # "none" =>
                 /\ shown'.length = LineLength(c, g)
                 /\ shown'.done = shown.done + IF Sum(c) = Sum(g) THEN 1 ELSE 0
<1>1. CASE BarType = "none"
  BY <1>1 DEF ProgressBarPrint
<1>2. CASE BarType # "none"
  <2>1. PICK a \in Int, b \in Int : a = shown.filesize /\ b = LineLength(c, g) /\ a <= b
    BY <1>2
  <2>2. Max({a, b}) = b
    <3>1. Max({a, b}) \in {a, b} /\ Max({a, b}) >= b
      BY MaxPair
    <3> QED
      BY <2>1, <3>1
  <2>3. PICK d \in Nat : d = shown.done + IF Sum(c) = Sum(g) THEN 1 ELSE 0
    <3>1. shown.done \in Nat
      OBVIOUS
    <3> QED
      BY <3>1
  <2>4. shown' = [length |-> b, filesize |-> b, done |-> d]
    BY <1>2, <2>1, <2>2, <2>3 DEF ProgressBarPrint
  <2> QED
    BY <2>1, <2>3, <2>4
<1> QED
  BY <1>1, <1>2

\* What the bar is about depends on the query only.
LEMMA BarFixed ==
    ASSUME query' = query
    PROVE  /\ BarType' = BarType /\ files' = files
           /\ LineLength(files_cnt, files_cnt_goal)' = LineLength(files_cnt', files_cnt_goal')
  BY DEF BarType, LineLength, files

\* The progress thread of the master.
LEMMA ReportProg ==
    ASSUME ReportInv, query \in Query, query' = query, ProgStep
    PROVE  ReportInv'
<1>0. ReportTypes /\ BarInv /\ \A s \in Slaves : Reports(s)
  BY DEF ReportInv
<1>1. /\ BarType' = BarType /\ files' = files
      /\ LineLength(files_cnt, files_cnt_goal)' = LineLength(files_cnt', files_cnt_goal')
  BY BarFixed
<1>2. ASSUME NEW r \in Slaves PROVE Len(files[r]) \in Nat
  BY FilesAre
<1>3. ASSUME UNCHANGED <<next, reports, files_cnt>> PROVE \A s \in Slaves : Reports(s)'
  BY <1>0, <1>1, <1>3 DEF Reports, Own
<1>4. CASE ProgStart
  <2>1. prog' = "gather" /\ prog = "start"
        /\ UNCHANGED <<next, reports, files_cnt, files_cnt_goal, shown>>
    BY <1>4 DEF ProgStart, slaveVars, threadVars
  <2>2. ReportTypes'
    BY <1>0, <2>1 DEF ReportTypes
  <2>3. BarInv'
    BY <1>0, <2>1 DEF BarInv
  <2> QED
    BY <1>3, <2>1, <2>2, <2>3 DEF ReportInv
<1>5. CASE ProgGoals
  <2>1. prog = "gather" /\ prog' = "recv" /\ UNCHANGED <<next, reports, files_cnt>>
        /\ files_cnt_goal' = [s \in Slaves |-> Len(files[s])]
        /\ ProgressBarPrint(files_cnt, files_cnt_goal')
    BY <1>5 DEF ProgGoals, slaveVars, threadVars
  <2>2. files_cnt_goal' \in [Slaves -> Nat] /\ files_cnt \in [Slaves -> Nat]
    BY <1>0, <1>2, <2>1 DEF ReportTypes
  <2>3. shown.length = 0 /\ shown.filesize = 0 /\ shown.done = 0
        /\ shown \in [length: Int, filesize: Int, done: Nat]
    BY <1>0, <2>1 DEF BarInv, ReportTypes
  <2>4. PICK c \in [Slaves -> Nat], g \in [Slaves -> Nat] : c = files_cnt /\ g = files_cnt_goal'
    BY <2>2
  <2>5. BarType # "none" => LineLength(c, g) \in Int /\ shown.filesize <= LineLength(c, g)
    <3>1. \A s \in Slaves : c[s] <= c[s]
      OBVIOUS
    <3> QED
      BY <2>3, <3>1, LineMonotone
  <2>6. /\ shown' \in [length: Int, filesize: Int, done: Nat]
        /\ shown'.filesize = shown'.length
        /\ BarType # "none" =>
              /\ shown'.length = LineLength(c, g)
              /\ shown'.done = shown.done + IF Sum(c) = Sum(g) THEN 1 ELSE 0
    BY <2>1, <2>3, <2>4, <2>5, BarPrinted
  <2>7. ReportTypes'
    BY <1>0, <2>1, <2>2, <2>6 DEF ReportTypes
  <2>8. BarType' # "none" =>
           /\ shown'.length = LineLength(files_cnt', files_cnt_goal')
           /\ shown'.done = IF Sum(files_cnt') = Sum(files_cnt_goal') THEN 1 ELSE 0
    BY <1>1, <2>1, <2>3, <2>4, <2>6
  <2>9. BarInv'
    BY <1>1, <2>1, <2>6, <2>8 DEF BarInv
  <2> QED
    BY <1>3, <2>1, <2>7, <2>9 DEF ReportInv
<1>6. ASSUME NEW t \in Threads, ProgReceive(t) PROVE ReportInv'
  <2>1. PICK s \in Slaves : s = t[1]
    BY ThreadOf
  <2>2. /\ prog = "recv" /\ prog' = "recv" /\ ProgExpects /\ reports[t] > 0
        /\ reports' = [reports EXCEPT ![t] = reports[t] - 1]
        /\ files_cnt' = [files_cnt EXCEPT ![s] = files_cnt[s] + 1]
        /\ ProgressBarPrint(files_cnt', files_cnt_goal)
        /\ UNCHANGED <<next, files_cnt_goal>>
    BY <1>6, <2>1 DEF ProgReceive, slaveVars
  <2>3. /\ reports' \in [Threads -> Nat] /\ reports'[t] = reports[t] - 1
        /\ files_cnt' \in [Slaves -> Nat] /\ files_cnt'[s] = files_cnt[s] + 1
        /\ \A r \in Slaves : r # s => files_cnt'[r] = files_cnt[r]
    BY <1>0, <2>2 DEF ReportTypes
  <2>4. \A u \in Threads : reports[u] \in Int /\ reports'[u] \in Int /\ (u # t => reports'[u] = reports[u])
    BY <1>0, <2>2, <2>3 DEF ReportTypes
  <2>5. \A r \in Slaves :
           /\ SumOver(reports, Own(r)) \in Int
           /\ t[1] = r => SumOver(reports', Own(r)) = SumOver(reports, Own(r)) + reports'[t] - reports[t]
           /\ t[1] # r => SumOver(reports', Own(r)) = SumOver(reports, Own(r))
    BY <2>4, OwnSum
  <2>6. ASSUME NEW r \in Slaves PROVE Reports(r)'
    <3>1. /\ next[r] \in Nat /\ files_cnt[r] \in Nat /\ next'[r] = next[r]
          /\ reports[t] \in Nat
      BY <1>0, <2>2 DEF ReportTypes
    <3>2. PICK a \in Int : a = SumOver(reports, Own(r))
      BY <2>5
    <3>3. next[r] \in 1..(Len(files[r]) + 1) /\ next[r] = 1 + files_cnt[r] + a
      BY <1>0, <3>2 DEF Reports
    <3>4. next'[r] = 1 + files_cnt'[r] + SumOver(reports', Own(r))
      <4>1. CASE r = s
        <5>1. SumOver(reports', Own(r)) = a + reports'[t] - reports[t]
          BY <2>1, <2>5, <3>2, <4>1
        <5>2. SumOver(reports', Own(r)) = a - 1
          BY <2>3, <3>1, <5>1
        <5>3. files_cnt'[r] = files_cnt[r] + 1
          BY <2>3, <4>1
        <5> QED
          BY <3>1, <3>3, <5>2, <5>3
      <4>2. CASE r # s
        BY <2>1, <2>3, <2>5, <3>1, <3>2, <3>3, <4>2
      <4> QED
        BY <4>1, <4>2
    <3> QED
      BY <1>1, <3>1, <3>3, <3>4 DEF Reports, Own
  <2>7. files_cnt \in [Slaves -> Nat] /\ files_cnt_goal \in [Slaves -> Nat]
        /\ shown \in [length: Int, filesize: Int, done: Nat] /\ shown.filesize = shown.length
    BY <1>0 DEF ReportTypes, BarInv
  <2>8. PICK c \in [Slaves -> Nat], d \in [Slaves -> Nat], g \in [Slaves -> Nat] :
           c = files_cnt /\ d = files_cnt' /\ g = files_cnt_goal
    BY <2>3, <2>7
  <2>9. \A r \in Slaves : c[r] <= d[r]
    <3>1. \A r \in Slaves : files_cnt[r] \in Nat
      BY <2>7
    <3> QED
      BY <2>3, <2>8, <3>1
  <2>10. BarType # "none" => LineLength(d, g) \in Int /\ shown.filesize <= LineLength(d, g)
    <3>1. ASSUME BarType # "none"
          PROVE  LineLength(c, g) \in Nat /\ LineLength(d, g) \in Nat
                 /\ LineLength(c, g) <= LineLength(d, g)
      BY <2>9, <3>1, LineMonotone
    <3>2. BarType # "none" => shown.length = LineLength(c, g)
      BY <1>0, <2>2, <2>8 DEF BarInv
    <3> QED
      BY <2>7, <3>1, <3>2
  <2>11. /\ shown' \in [length: Int, filesize: Int, done: Nat]
         /\ shown'.filesize = shown'.length
         /\ BarType # "none" =>
               /\ shown'.length = LineLength(d, g)
               /\ shown'.done = shown.done + IF Sum(d) = Sum(g) THEN 1 ELSE 0
    BY <2>2, <2>7, <2>8, <2>10, BarPrinted
  <2>12. BarType # "none" => shown.done = 0
    <3>1. Sum(c) < Sum(g) /\ Sum(c) \in Int /\ Sum(g) \in Int
      <4>1. c \in [Slaves -> Int] /\ g \in [Slaves -> Int]
        OBVIOUS
      <4> QED
        BY <2>2, <2>8, <4>1, SlaveSum DEF ProgExpects
    <3>2. Sum(c) # Sum(g)
      BY <3>1
    <3> QED
      BY <1>0, <2>2, <2>8, <3>2 DEF BarInv
  <2>13. BarType' # "none" =>
            /\ shown'.length = LineLength(files_cnt', files_cnt_goal')
            /\ shown'.done = IF Sum(files_cnt') = Sum(files_cnt_goal') THEN 1 ELSE 0
    BY <1>1, <2>2, <2>8, <2>11, <2>12
  <2>14. files_cnt_goal' = [r \in Slaves |-> Len(files'[r])]
    BY <1>0, <1>1, <2>2 DEF BarInv
  <2>15. BarInv'
    BY <1>1, <2>2, <2>11, <2>13, <2>14 DEF BarInv
  <2>16. ReportTypes'
    BY <1>0, <2>2, <2>3, <2>11 DEF ReportTypes
  <2> QED
    BY <2>6, <2>15, <2>16 DEF ReportInv
<1>7. CASE ProgEnd
  <2>1. prog = "recv" /\ prog' = "join" /\ ~ProgExpects
        /\ UNCHANGED <<next, reports, files_cnt, files_cnt_goal, shown>>
    BY <1>7 DEF ProgEnd, slaveVars, threadVars
  <2>2. ReportTypes'
    BY <1>0, <2>1 DEF ReportTypes
  <2>3. files_cnt \in [Slaves -> Int] /\ files_cnt_goal \in [Slaves -> Int]
    BY <1>0 DEF ReportTypes
  <2>4. \A s \in Slaves : files_cnt[s] <= files_cnt_goal[s]
    <3>1. ASSUME NEW s \in Slaves PROVE files_cnt[s] <= files_cnt_goal[s]
      <4>1. files_cnt_goal[s] = Len(files[s])
        BY <1>0, <2>1 DEF BarInv
      <4>2. PICK S : S = Own(s) /\ IsFiniteSet(S) /\ \A t \in S : reports[t] \in Nat
        BY <1>0, ThreadsFinite DEF ReportTypes
      <4>3. SumOver(reports, S) \in Nat
        BY <4>2, SumNat
      <4>4. files_cnt[s] \in Nat /\ next[s] \in 1..(Len(files[s]) + 1)
            /\ next[s] = 1 + files_cnt[s] + SumOver(reports, S)
        BY <1>0, <4>2 DEF ReportTypes, Reports
      <4> QED
        BY <1>2, <4>1, <4>3, <4>4
    <3> QED
      BY <3>1
  <2>5. Sum(files_cnt) \in Int /\ Sum(files_cnt_goal) \in Int
    BY <2>3, SlaveSum
  <2>6. Sum(files_cnt) <= Sum(files_cnt_goal)
        /\ (Sum(files_cnt) = Sum(files_cnt_goal) => files_cnt = files_cnt_goal)
    BY <2>3, <2>4, SlaveSumLeq
  <2>7. files_cnt = files_cnt_goal
    BY <2>1, <2>5, <2>6 DEF ProgExpects
  <2>8. BarInv'
    BY <1>0, <1>1, <2>1, <2>7 DEF BarInv
  <2> QED
    BY <1>3, <2>1, <2>2, <2>8 DEF ReportInv
<1> QED
  BY <1>4, <1>5, <1>6, <1>7 DEF ProgStep

\* The invariant is inductive.
LEMMA ReportNext == ControlInv /\ ReportInv /\ [Next]_vars => ReportInv'
<1> SUFFICES ASSUME ControlInv, ReportInv, [Next]_vars PROVE ReportInv'
  OBVIOUS
<1>1. query \in Query
  BY ControlParts DEF ControlTypes
<1>2. CASE UNCHANGED <<next, reports, files_cnt, files_cnt_goal, shown, prog>>
  <2>1. query' = query
    BY ReportSteps
  <2>2. /\ BarType' = BarType /\ files' = files
        /\ LineLength(files_cnt, files_cnt_goal)' = LineLength(files_cnt, files_cnt_goal)
    BY <1>2, <2>1, BarFixed
  <2>3. ReportTypes'
    BY <1>2 DEF ReportInv, ReportTypes
  <2>4. \A s \in Slaves : Reports(s)'
    BY <1>2, <2>2 DEF ReportInv, Reports, Own
  <2>5. BarInv'
    BY <1>2, <2>2 DEF ReportInv, BarInv
  <2> QED
    BY <2>3, <2>4, <2>5 DEF ReportInv
<1> QED
  BY <1>1, <1>2, ReportSteps, ReportFile, ReportProg

\* What is counted, is under way and is left of the files add up at all times.
THEOREM ReportsHold == Spec => []ReportInv
<1>1. Init => ReportInv
  BY ReportInit
<1> QED
  BY <1>1, ReportNext, ControlHolds, PTL DEF Spec

\* ProgressExact follows: no more files are counted than were taken.
LEMMA ReportsExact == ControlInv /\ ReportInv => ProgressExact
<1> SUFFICES ASSUME ControlInv, ReportInv PROVE ProgressExact
  OBVIOUS
<1>0. query \in Query /\ ReportTypes /\ BarInv /\ \A s \in Slaves : Reports(s)
  BY ControlParts DEF ReportInv, ControlTypes
<1>1. ASSUME NEW s \in Slaves, prog \in {"recv", "join"} PROVE files_cnt[s] <= files_cnt_goal[s]
  <2>1. files_cnt_goal[s] = Len(files[s]) /\ Len(files[s]) \in Nat
    BY <1>0, <1>1, FilesAre DEF BarInv
  <2>2. PICK S : S = Own(s) /\ IsFiniteSet(S) /\ \A t \in S : reports[t] \in Nat
    BY <1>0, ThreadsFinite DEF ReportTypes
  <2>3. SumOver(reports, S) \in Nat
    BY <2>2, SumNat
  <2>4. files_cnt[s] \in Nat /\ next[s] \in 1..(Len(files[s]) + 1)
        /\ next[s] = 1 + files_cnt[s] + SumOver(reports, S)
    BY <1>0, <2>2 DEF ReportTypes, Reports
  <2> QED
    BY <2>1, <2>3, <2>4
<1>2. ASSUME prog = "join"
      PROVE  files_cnt = files_cnt_goal /\ (BarType # "none" => shown.done = 1)
  BY <1>0, <1>2 DEF BarInv
<1> QED
  BY <1>1, <1>2 DEF ProgressExact

\* ProgressExact, for any slaves, teams and files: the progress bar never counts
\* more files of a slave than announced and ends with exactly these, whatever
\* the order in which the threads of all slaves report.
THEOREM ProgressCounted == Spec => []ProgressExact
  BY ControlHolds, ReportsHold, ReportsExact, PTL

\* NoRemains, for any slaves and files and all types of bar: a line printed to
\* the progress file is never shorter than the one before.
THEOREM NothingRemains == Spec => []NoRemains
<1>1. ReportInv => NoRemains
  BY DEF ReportInv, BarInv, NoRemains
<1> QED
  BY <1>1, ReportsHold, PTL


----------------------------------------------------------------------------
(* The metadata are counted.                                               *)

\* What is known of a file.
LEMMA FileIs ==
    ASSUME query \in Query, NEW s \in Slaves, NEW i \in 1..Len(files[s]), NEW k \in Counters
    PROVE  files[s][i].opens \in BOOLEAN /\ files[s][i].info[k] \in Nat
<1>1. files[s] \in Seq(FlowFile) /\ Len(files[s]) \in Nat
  BY FilesAre
<1>2. files[s][i] \in FlowFile
  BY <1>1
<1> QED
  BY <1>2 DEF FlowFile

\* The terms of the sums.
LEMMA HeldIs ==
    ASSUME MetaTypes, NEW k \in Counters
    PROVE  \A t \in Threads : /\ Held(k)[t] \in Int
                              /\ tpc[t] \in Counting => Held(k)[t] = private[t][k]
                              /\ tpc[t] \notin Counting => Held(k)[t] = 0
<1>1. \A t \in Threads : private[t][k] \in Nat
  BY DEF MetaTypes
<1> QED
  BY <1>1 DEF Held

\* The files that can be opened, one more taken.
LEMMA OpenedNext ==
    ASSUME query \in Query, NEW s \in Slaves, NEW n \in 1..Len(files[s]), NEW k \in Counters
    PROVE  /\ SumOver(Info(s, k), Opened(s, n - 1)) \in Int
           /\ files[s][n].opens =>
                 SumOver(Info(s, k), Opened(s, n))
                    = SumOver(Info(s, k), Opened(s, n - 1)) + files[s][n].info[k]
           /\ ~files[s][n].opens =>
                 SumOver(Info(s, k), Opened(s, n)) = SumOver(Info(s, k), Opened(s, n - 1))
<1>1. Len(files[s]) \in Nat
  BY FilesAre
<1>2. PICK f : f = Info(s, k) /\ \A i \in 1..Len(files[s]) : f[i] \in Int /\ f[i] = files[s][i].info[k]
  <2>1. \A i \in 1..Len(files[s]) : files[s][i].info[k] \in Nat
    BY FileIs
  <2>2. \A i \in 1..Len(files[s]) : Info(s, k)[i] = files[s][i].info[k]
    BY DEF Info
  <2> QED
    BY <2>1, <2>2
<1>3. PICK S : S = Opened(s, n - 1)
  OBVIOUS
<1>4. S \subseteq 1..(n - 1) /\ n \notin S /\ S \cup {n} \subseteq 1..Len(files[s])
  BY <1>1, <1>3 DEF Opened
<1>5. IsFiniteSet(S)
  <2>1. PICK m \in Int : m = n - 1
    BY <1>1
  <2>2. IsFiniteSet(1..m) /\ S \in SUBSET (1..m)
    BY <1>4, <2>1, FS_Interval
  <2> QED
    BY <2>2, FS_Subset
<1>6. SumOver(f, S) \in Int
  BY <1>2, <1>4, <1>5, SumType
<1>7. ASSUME files[s][n].opens PROVE SumOver(f, Opened(s, n)) = SumOver(f, S) + files[s][n].info[k]
  <2>1. Opened(s, n) = S \cup {n}
    BY <1>1, <1>3, <1>7 DEF Opened
  <2>2. SumOver(f, S \cup {n}) = f[n] + SumOver(f, S)
    BY <1>2, <1>4, <1>5, SumExtend
  <2>3. f[n] = files[s][n].info[k] /\ f[n] \in Int
    BY <1>2
  <2> QED
    BY <1>6, <2>1, <2>2, <2>3
<1>8. ASSUME ~files[s][n].opens PROVE Opened(s, n) = S
  BY <1>1, <1>3, <1>8 DEF Opened
<1> QED
  BY <1>2, <1>3, <1>6, <1>7, <1>8

\* The initial states satisfy the invariant.
LEMMA MetaInit == Init => MetaInv
<1> SUFFICES ASSUME Init PROVE MetaInv
  OBVIOUS
<1>1. MetaTypes
  BY DEF Init, MetaTypes, NoMetadata
<1>2. ASSUME NEW s \in Slaves PROVE Counted(s)
  <2>1. ASSUME NEW k \in Counters
        PROVE  metadata_summ[s][k] + SumOver(Held(k), Own(s))
                  = SumOver(Info(s, k), Opened(s, next[s] - 1))
    <3>1. PICK S : S = Own(s) /\ IsFiniteSet(S) /\ S \subseteq Threads
      BY ThreadsFinite
    <3>2. PICK f : f = Held(k)
      OBVIOUS
    <3>3. \A t \in S : f[t] = 0
      BY <3>1, <3>2 DEF Held, Init, NoMetadata
    <3>4. SumOver(f, S) = 0
      BY <3>1, <3>3, SumZero
    <3>5. metadata_summ[s][k] = 0 /\ next[s] - 1 = 0
      BY DEF Init, NoMetadata
    <3>6. Opened(s, 0) = {}
      BY DEF Opened
    <3>7. SumOver(Info(s, k), {}) = 0
      BY SumEmpty
    <3> QED
      BY <3>1, <3>2, <3>4, <3>5, <3>6, <3>7
  <2>2. \A t \in Own(s) : tpc[t] = "idle" /\ private[t] = NoMetadata
    BY DEF Init, Own
  <2> QED
    BY <2>1, <2>2 DEF Counted, Counting
<1>3. SummaryComplete
  BY DEF Init, SummaryComplete
<1> QED
  BY <1>1, <1>2, <1>3 DEF MetaInv

\* Who touches the metadata, and how a thread leaves the loop over files.
LEMMA MetaSteps ==
    ASSUME [Next]_vars
    PROVE  \/ /\ UNCHANGED <<next, metadata_summ, private>>
              /\ \/ tpc' = tpc
                 \/ \E s \in Slaves : Fork(s)
                 \/ \E t \in Threads, l \in ThreadLabels :
                       /\ GoTo(t, l) /\ l # "idle" /\ tpc[t] # "idle"
                       /\ tpc[t] \in Counting <=> l \in Counting
           \/ \E t \in Threads : ProcessFile(t) \/ Share(t)
<1>1. ASSUME NEW p \in Processes, ProcStep(p)
      PROVE  UNCHANGED <<next, metadata_summ, private, tpc>>
  BY <1>1 DEF ProcStep, ParseArgs, CommInit, Split, CommFree, CommFreeProgress, Finalize, Exit,
    slaveVars, threadVars
<1>2. ASSUME NEW s \in Slaves, SlaveStep(s)
      PROVE  UNCHANGED <<next, metadata_summ, private>> /\ (tpc' = tpc \/ Fork(s))
  BY <1>2 DEF SlaveStep, SlaveGather, SlaveThreads, Fork, Join, SlaveMetadata, SlaveEnd, threadVars
<1>3. ASSUME NEW t \in Threads, ThreadStep(t)
      PROVE  \/ /\ UNCHANGED <<next, metadata_summ, private>>
                /\ \E l \in ThreadLabels :
                      /\ GoTo(t, l) /\ l # "idle" /\ tpc[t] # "idle"
                      /\ tpc[t] \in Counting <=> l \in Counting
             \/ ProcessFile(t) \/ Share(t)
  <2>1. CASE Reported(t)
    BY <2>1 DEF Reported, slaveVars, ThreadLabels, Counting
  <2>2. CASE SentAll(t)
    BY <2>2 DEF SentAll, slaveVars, ThreadLabels, Counting
  <2>3. CASE EnterSingle(t)
    <3>1. PICK l \in {"bcast1", "bcast2", "barrier1", "barrier2"} :
             GoTo(t, l) /\ tpc[t] \in {"single1", "single2"} /\ UNCHANGED <<next, metadata_summ, private>>
      BY <2>3 DEF EnterSingle
    <3> QED
      BY <3>1 DEF ThreadLabels, Counting
  <2>4. CASE Broadcast(t)
    <3>1. PICK l \in {"bcast3", "barrier1", "barrier2"} :
             /\ GoTo(t, l) /\ tpc[t] \in {"bcast1", "bcast2", "bcast3"}
             /\ UNCHANGED <<next, metadata_summ, private>>
      BY <2>4 DEF Broadcast, slaveVars
    <3> QED
      BY <3>1 DEF ThreadLabels, Counting
  <2>5. CASE LeaveSingle(t)
    <3>1. PICK l \in {"single2", "barrier3"} :
             /\ GoTo(t, l) /\ tpc[t] \in {"barrier1", "barrier2"}
             /\ UNCHANGED <<next, metadata_summ, private>>
      BY <2>5 DEF LeaveSingle, slaveVars
    <3> QED
      BY <3>1 DEF ThreadLabels, Counting
  <2>6. CASE LeaveTput(t)
    BY <2>6 DEF LeaveTput, slaveVars, ThreadLabels, Counting
  <2> QED
    BY <1>3, <2>1, <2>2, <2>3, <2>4, <2>5, <2>6 DEF ThreadStep
<1>4. ASSUME MainStep PROVE UNCHANGED <<next, metadata_summ, private, tpc>>
  BY <1>4 DEF MainStep, MainStart, MainMode, MainBroadcast, MainBroadcast2, MainNextRound,
    MainEnd, MainReceive, slaveVars, threadVars
<1>5. ASSUME ProgStep PROVE UNCHANGED <<next, metadata_summ, private, tpc>>
  BY <1>5 DEF ProgStep, ProgStart, ProgGoals, ProgEnd, ProgReceive, slaveVars, threadVars
<1>6. ASSUME MasterStep PROVE UNCHANGED <<next, metadata_summ, private, tpc>>
  BY <1>6 DEF MasterStep, MasterJoin, MasterMetadata, MasterEnd, slaveVars, threadVars
<1>7. ASSUME Finished \/ UNCHANGED vars PROVE UNCHANGED <<next, metadata_summ, private, tpc>>
  BY <1>7 DEF Finished, vars, slaveVars, threadVars
<1> QED
  BY <1>1, <1>2, <1>3, <1>4, <1>5, <1>6, <1>7 DEF Next

\* The threads that move without counting or sharing anything.
LEMMA MetaSame ==
    ASSUME MetaTypes, \A s \in Slaves : Counted(s), query' = query,
           UNCHANGED <<next, metadata_summ, private>>,
           \A t \in Threads : /\ tpc'[t] \in Counting <=> tpc[t] \in Counting
                              /\ tpc'[t] = "idle" => tpc[t] = "idle"
    PROVE  MetaTypes' /\ \A s \in Slaves : Counted(s)'
<1>1. \A k \in Counters : Held(k)' = Held(k)
  BY DEF Held
<1>2. files' = files /\ \A s \in Slaves : Own(s)' = Own(s)
  BY DEF files, Own
<1>3. ASSUME NEW s \in Slaves PROVE Counted(s)'
  <2>1. /\ Opened(s, next[s] - 1)' = Opened(s, next[s] - 1)
        /\ \A k \in Counters : Info(s, k)' = Info(s, k)
    BY <1>2 DEF Opened, Info
  <2>2. \A t \in Own(s) : t \in Threads
    BY DEF Own
  <2>3. \A k \in Counters :
           metadata_summ'[s][k] + SumOver(Held(k)', Own(s)')
              = SumOver(Info(s, k)', Opened(s, next[s] - 1)')
    BY <1>1, <1>2, <2>1 DEF Counted
  <2> QED
    BY <1>2, <2>2, <2>3 DEF Counted
<1> QED
  BY <1>3 DEF MetaTypes


\* What a step does to the terms of the sums.
LEMMA HeldMoves ==
    ASSUME MetaTypes, MetaTypes', NEW t \in Threads, NEW k \in Counters,
           \A u \in Threads : u # t => tpc'[u] = tpc[u] /\ private'[u] = private[u]
    PROVE  \A r \in Slaves :
              /\ SumOver(Held(k), Own(r)) \in Int
              /\ t[1] = r => SumOver(Held(k)', Own(r)) = SumOver(Held(k), Own(r)) + Held(k)'[t] - Held(k)[t]
              /\ t[1] # r => SumOver(Held(k)', Own(r)) = SumOver(Held(k), Own(r))
<1>1. PICK f, g : f = Held(k) /\ g = Held(k)'
  OBVIOUS
<1>2. \A u \in Threads : f[u] \in Int
  BY <1>1, HeldIs
<1>3. \A u \in Threads : g[u] \in Int
  <2>1. \A u \in Threads : private'[u][k] \in Nat
    BY DEF MetaTypes
  <2> QED
    BY <1>1, <2>1 DEF Held
<1>4. \A u \in Threads : u # t => g[u] = f[u]
  BY <1>1 DEF Held
<1>5. \A r \in Slaves :
         /\ SumOver(f, Own(r)) \in Int
         /\ t[1] = r => SumOver(g, Own(r)) = SumOver(f, Own(r)) + g[t] - f[t]
         /\ t[1] # r => SumOver(g, Own(r)) = SumOver(f, Own(r))
  BY <1>2, <1>3, <1>4, OwnSum
<1> QED
  BY <1>1, <1>5

\* A thread counts the metadata of a file.
LEMMA MetaFile ==
    ASSUME ControlInv, ReportInv, MetaTypes, \A s \in Slaves : Counted(s), query' = query,
           NEW t \in Threads, ProcessFile(t)
    PROVE  MetaTypes' /\ \A s \in Slaves : Counted(s)'
<1>0. query \in Query /\ ControlTypes
  BY ControlParts DEF ControlTypes
<1>1. PICK s \in Slaves : s = t[1]
  BY ThreadOf
<1>2. PICK n \in 1..Len(files[s]) : n = next[s]
  BY <1>0, <1>1, FilesAre DEF ProcessFile, ReportInv, Reports
<1>3. /\ tpc[t] = "for" /\ tpc' = [tpc EXCEPT ![t] = "report"]
      /\ next' = [next EXCEPT ![s] = n + 1]
      /\ private' = [private EXCEPT ![t] = Updated(private[t], files[s][n])]
      /\ metadata_summ' = metadata_summ
  BY <1>1, <1>2 DEF ProcessFile, GoTo
<1>4. \A k \in Counters : files[s][n].opens \in BOOLEAN /\ files[s][n].info[k] \in Nat
  BY <1>0, FileIs
<1>5. /\ Updated(private[t], files[s][n]) \in [Counters -> Nat]
      /\ \A k \in Counters :
            /\ private[t][k] \in Nat
            /\ files[s][n].opens =>
                  Updated(private[t], files[s][n])[k] = private[t][k] + files[s][n].info[k]
            /\ ~files[s][n].opens => Updated(private[t], files[s][n])[k] = private[t][k]
  <2>1. private[t] \in [Counters -> Nat]
    BY DEF MetaTypes
  <2> QED
    BY <1>4, <2>1 DEF Updated, Plus
<1>6. MetaTypes'
  BY <1>3, <1>5 DEF MetaTypes
<1>7. /\ \A u \in Threads : u # t => tpc'[u] = tpc[u] /\ private'[u] = private[u]
      /\ tpc'[t] = "report" /\ private'[t] = Updated(private[t], files[s][n])
  BY <1>0, <1>3 DEF MetaTypes, ControlTypes
<1>8. next'[s] = n + 1 /\ \A r \in Slaves : r # s => next'[r] = next[r]
  BY <1>2, <1>3 DEF ReportInv, ReportTypes
<1>9. files' = files /\ \A r \in Slaves : Own(r)' = Own(r)
  BY DEF files, Own
<1>10. ASSUME NEW r \in Slaves, NEW k \in Counters
       PROVE  metadata_summ[r][k] + SumOver(Held(k)', Own(r))
                 = SumOver(Info(r, k)', Opened(r, next[r] - 1)')
  <2>1. /\ SumOver(Held(k), Own(r)) \in Int
        /\ t[1] = r => SumOver(Held(k)', Own(r)) = SumOver(Held(k), Own(r)) + Held(k)'[t] - Held(k)[t]
        /\ t[1] # r => SumOver(Held(k)', Own(r)) = SumOver(Held(k), Own(r))
    BY <1>6, <1>7, HeldMoves
  <2>2. metadata_summ[r][k] \in Nat
        /\ metadata_summ[r][k] + SumOver(Held(k), Own(r))
              = SumOver(Info(r, k), Opened(r, next[r] - 1))
    BY DEF Counted, MetaTypes
  <2>3. Info(r, k)' = Info(r, k)
    BY <1>9 DEF Info
  <2>4. CASE r # s
    <3>1. Opened(r, next[r] - 1)' = Opened(r, next[r] - 1)
      BY <1>8, <1>9, <2>4 DEF Opened
    <3> QED
      BY <1>1, <2>1, <2>2, <2>3, <2>4, <3>1
  <2>5. CASE r = s
    <3>1. Opened(r, next[r] - 1)' = Opened(r, n)
      <4>1. next'[r] - 1 = n
        BY <1>0, <1>8, <2>5, FilesAre
      <4> QED
        BY <1>9, <4>1 DEF Opened
    <3>2. Held(k)[t] = private[t][k] /\ Held(k)'[t] = private'[t][k]
      BY <1>3, <1>7 DEF Held, Counting
    <3>3. /\ files[s][n].opens =>
                SumOver(Info(s, k), Opened(s, n))
                   = SumOver(Info(s, k), Opened(s, n - 1)) + files[s][n].info[k]
          /\ ~files[s][n].opens =>
                SumOver(Info(s, k), Opened(s, n)) = SumOver(Info(s, k), Opened(s, n - 1))
          /\ SumOver(Info(s, k), Opened(s, n - 1)) \in Int
      BY <1>0, OpenedNext
    <3>4. PICK a \in Int, b \in Int, c \in Nat, d \in Nat :
             /\ a = SumOver(Held(k), Own(r)) /\ b = SumOver(Info(s, k), Opened(s, n - 1))
             /\ c = private[t][k] /\ d = metadata_summ[r][k] /\ d + a = b
      BY <1>2, <1>5, <2>1, <2>2, <2>5, <3>3
    <3>5. SumOver(Held(k)', Own(r)) = a + private'[t][k] - c
      BY <1>1, <2>1, <2>5, <3>2, <3>4
    <3>6. CASE files[s][n].opens
      <4>1. private'[t][k] = c + files[s][n].info[k] /\ files[s][n].info[k] \in Nat
        BY <1>4, <1>5, <1>7, <3>4, <3>6
      <4>2. SumOver(Held(k)', Own(r)) = a + files[s][n].info[k]
        BY <3>5, <4>1
      <4> QED
        <5>0. PICK e \in Nat : e = files[s][n].info[k]
          BY <4>1
        <5>1. d + (a + e) = b + e
          BY <3>4
        <5>2. SumOver(Info(r, k), Opened(r, n)) = b + e
          BY <2>5, <3>3, <3>4, <3>6, <5>0
        <5> QED
          BY <2>3, <3>1, <3>4, <4>2, <5>0, <5>1, <5>2
    <3>7. CASE ~files[s][n].opens
      <4>1. private'[t][k] = c
        BY <1>5, <1>7, <3>4, <3>7
      <4>2. SumOver(Held(k)', Own(r)) = a
        BY <3>5, <4>1
      <4> QED
        <5>1. SumOver(Info(r, k), Opened(r, n)) = b
          BY <2>5, <3>3, <3>4, <3>7
        <5> QED
          BY <2>3, <3>1, <3>4, <4>2, <5>1
    <3> QED
      BY <3>6, <3>7
  <2> QED
    BY <2>4, <2>5
<1>11. ASSUME NEW r \in Slaves, NEW u \in Own(r)
       PROVE  /\ tpc'[u] = "idle" => private'[u] = NoMetadata
              /\ tpc'[u] \notin Counting => next'[r] = Len(files'[r]) + 1
  <2>1. u \in Threads /\ u[1] = r
    BY DEF Own
  <2>2. /\ tpc[u] = "idle" => private[u] = NoMetadata
        /\ tpc[u] \notin Counting => next[r] = Len(files[r]) + 1
    BY DEF Counted
  <2>3. CASE u = t
    BY <1>7, <2>3 DEF Counting
  <2>4. CASE u # t
    <3>1. tpc'[u] = tpc[u] /\ private'[u] = private[u]
      BY <1>7, <2>1, <2>4
    <3>2. CASE r # s
      BY <1>8, <1>9, <2>2, <3>1, <3>2
    <3>3. CASE r = s
      <4>1. next[r] # Len(files[r]) + 1
        BY <1>0, <1>2, <3>3, FilesAre
      <4> QED
        BY <2>2, <3>1, <4>1
    <3> QED
      BY <3>2, <3>3
  <2> QED
    BY <2>3, <2>4
<1>12. \A r \in Slaves : Counted(r)'
  BY <1>3, <1>9, <1>10, <1>11 DEF Counted
<1> QED
  BY <1>6, <1>12

\* A thread shares what it has counted.
LEMMA MetaShare ==
    ASSUME ControlInv, ReportInv, MetaTypes, \A s \in Slaves : Counted(s), query' = query,
           NEW t \in Threads, Share(t)
    PROVE  MetaTypes' /\ \A s \in Slaves : Counted(s)'
<1>0. query \in Query /\ ControlTypes
  BY ControlParts DEF ControlTypes
<1>1. PICK s \in Slaves : s = t[1]
  BY ThreadOf
<1>2. next[s] = Len(files[s]) + 1
  <2>1. Len(files[s]) \in Nat /\ next[s] \in 1..(Len(files[s]) + 1) /\ next[s] > Len(files[s])
    BY <1>0, <1>1, FilesAre DEF Share, ReportInv, Reports
  <2> QED
    BY <2>1
<1>3. PICK l \in {"join", "single1", "sent"} :
         /\ tpc[t] = "for" /\ tpc' = [tpc EXCEPT ![t] = l]
         /\ metadata_summ' = [metadata_summ EXCEPT ![s] = Plus(metadata_summ[s], private[t])]
         /\ UNCHANGED <<next, private>>
  BY <1>1 DEF Share, GoTo
<1>4. /\ Plus(metadata_summ[s], private[t]) \in [Counters -> Nat]
      /\ \A k \in Counters : Plus(metadata_summ[s], private[t])[k] = metadata_summ[s][k] + private[t][k]
  <2>1. metadata_summ[s] \in [Counters -> Nat] /\ private[t] \in [Counters -> Nat]
    BY DEF MetaTypes
  <2> QED
    BY <2>1 DEF Plus
<1>5. MetaTypes'
  BY <1>3, <1>4 DEF MetaTypes
<1>6. /\ \A u \in Threads : u # t => tpc'[u] = tpc[u] /\ private'[u] = private[u]
      /\ tpc'[t] = l
  BY <1>0, <1>3 DEF ControlTypes
<1>7. /\ \A k \in Counters : metadata_summ'[s][k] = metadata_summ[s][k] + private[t][k]
      /\ \A r \in Slaves : r # s => metadata_summ'[r] = metadata_summ[r]
  BY <1>3, <1>4 DEF MetaTypes
<1>8. files' = files /\ \A r \in Slaves : Own(r)' = Own(r)
  BY DEF files, Own
<1>9. ASSUME NEW r \in Slaves, NEW k \in Counters
      PROVE  metadata_summ'[r][k] + SumOver(Held(k)', Own(r))
                = SumOver(Info(r, k)', Opened(r, next[r] - 1)')
  <2>1. /\ SumOver(Held(k), Own(r)) \in Int
        /\ t[1] = r => SumOver(Held(k)', Own(r)) = SumOver(Held(k), Own(r)) + Held(k)'[t] - Held(k)[t]
        /\ t[1] # r => SumOver(Held(k)', Own(r)) = SumOver(Held(k), Own(r))
    BY <1>5, <1>6, HeldMoves
  <2>2. metadata_summ[r][k] \in Nat /\ private[t][k] \in Nat
        /\ metadata_summ[r][k] + SumOver(Held(k), Own(r))
              = SumOver(Info(r, k), Opened(r, next[r] - 1))
    BY DEF Counted, MetaTypes
  <2>3. Info(r, k)' = Info(r, k) /\ Opened(r, next[r] - 1)' = Opened(r, next[r] - 1)
    BY <1>3, <1>8 DEF Info, Opened
  <2>4. Held(k)[t] = private[t][k] /\ Held(k)'[t] = 0
    BY <1>3, <1>6 DEF Held, Counting
  <2>5. CASE r # s
    BY <1>1, <1>7, <2>1, <2>2, <2>3, <2>5
  <2>6. CASE r = s
    <3>1. PICK a \in Int, c \in Nat, d \in Nat :
             a = SumOver(Held(k), Own(r)) /\ c = private[t][k] /\ d = metadata_summ[r][k]
      BY <2>1, <2>2
    <3>2. SumOver(Held(k)', Own(r)) = a - c
      BY <1>1, <2>1, <2>4, <2>6, <3>1
    <3>3. metadata_summ'[r][k] = d + c
      BY <1>7, <2>6, <3>1
    <3>4. metadata_summ'[r][k] + SumOver(Held(k)', Own(r)) = d + a
      BY <3>2, <3>3
    <3> QED
      BY <2>2, <2>3, <3>1, <3>4
  <2> QED
    BY <2>5, <2>6
<1>10. ASSUME NEW r \in Slaves, NEW u \in Own(r)
       PROVE  /\ tpc'[u] = "idle" => private'[u] = NoMetadata
              /\ tpc'[u] \notin Counting => next'[r] = Len(files'[r]) + 1
  <2>1. u \in Threads /\ u[1] = r
    BY DEF Own
  <2>2. /\ tpc[u] = "idle" => private[u] = NoMetadata
        /\ tpc[u] \notin Counting => next[r] = Len(files[r]) + 1
    BY DEF Counted
  <2>3. CASE u = t
    BY <1>1, <1>2, <1>3, <1>6, <1>8, <2>1, <2>3
  <2>4. CASE u # t
    BY <1>3, <1>6, <1>8, <2>1, <2>2, <2>4
  <2> QED
    BY <2>3, <2>4
<1>11. \A r \in Slaves : Counted(r)'
  BY <1>8, <1>9, <1>10 DEF Counted
<1> QED
  BY <1>5, <1>11

----------------------------------------------------------------------------
(* How far the others are when a collective operation has returned.        *)

\* The operations a process has entered are counted by Calls, and the last of
\* them is the one its course has there.
LEMMA CallsMade ==
    ASSUME ControlInv, NEW p \in Processes, NEW c \in Comms
    PROVE  /\ Len(colls[p][c]) = Calls(p, c) /\ Calls(p, c) \in Nat
           /\ Calls(p, c) # 0 => colls[p][c][Calls(p, c)] = Course(c)[Calls(p, c)]
<1>1. Course(c) \in Seq(Ops)
  BY CourseFacts
<1>2. Calls(p, c) \in 0..Len(Course(c))
  BY CallsBound
<1>3. PICK n \in Nat : n = Calls(p, c) /\ n <= Len(Course(c))
  BY <1>1, <1>2
<1>4. colls[p][c] = SubSeq(Course(c), 1, n)
  BY <1>3, ControlParts DEF OnCourse
<1>5. Len(SubSeq(Course(c), 1, n)) = n /\ \A i \in 1..n : SubSeq(Course(c), 1, n)[i] = Course(c)[i]
  BY <1>1, <1>3, PrefixIs
<1>6. n # 0 => SubSeq(Course(c), 1, n)[n] = Course(c)[n]
  BY <1>5
<1> QED
  BY <1>3, <1>4, <1>5, <1>6

\* Where a slave is that has made its first, or its last but one, call.
LEMMA SlaveReach ==
    ASSUME ControlInv, NEW s \in Slaves
    PROVE  /\ Calls(s, "main") >= 1 => spc[s] \notin {"start", "gather"}
           /\ Calls(s, "main") >= 3 + Bcasts => spc[s] \in {"metadata", "done"}
<1>0. /\ Bcasts \in {0, 3} /\ s # Master /\ s \in Processes /\ ProcInv(s) /\ TeamInv(s)
      /\ spc[s] \in SlaveLabels /\ singles[s] \in 0..2
  BY ControlParts DEF ControlTypes
<1>1. Calls(s, "main") = SlaveCalls(s) + Freed(s, {"free1", "free2", "finalize", "exit"})
  BY <1>0 DEF Calls, MainCalls, RoleCalls
<1>2. Freed(s, {"free1", "free2", "finalize", "exit"}) = 0 \/ spc[s] = "done"
  BY <1>0 DEF Freed, ProcInv, RoleOver
<1>3. Broadcasts(s) \in 0..Bcasts
  BY <1>0 DEF Broadcasts, Bcasts, TeamInv
<1>4. CASE spc[s] = "done"
  BY <1>4
<1>5. CASE spc[s] # "done"
  <2>1. Calls(s, "main") = SlaveCalls(s) + 0
    BY <1>1, <1>2, <1>5
  <2> QED
    BY <1>0, <1>3, <2>1 DEF SlaveCalls, SlaveLabels
<1> QED
  BY <1>4, <1>5

\* Where the master is that has called the first, or the last, broadcast.
LEMMA MasterReach ==
    ASSUME ControlInv, mode = "tput"
    PROVE  /\ Calls(Master, "main") >= 2 =>
                 main \in {"bcast1", "recv2", "bcast2", "bcast3", "recv3", "join"}
           /\ Calls(Master, "main") >= 4 => main \in {"bcast3", "recv3", "join"}
<1>0. /\ MasterInv /\ ProcInv(Master) /\ main \in MainLabels
      /\ mpc \in {"parallel", "processed", "metadata", "done"}
  BY ControlParts DEF ControlTypes
<1>1. Calls(Master, "main") = MasterCalls + Freed(Master, {"free1", "free2", "finalize", "exit"})
  BY <1>0 DEF Calls, MainCalls, RoleCalls
<1>2. CASE mpc = "parallel"
  <2>1. Freed(Master, {"free1", "free2", "finalize", "exit"}) = 0
    BY <1>0, <1>2 DEF Freed, ProcInv, RoleOver
  <2>2. Calls(Master, "main") = MasterCalls + 0
    BY <1>1, <2>1
  <2> QED
    BY <1>0, <1>2, <2>2 DEF MasterCalls, MainLabels
<1>3. CASE mpc # "parallel"
  BY <1>0, <1>3 DEF MasterInv
<1> QED
  BY <1>2, <1>3

\* When the reduction with which the query ends has returned on the master, all
\* slaves have left their parallel regions.
LEMMA SlavesReduced ==
    ASSUME ControlInv, mpc = "metadata", CanReturn(Master, "main")
    PROVE  \A s \in Slaves : spc[s] \in {"metadata", "done"}
<1>0. /\ Master \in Processes /\ "main" \in Comms /\ Bcasts \in {0, 3} /\ ProcInv(Master)
      /\ Slaves \subseteq Processes
  BY ControlParts DEF Comms
<1>1. Calls(Master, "main") = 3 + Bcasts
  <2>1. Freed(Master, {"free1", "free2", "finalize", "exit"}) = 0
    BY <1>0 DEF Freed, ProcInv, RoleOver
  <2>2. MasterCalls = 3 + Bcasts
    BY DEF MasterCalls
  <2> QED
    BY <1>0, <2>1, <2>2 DEF Calls, MainCalls, RoleCalls
<1>2. /\ Len(colls[Master]["main"]) = 3 + Bcasts
      /\ colls[Master]["main"][3 + Bcasts] = "Reduce_metadata"
  BY <1>0, <1>1, CallsMade, CourseFacts
<1>3. AllIn(Master, "main")
  BY <1>2 DEF CanReturn
<1>4. \A s \in Slaves : Len(colls[s]["main"]) >= 3 + Bcasts
  BY <1>0, <1>2, <1>3 DEF AllIn
<1>5. \A s \in Slaves : Calls(s, "main") >= 3 + Bcasts
  BY <1>0, <1>4, CallsMade
<1> QED
  BY <1>5, SlaveReach

\* A slave behind its parallel region has counted all its files.
LEMMA AllCounted ==
    ASSUME ControlInv, MetaTypes, NEW s \in Slaves, Counted(s), spc[s] \in {"metadata", "done"},
           NEW k \in Counters
    PROVE  metadata_summ[s][k] = SumOver(Info(s, k), Opened(s, Len(files[s])))
<1>1. TeamInv(s) /\ query \in Query
  BY ControlParts DEF ControlTypes
<1>2. /\ team[s] # 0 /\ \A t \in Team(s) : tpc[t] = "join"
      /\ \A t \in Threads : t[1] = s => (tpc[t] = "idle" <=> t \notin Team(s))
  BY <1>1 DEF TeamInv
<1>3. PICK t \in Team(s) : t \in Own(s) /\ tpc[t] = "join"
  BY <1>2, TeamMembers DEF Own
<1>4. next[s] = Len(files[s]) + 1 /\ Len(files[s]) \in Nat
  BY <1>1, <1>3, FilesAre DEF Counted, Counting
<1>5. PICK S : S = Own(s) /\ IsFiniteSet(S) /\ S \subseteq Threads
  BY ThreadsFinite
<1>6. PICK f : f = Held(k)
  OBVIOUS
<1>7. ASSUME NEW u \in S PROVE f[u] = 0
  <2>1. u \in Own(s) /\ u \in Threads /\ u[1] = s
    BY <1>5, <1>7 DEF Own
  <2>2. tpc[u] = "idle" => private[u][k] = 0
    BY <2>1 DEF Counted, NoMetadata
  <2>3. tpc[u] = "idle" \/ tpc[u] = "join"
    BY <1>2, <2>1
  <2> QED
    BY <1>6, <2>1, <2>2, <2>3 DEF Held, Counting
<1>8. SumOver(f, S) = 0
  BY <1>5, <1>7, SumZero
<1>9. metadata_summ[s][k] \in Nat
  BY DEF MetaTypes
<1>10. metadata_summ[s][k] + 0 = SumOver(Info(s, k), Opened(s, next[s] - 1))
  BY <1>5, <1>6, <1>8 DEF Counted
<1>11. next[s] - 1 = Len(files[s])
  BY <1>4
<1> QED
  BY <1>9, <1>10, <1>11

\* The counter of the files of a slave as SummaryComplete writes it.
LEMMA SummaryTerm ==
    ASSUME query \in Query, NEW s \in Slaves, NEW k \in Counters
    PROVE  Sum([i \in {j \in 1..Len(files[s]) : files[s][j].opens} |-> files[s][i].info[k]])
              = SumOver(Info(s, k), Opened(s, Len(files[s])))
<1>1. Len(files[s]) \in Nat
  BY FilesAre
<1>2. PICK S : S = Opened(s, Len(files[s]))
  OBVIOUS
<1>3. S = {j \in 1..Len(files[s]) : files[s][j].opens} /\ S \subseteq 1..Len(files[s])
  BY <1>2 DEF Opened
<1>4. PICK f : f = [i \in S |-> files[s][i].info[k]]
  OBVIOUS
<1>5. PICK g : g = Info(s, k)
  OBVIOUS
<1>6. \A i \in S : files[s][i].info[k] \in Int
  <2>1. \A i \in 1..Len(files[s]) : files[s][i].info[k] \in Nat
    BY FileIs
  <2> QED
    BY <1>3, <2>1
<1>7. \A i \in S : f[i] \in Int /\ f[i] = g[i]
  BY <1>3, <1>4, <1>5, <1>6 DEF Info
<1>8. IsFiniteSet(S)
  <2>1. PICK m \in Int : m = Len(files[s])
    BY <1>1
  <2>2. IsFiniteSet(1..m) /\ S \in SUBSET (1..m)
    BY <1>3, <2>1, FS_Interval
  <2> QED
    BY <2>2, FS_Subset
<1>9. SumOver(f, S) = SumOver(g, S)
  BY <1>7, <1>8, SumEqual
<1>10. DOMAIN f = S
  BY <1>4
<1>11. Sum(f) = SumOver(f, S)
  BY <1>10, SumIsOver
<1> QED
  BY <1>2, <1>3, <1>4, <1>5, <1>9, <1>11

\* Who sets the summary, and the end of the master.
LEMMA SummarySteps ==
    ASSUME [Next]_vars
    PROVE  query' = query /\ (MasterEnd \/ (summary' = summary /\ (mpc' = "done" => mpc = "done")))
<1>1. query' = query
  BY StepKinds
<1>2. ASSUME MasterJoin \/ MasterMetadata PROVE summary' = summary /\ mpc' # "done"
  BY <1>2 DEF MasterJoin, MasterMetadata
<1>3. ASSUME MainStep \/ ProgStep PROVE summary' = summary
  BY <1>3 DEF MainStep, MainStart, MainMode, MainBroadcast, MainBroadcast2, MainNextRound,
    MainEnd, MainReceive, ProgStep, ProgStart, ProgGoals, ProgEnd, ProgReceive
<1>4. ASSUME UNCHANGED masterVars PROVE summary' = summary /\ mpc' = mpc
  BY <1>4 DEF masterVars
<1>5. ASSUME UNCHANGED vars PROVE UNCHANGED masterVars
  BY <1>5 DEF vars
<1> QED
  BY <1>1, <1>2, <1>3, <1>4, <1>5, StepKinds DEF MasterStep

\* The summary of the master.
LEMMA SummaryNext ==
    ASSUME ControlInv, MetaInv, [Next]_vars
    PROVE  SummaryComplete'
<1>0. query \in Query /\ MetaTypes /\ \A s \in Slaves : Counted(s)
  BY ControlParts DEF ControlTypes, MetaInv
<1>1. query' = query /\ files' = files
  BY SummarySteps DEF files
<1>2. CASE summary' = summary /\ (mpc' = "done" => mpc = "done")
  BY <1>1, <1>2 DEF MetaInv, SummaryComplete
<1>3. CASE MasterEnd
  <2>1. summary' = [k \in Counters |-> Sum([s \in Slaves |-> metadata_summ[s][k]])]
    BY <1>3 DEF MasterEnd
  <2>2. \A s \in Slaves : spc[s] \in {"metadata", "done"}
    BY <1>3, SlavesReduced DEF MasterEnd
  <2>3. \A s \in Slaves, k \in Counters :
           metadata_summ[s][k]
              = Sum([i \in {j \in 1..Len(files[s]) : files[s][j].opens} |-> files[s][i].info[k]])
    BY <1>0, <2>2, AllCounted, SummaryTerm
  <2>4. ASSUME NEW k \in Counters
        PROVE  [s \in Slaves |-> metadata_summ[s][k]]
                  = [s \in Slaves |-> Sum([i \in {j \in 1..Len(files[s]) : files[s][j].opens} |->
                                             files[s][i].info[k]])]
    BY <2>3
  <2>5. ASSUME NEW k \in Counters
        PROVE  Sum([s \in Slaves |-> metadata_summ[s][k]])
                  = Sum([s \in Slaves |->
                           Sum([i \in {j \in 1..Len(files[s]) : files[s][j].opens} |->
                                  files[s][i].info[k]])])
    BY <2>4
  <2>6. summary' = [k \in Counters |->
                      Sum([s \in Slaves |->
                             Sum([i \in {j \in 1..Len(files[s]) : files[s][j].opens} |->
                                    files[s][i].info[k]])])]
    BY <2>1, <2>5
  <2> QED
    BY <1>1, <2>6 DEF SummaryComplete
<1> QED
  BY <1>2, <1>3, SummarySteps

\* A team starts its work.
LEMMA MetaFork ==
    ASSUME ControlInv, NEW s \in Slaves, Fork(s)
    PROVE  \A t \in Threads : /\ tpc'[t] \in Counting <=> tpc[t] \in Counting
                              /\ tpc'[t] = "idle" => tpc[t] = "idle"
<1>1. TeamInv(s) /\ spc[s] = "threads" /\ \A t \in Threads : tpc[t] \in ThreadLabels
  BY ControlParts DEF Fork, ControlTypes
<1>2. PICK n \in 1..num_threads_used[s] :
         tpc' = [t \in Threads |-> IF t[1] = s /\ t[2] <= n THEN "for" ELSE tpc[t]]
  BY DEF Fork
<1>3. team[s] = 0
  BY <1>1 DEF TeamInv
<1>4. ASSUME NEW t \in Threads, t[1] = s PROVE tpc[t] = "idle"
  <2>1. t[2] \in Nat \ {0}
    BY <1>4, ThreadOf, QueryAssumption
  <2>2. t \notin Team(s)
    BY <1>3, <2>1 DEF Team
  <2> QED
    BY <1>1, <1>4, <2>2 DEF TeamInv
<1> QED
  BY <1>2, <1>4 DEF Counting

\* The invariant is inductive.
LEMMA MetaNext == ControlInv /\ ReportInv /\ MetaInv /\ [Next]_vars => MetaInv'
<1> SUFFICES ASSUME ControlInv, ReportInv, MetaInv, [Next]_vars PROVE MetaInv'
  OBVIOUS
<1>1. query' = query /\ MetaTypes /\ \A s \in Slaves : Counted(s)
  BY SummarySteps DEF MetaInv
<1>2. SummaryComplete'
  BY SummaryNext
<1>3. ASSUME NEW t \in Threads, ProcessFile(t) \/ Share(t)
      PROVE  MetaTypes' /\ \A s \in Slaves : Counted(s)'
  BY <1>1, <1>3, MetaFile, MetaShare
<1>4. ASSUME UNCHANGED <<next, metadata_summ, private>>,
             \/ tpc' = tpc
             \/ \E s \in Slaves : Fork(s)
             \/ \E t \in Threads, l \in ThreadLabels :
                   /\ GoTo(t, l) /\ l # "idle" /\ tpc[t] # "idle"
                   /\ tpc[t] \in Counting <=> l \in Counting
      PROVE  MetaTypes' /\ \A s \in Slaves : Counted(s)'
  <2>1. \A t \in Threads : /\ tpc'[t] \in Counting <=> tpc[t] \in Counting
                           /\ tpc'[t] = "idle" => tpc[t] = "idle"
    <3>1. CASE tpc' = tpc
      BY <3>1
    <3>2. CASE \E s \in Slaves : Fork(s)
      BY <3>2, MetaFork
    <3>3. CASE \E t \in Threads, l \in ThreadLabels :
                  /\ GoTo(t, l) /\ l # "idle" /\ tpc[t] # "idle"
                  /\ tpc[t] \in Counting <=> l \in Counting
      <4>1. PICK t \in Threads, l \in ThreadLabels :
                  /\ GoTo(t, l) /\ l # "idle" /\ tpc[t] # "idle"
                  /\ tpc[t] \in Counting <=> l \in Counting
        BY <3>3
      <4>2. tpc' = [tpc EXCEPT ![t] = l] /\ tpc \in [Threads -> ThreadLabels]
        BY <4>1, ControlParts DEF GoTo, ControlTypes
      <4> QED
        BY <4>1, <4>2
    <3> QED
      BY <1>4, <3>1, <3>2, <3>3
  <2> QED
    BY <1>1, <1>4, <2>1, MetaSame
<1>5. MetaTypes' /\ \A s \in Slaves : Counted(s)'
  BY <1>3, <1>4, MetaSteps
<1> QED
  BY <1>2, <1>5 DEF MetaInv

\* The private and the shared counters together count every file once.
THEOREM MetaHolds == Spec => []MetaInv
<1>1. Init => MetaInv
  BY MetaInit
<1> QED
  BY <1>1, MetaNext, ControlHolds, ReportsHold, PTL DEF Spec

\* SummaryComplete, for any slaves, teams and files: the summary the master
\* reduces counts every file that could be opened exactly once, whichever
\* threads have read the files and whenever they have shared their counters.
THEOREM SummaryCounted == Spec => []SummaryComplete
<1>1. MetaInv => SummaryComplete
  BY DEF MetaInv
<1> QED
  BY <1>1, MetaHolds, PTL

----------------------------------------------------------------------------
(* The messages are counted.                                               *)

\* What a thread has sent, and what of it is received.
LEMMA GotIs ==
    ASSUME NEW t \in Threads, tpc[t] \in ThreadLabels, box[t] \in BOOLEAN
    PROVE  /\ Sent(t) \in 0..3 /\ Got(t) \in Int
           /\ box[t] => Got(t) = Sent(t) - 1
           /\ ~box[t] => Got(t) = Sent(t)
<1>1. Sent(t) \in 0..3
  BY DEF Sent, ThreadLabels, Counting, Rounds
<1>2. CASE box[t]
  BY <1>1, <1>2 DEF Got
<1>3. CASE ~box[t]
  BY <1>1, <1>3 DEF Got
<1> QED
  BY <1>1, <1>2, <1>3

\* The threads a master waits for.
LEMMA WaitingFinite ==
    /\ IsFiniteSet(Announced)
    /\ \A r : Waiting(r) \subseteq Announced /\ IsFiniteSet(Waiting(r))
<1>1. Announced \subseteq Threads /\ IsFiniteSet(Threads)
  BY ThreadsFinite DEF Announced
<1>2. IsFiniteSet(Announced)
  BY <1>1, FS_Subset
<1>3. \A r : Waiting(r) \subseteq Announced
  BY DEF Waiting
<1> QED
  BY <1>2, <1>3, FS_Subset

\* The threads of a team are among the announced ones, and so is who has sent.
LEMMA TeamAnnounced ==
    ASSUME ControlInv
    PROVE  /\ \A s \in Slaves : Team(s) \subseteq Announced
           /\ \A t \in Threads : tpc[t] # "idle" => t \in Team(t[1]) /\ t \in Announced
<1>1. ASSUME NEW s \in Slaves, NEW t \in Team(s) PROVE t \in Announced
  <2>1. t \in Threads /\ t[1] = s /\ t[2] <= team[s] /\ t[2] \in Int
    BY ThreadOf, QueryAssumption DEF Team
  <2>2. team[s] <= num_threads_used[s] /\ team[s] \in Nat /\ num_threads_used[s] \in Nat
    BY ControlParts DEF ControlTypes, TeamInv
  <2> QED
    BY <2>1, <2>2 DEF Announced
<1>2. ASSUME NEW t \in Threads, tpc[t] # "idle" PROVE t \in Team(t[1]) /\ t[1] \in Slaves
  <2>1. t[1] \in Slaves
    BY ThreadOf
  <2>2. TeamInv(t[1])
    BY <2>1, ControlParts
  <2> QED
    BY <1>2, <2>1, <2>2 DEF TeamInv
<1> QED
  BY <1>1, <1>2

\* The announced threads are as many as the slaves have announced.
LEMMA AnnouncedCount ==
    ASSUME ControlInv
    PROVE  Sum(num_threads_used) = Cardinality(Announced) /\ Sum(num_threads_used) \in Nat
<1>1. /\ num_threads_used \in [Slaves -> Nat] /\ MaxThreads \in [Slaves -> Nat]
      /\ \A s \in Slaves : num_threads_used[s] <= MaxThreads[s]
  BY ControlParts, QueryAssumption DEF ControlTypes, TeamInv
<1>2. IsFiniteSet(Slaves) /\ \A s \in Slaves : num_threads_used[s] \in Nat
  BY <1>1, ThreadsFinite
<1>3. Cardinality(Pairs(num_threads_used, Slaves)) = SumOver(num_threads_used, Slaves)
  BY <1>2, PairsCount
<1>4. SumOver(num_threads_used, Slaves) \in Nat
  BY <1>2, SumNat
<1>5. Sum(num_threads_used) = SumOver(num_threads_used, Slaves)
  <2>1. num_threads_used \in [Slaves -> Int]
    BY <1>1
  <2> QED
    BY <2>1, SlaveSum
<1>6. Announced = Pairs(num_threads_used, Slaves)
  <2>1. ASSUME NEW t \in Announced PROVE t \in Pairs(num_threads_used, Slaves)
    <3>1. /\ t[1] \in Slaves /\ t[2] \in 1..MaxThreads[t[1]] /\ t = <<t[1], t[2]>>
          /\ t[2] <= num_threads_used[t[1]]
      BY ThreadOf DEF Announced
    <3>2. PICK s \in Slaves : s = t[1]
      BY <3>1
    <3>3. t[2] \in 1..num_threads_used[s]
      BY <1>1, <3>1, <3>2
    <3>4. t \in {s} \X (1..num_threads_used[s])
      BY <3>1, <3>2, <3>3
    <3> QED
      BY <3>4 DEF Pairs
  <2>2. ASSUME NEW t \in Pairs(num_threads_used, Slaves) PROVE t \in Announced
    <3>1. PICK s \in Slaves : t \in {s} \X (1..num_threads_used[s])
      BY <2>2 DEF Pairs
    <3>2. t \in {s} \X (1..MaxThreads[s])
      BY <1>1, <3>1
    <3>3. t \in Threads
      BY <3>2 DEF Threads
    <3>4. t[1] = s /\ t[2] <= num_threads_used[s]
      BY <1>1, <3>1
    <3> QED
      BY <3>3, <3>4 DEF Announced
  <2> QED
    BY <2>1, <2>2
<1> QED
  BY <1>3, <1>4, <1>5, <1>6

\* The parts of the invariant.
LEMMA MessageParts ==
    ASSUME ControlInv, MessageInv
    PROVE  /\ MessageTypes /\ Heard /\ \A s \in Slaves : Followed(s)
           /\ \A t \in Threads : /\ tpc[t] \in ThreadLabels /\ box[t] \in BOOLEAN
                                 /\ Sent(t) \in 0..3 /\ Got(t) \in Int /\ Got(t) >= 0
                                 /\ box[t] => Got(t) = Sent(t) - 1
                                 /\ ~box[t] => Got(t) = Sent(t)
<1>1. MessageTypes /\ Heard /\ \A s \in Slaves : Followed(s)
  BY DEF MessageInv
<1>2. \A t \in Threads : tpc[t] \in ThreadLabels
  BY ControlParts DEF ControlTypes
<1>3. \A t \in Threads : box[t] \in BOOLEAN
  BY <1>1 DEF MessageTypes
<1>4. \A t \in Threads : Got(t) >= 0
  BY <1>1 DEF Heard
<1> QED
  BY <1>1, <1>2, <1>3, <1>4, GotIs

\* Nobody is waited for: all announced threads have been heard in this round.
LEMMA NobodyAwaited ==
    ASSUME ControlInv, MessageInv, main \in RoundLabels, awaited = 0
    PROVE  \A t \in Announced : Got(t) = Round
<1>1. awaited = Cardinality(Waiting(Round)) /\ \A t \in Announced : Got(t) \in {Round - 1, Round}
  BY MessageParts DEF Heard
<1>2. Waiting(Round) = {}
  <2>1. PICK S : S = Waiting(Round) /\ IsFiniteSet(S)
    BY WaitingFinite
  <2>2. Cardinality(S) = 0
    BY <1>1, <2>1
  <2>3. S = {}
    BY <2>1, <2>2, FS_EmptySet
  <2> QED
    BY <2>1, <2>3
<1>3. Round \in 1..3
  BY DEF Round
<1>4. ASSUME NEW t \in Announced PROVE Got(t) = Round
  <2>1. ~(Got(t) < Round)
    BY <1>2 DEF Waiting
  <2> QED
    BY <1>1, <1>3, <2>1
<1> QED
  BY <1>4

\* Behind a broadcast the master has received the messages sent before it.
LEMMA HeardBefore ==
    ASSUME ControlInv, MessageInv, mode = "tput"
    PROVE  /\ main \in {"bcast1", "recv2", "bcast2", "bcast3", "recv3", "join"} =>
                 \A t \in Announced : Got(t) >= 1
           /\ main \in {"bcast3", "recv3", "join"} => \A t \in Announced : Got(t) >= 2
<1>0. /\ Heard /\ \A t \in Announced : t \in Threads /\ Got(t) \in Int
  BY MessageParts DEF Announced
<1>1. CASE main = "bcast1"
  <2>1. awaited = 0 /\ Round = 1 /\ main \in RoundLabels
    BY <1>0, <1>1 DEF Heard, Round, RoundLabels
  <2>2. \A t \in Announced : Got(t) = 1
    BY <2>1, NobodyAwaited
  <2> QED
    BY <1>1, <2>2
<1>2. CASE main = "recv2" \/ main = "bcast2"
  <2>1. Round = 2 /\ main \in RoundLabels
    BY <1>2 DEF Round, RoundLabels
  <2>2. \A t \in Announced : Got(t) \in {2 - 1, 2}
    BY <1>0, <2>1 DEF Heard
  <2>3. \A t \in Announced : Got(t) >= 1
    BY <2>2
  <2> QED
    BY <1>2, <2>3
<1>3. CASE main = "bcast3"
  <2>1. awaited = 0 /\ Round = 2 /\ main \in RoundLabels
    BY <1>0, <1>3 DEF Heard, Round, RoundLabels
  <2>2. \A t \in Announced : Got(t) = 2
    BY <2>1, NobodyAwaited
  <2> QED
    BY <1>3, <2>2
<1>4. CASE main = "recv3"
  <2>1. Round = 3 /\ main \in RoundLabels
    BY <1>4 DEF Round, RoundLabels
  <2>2. \A t \in Announced : Got(t) \in {3 - 1, 3}
    BY <1>0, <2>1 DEF Heard
  <2>3. \A t \in Announced : Got(t) >= 1 /\ Got(t) >= 2
    BY <2>2
  <2> QED
    BY <1>4, <2>3
<1>5. CASE main = "join"
  <2>1. \A t \in Announced : Got(t) = 3
    BY <1>0, <1>5 DEF Heard, Rounds
  <2> QED
    BY <1>5, <2>1
<1> QED
  BY <1>1, <1>2, <1>3, <1>4, <1>5

\* TPUT: who is behind a barrier, or at a barrier that can be left, has followed
\* the broadcast before it.
LEMMA BehindBarrier ==
    ASSUME ControlInv, MessageInv, mode = "tput", NEW s \in Slaves, NEW t \in Team(s)
    PROVE  /\ \/ tpc[t] \in After(1)
              \/ tpc[t] = "barrier1" /\ \A u \in Team(s) : tpc[u] \notin Before(1)
              => /\ main \in {"bcast1", "recv2", "bcast2", "bcast3", "recv3", "join"}
                 /\ Got(t) >= 1 /\ singles[s] # 0 /\ ~InBcast(s, "bcast1")
           /\ \/ tpc[t] \in After(2)
              \/ tpc[t] = "barrier2" /\ \A u \in Team(s) : tpc[u] \notin Before(2)
              => main \in {"bcast3", "recv3", "join"} /\ Got(t) >= 2
<1>1. SinglesInv(s) /\ Followed(s) /\ t \in Announced
  BY MessageParts, ControlParts, TeamAnnounced
<1>2. ASSUME \/ tpc[t] \in After(1)
             \/ tpc[t] = "barrier1" /\ \A u \in Team(s) : tpc[u] \notin Before(1)
      PROVE  singles[s] # 0 /\ ~InBcast(s, "bcast1")
  <2>1. singles[s] # 0
    BY <1>1, <1>2 DEF SinglesInv
  <2>2. \A u \in Team(s) : tpc[u] \notin Before(1)
    BY <1>1, <1>2 DEF SinglesInv
  <2> QED
    BY <2>1, <2>2 DEF InBcast, Before
<1>3. ASSUME \/ tpc[t] \in After(2)
             \/ tpc[t] = "barrier2" /\ \A u \in Team(s) : tpc[u] \notin Before(2)
      PROVE  singles[s] = 2 /\ ~InBcast(s, "bcast2") /\ ~InBcast(s, "bcast3")
  <2>1. singles[s] = 2
    BY <1>1, <1>3 DEF SinglesInv
  <2>2. \A u \in Team(s) : tpc[u] \notin Before(2)
    BY <1>1, <1>3 DEF SinglesInv
  <2> QED
    BY <2>1, <2>2 DEF InBcast, Before
<1> QED
  BY <1>1, <1>2, <1>3, HeardBefore DEF Followed

\* A thread is never ahead of the master by more than the message under way.
LEMMA NotAhead ==
    ASSUME ControlInv, MessageInv, Receiving, NEW t \in Threads
    PROVE  Sent(t) <= Round
<1>0. /\ mode # "meta" /\ tpc[t] \in ThreadLabels /\ Sent(t) \in 0..3
      /\ t[1] \in Slaves /\ (tpc[t] # "idle" => t \in Team(t[1]))
  BY MessageParts, TeamAnnounced, ThreadOf DEF Heard, Receiving, RoundLabels
<1>1. CASE mode # "tput"
  <2>1. Round = 1
    BY <1>1, ControlParts DEF MasterInv, Receiving, Round
  <2>2. tpc[t] # "idle" => tpc[t] \in {"for", "report", "sent", "join"}
    BY <1>0, <1>1, ControlParts DEF TeamInv
  <2>3. Sent(t) <= 1
    BY <1>0, <1>1, <2>2 DEF Sent, Counting, Rounds
  <2> QED
    BY <2>1, <2>3
<1>2. CASE mode = "tput"
  <2>1. /\ Sent(t) >= 2 => tpc[t] \in After(1)
        /\ Sent(t) >= 3 => tpc[t] \in After(2)
    BY <1>0, <1>2 DEF Sent, Counting, Rounds, After, ThreadLabels
  <2>2. tpc[t] \in After(1) \cup After(2) => tpc[t] # "idle"
    BY DEF After
  <2>3. CASE main = "recv1"
    <3>1. ~(Sent(t) >= 2)
      BY <1>0, <1>2, <2>1, <2>2, <2>3, BehindBarrier
    <3> QED
      BY <1>0, <2>3, <3>1 DEF Round
  <2>4. CASE main = "recv2"
    <3>1. ~(Sent(t) >= 3)
      BY <1>0, <1>2, <2>1, <2>2, <2>4, BehindBarrier
    <3> QED
      BY <1>0, <2>4, <3>1 DEF Round
  <2>5. CASE main = "recv3"
    BY <1>0, <2>5 DEF Round
  <2> QED
    BY <2>3, <2>4, <2>5 DEF Receiving
<1> QED
  BY <1>1, <1>2

\* The initial states satisfy the invariant.
LEMMA MessageInit == Init => MessageInv
<1> SUFFICES ASSUME Init PROVE MessageInv
  OBVIOUS
<1>1. MessageTypes
  BY DEF Init, MessageTypes
<1>2. \A t \in Threads : tpc[t] = "idle" /\ ~box[t]
  BY DEF Init
<1>3. \A t \in Threads : Got(t) = 0
  BY <1>2 DEF Got, Sent, Counting
<1>4. main = "start" /\ \A s \in Slaves : singles[s] = 0
  BY DEF Init
<1>5. Heard
  BY <1>2, <1>3, <1>4 DEF Heard, RoundLabels
<1>6. \A s \in Slaves : Followed(s)
  BY <1>4 DEF Followed
<1> QED
  BY <1>1, <1>5, <1>6 DEF MessageInv

\* Steps that neither send nor receive and leave the main thread where it is.
LEMMA HeardKept ==
    ASSUME MessageTypes, Heard, query' = query, UNCHANGED <<main, slave_threads_cnt, awaited>>,
           box' \in [Threads -> BOOLEAN],
           \A t \in Threads : /\ Got(t)' = Got(t)
                              /\ mode = "meta" => tpc'[t] # "sent",
           \/ main \in {"start", "threads"}
           \/ /\ num_threads_used' = num_threads_used
              /\ \A s \in Slaves : spc'[s] \in {"start", "gather"} => spc[s] \in {"start", "gather"}
    PROVE  MessageTypes' /\ Heard'
<1>1. mode' = mode /\ Rounds' = Rounds /\ Round' = Round
  BY CourseFixed DEF Rounds, Round, mode
<1>2. MessageTypes'
  BY DEF MessageTypes
<1>3. \A t \in Threads : Got(t)' >= 0 /\ (mode' = "meta" => tpc'[t] # "sent")
  BY <1>1 DEF Heard
<1>4. CASE main \in {"start", "threads"}
  BY <1>2, <1>3, <1>4 DEF Heard, RoundLabels
<1>5. CASE /\ main \notin {"start", "threads"}
           /\ num_threads_used' = num_threads_used
           /\ \A s \in Slaves : spc'[s] \in {"start", "gather"} => spc[s] \in {"start", "gather"}
  <2>1. Announced' = Announced /\ \A t \in Announced : t \in Threads
    BY <1>5 DEF Announced
  <2>2. Waiting(Round)' = Waiting(Round)
    BY <1>1, <2>1 DEF Waiting
  <2> QED
    BY <1>1, <1>2, <1>3, <1>5, <2>1, <2>2 DEF Heard
<1> QED
  BY <1>4, <1>5

\* A broadcast that has returned stays returned, and the master goes on.
LEMMA FollowedKept ==
    ASSUME query' = query, NEW s \in Slaves, Followed(s), singles'[s] = singles[s],
           mode = "tput" => \A l \in InSingle : InBcast(s, l)' <=> InBcast(s, l),
           mode = "tput" =>
              /\ main \in {"bcast1", "recv2", "bcast2", "bcast3", "recv3", "join"} =>
                    main' \in {"bcast1", "recv2", "bcast2", "bcast3", "recv3", "join"}
              /\ main \in {"bcast3", "recv3", "join"} => main' \in {"bcast3", "recv3", "join"}
    PROVE  Followed(s)'
<1>1. mode' = mode
  BY CourseFixed
<1> QED
  BY <1>1 DEF Followed, InSingle

\* The broadcasts of the slaves of which no thread moves.
LEMMA BcastsKept ==
    ASSUME NEW s \in Slaves, team'[s] = team[s],
           \A t \in Threads : t[1] = s => tpc'[t] = tpc[t]
    PROVE  \A l : InBcast(s, l)' <=> InBcast(s, l)
  BY DEF InBcast, Team

\* main() and the master outside its parallel region, and the progress bar.
LEMMA MessageElse ==
    ASSUME ControlInv, MessageInv, query' = query,
           UNCHANGED <<spc, num_threads_used, team, singles, tpc, box, main,
                       slave_threads_cnt, awaited>>
    PROVE  MessageInv'
<1>0. /\ MessageTypes /\ Heard /\ \A s \in Slaves : Followed(s)
  BY MessageParts
<1>1. mode' = mode /\ Rounds' = Rounds
  BY CourseFixed DEF Rounds, mode
<1>2. \A t \in Threads : Got(t)' = Got(t)
  BY <1>1 DEF Got, Sent
<1>3. MessageTypes' /\ Heard'
  <2>1. box' \in [Threads -> BOOLEAN] /\ \A t \in Threads : mode = "meta" => tpc'[t] # "sent"
    BY <1>0 DEF MessageTypes, Heard
  <2> QED
    BY <1>0, <1>2, <2>1, HeardKept
<1>4. \A s \in Slaves : Followed(s)'
  BY <1>0, BcastsKept, FollowedKept
<1> QED
  BY <1>3, <1>4 DEF MessageInv

\* The process of a slave.
LEMMA MessageSlave ==
    ASSUME ControlInv, MessageInv, query' = query, NEW s \in Slaves, SlaveStep(s),
           UNCHANGED <<ppc, singles, masterVars>>
    PROVE  MessageInv'
<1>0. /\ MessageTypes /\ Heard /\ (\A r \in Slaves : Followed(r)) /\ TeamInv(s)
      /\ UNCHANGED <<main, slave_threads_cnt, awaited>>
      /\ \A t \in Threads : tpc[t] \in ThreadLabels
  BY MessageParts, ControlParts DEF masterVars, mainVars, ControlTypes
<1>1. mode' = mode /\ Rounds' = Rounds
  BY CourseFixed DEF Rounds, mode
<1>2. box' = box
  BY DEF SlaveStep, SlaveGather, SlaveThreads, Fork, Join, SlaveMetadata, SlaveEnd, threadVars
<1>3. box' \in [Threads -> BOOLEAN]
  BY <1>0, <1>2 DEF MessageTypes
<1>4. CASE tpc' = tpc /\ team' = team
  <2>1. \A t \in Threads : Got(t)' = Got(t) /\ (mode = "meta" => tpc'[t] # "sent")
    BY <1>0, <1>1, <1>2, <1>4 DEF Got, Sent, Heard
  <2>2. \/ main \in {"start", "threads"}
        \/ /\ num_threads_used' = num_threads_used
           /\ \A r \in Slaves : spc'[r] \in {"start", "gather"} => spc[r] \in {"start", "gather"}
    <3>1. CASE SlaveThreads(s)
      <4>1. spc[s] = "gather"
        BY <3>1 DEF SlaveThreads
      <4> QED
        BY <1>0, <4>1 DEF Heard
    <3>2. CASE SlaveGather(s)
      <4>1. spc[s] = "start"
        BY <3>2 DEF SlaveGather
      <4> QED
        BY <1>0, <4>1 DEF Heard
    <3>3. CASE Fork(s) \/ Join(s) \/ SlaveMetadata(s) \/ SlaveEnd(s)
      <4>1. /\ num_threads_used' = num_threads_used
            /\ \E l \in {"parallel", "processed", "metadata", "done"} : spc' = [spc EXCEPT ![s] = l]
        BY <3>3 DEF Fork, Join, SlaveMetadata, SlaveEnd, SlaveGoTo
      <4>2. spc \in [Slaves -> SlaveLabels]
        BY ControlParts DEF ControlTypes
      <4> QED
        BY <4>1, <4>2
    <3> QED
      BY <3>1, <3>2, <3>3 DEF SlaveStep
  <2>3. MessageTypes' /\ Heard'
    BY <1>0, <1>3, <2>1, <2>2, HeardKept
  <2>4. \A r \in Slaves : Followed(r)'
    BY <1>0, <1>4, BcastsKept, FollowedKept
  <2> QED
    BY <2>3, <2>4 DEF MessageInv
<1>5. CASE Fork(s)
  <2>1. PICK n \in 1..num_threads_used[s] :
           /\ team' = [team EXCEPT ![s] = n]
           /\ tpc' = [t \in Threads |-> IF t[1] = s /\ t[2] <= n THEN "for" ELSE tpc[t]]
    BY <1>5 DEF Fork
  <2>2. /\ num_threads_used' = num_threads_used /\ spc' = [spc EXCEPT ![s] = "parallel"]
        /\ spc[s] = "threads" /\ spc \in [Slaves -> SlaveLabels] /\ team \in [Slaves -> Nat]
    BY <1>5, ControlParts DEF Fork, SlaveGoTo, ControlTypes
  <2>3. \A t \in Threads : tpc'[t] = tpc[t] \/ (tpc'[t] = "for" /\ tpc[t] \in Counting)
    <3>1. \A t \in Threads : tpc'[t] \in Counting <=> tpc[t] \in Counting
      BY <1>5, MetaFork
    <3> QED
      BY <2>1, <3>1 DEF Counting
  <2>4. \A t \in Threads : Got(t)' = Got(t) /\ (mode = "meta" => tpc'[t] # "sent")
    <3>1. \A t \in Threads : Sent(t)' = Sent(t)
      BY <1>1, <2>3 DEF Sent, Counting
    <3> QED
      BY <1>0, <1>2, <2>3, <3>1 DEF Got, Heard
  <2>5. \A r \in Slaves : spc'[r] \in {"start", "gather"} => spc[r] \in {"start", "gather"}
    BY <2>2
  <2>6. MessageTypes' /\ Heard'
    BY <1>0, <1>3, <2>2, <2>4, <2>5, HeardKept
  <2>7. ASSUME NEW r \in Slaves PROVE Followed(r)'
    <3>1. CASE r = s
      <4>1. singles[s] = 0 /\ singles'[s] = 0
        BY <1>0, <2>2 DEF TeamInv
      <4> QED
        BY <3>1, <4>1 DEF Followed
    <3>2. CASE r # s
      <4>1. team'[r] = team[r] /\ \A t \in Threads : t[1] = r => tpc'[t] = tpc[t]
        BY <2>1, <2>2, <3>2
      <4> QED
        BY <1>0, <4>1, BcastsKept, FollowedKept
    <3> QED
      BY <3>1, <3>2
  <2> QED
    BY <2>6, <2>7 DEF MessageInv
<1> QED
  BY <1>4, <1>5 DEF SlaveStep, SlaveGather, SlaveThreads, Join, SlaveMetadata, SlaveEnd, threadVars

\* A thread moves: what is left to show of the messages when its slave and the
\* master stay where they are.
LEMMA ThreadMoves ==
    ASSUME ControlInv, MessageInv, query' = query, NEW t \in Threads, NEW l \in ThreadLabels,
           NEW b \in BOOLEAN, GoTo(t, l), box' = [box EXCEPT ![t] = b],
           UNCHANGED <<spc, num_threads_used, team, masterVars>>
    PROVE  /\ mode' = mode /\ Rounds' = Rounds
           /\ tpc'[t] = l /\ box'[t] = b
           /\ \A u \in Threads : u # t => tpc'[u] = tpc[u] /\ Got(u)' = Got(u)
           /\ \A s \in Slaves : Team(s)' = Team(s)
           /\ (Got(t)' = Got(t) /\ (mode = "meta" => l # "sent")) => MessageTypes' /\ Heard'
           /\ \A s \in Slaves : s # t[1] /\ singles'[s] = singles[s] => Followed(s)'
           /\ l \notin InSingle /\ tpc[t] \notin InSingle =>
                 \A s \in Slaves : singles'[s] = singles[s] => Followed(s)'
<1>0. /\ MessageTypes /\ Heard /\ (\A r \in Slaves : Followed(r))
      /\ UNCHANGED <<main, slave_threads_cnt, awaited>>
      /\ tpc \in [Threads -> ThreadLabels] /\ box \in [Threads -> BOOLEAN]
  BY MessageParts, ControlParts DEF masterVars, mainVars, ControlTypes, MessageTypes
<1>1. mode' = mode /\ Rounds' = Rounds
  BY CourseFixed DEF Rounds, mode
<1>2. /\ tpc'[t] = l /\ box'[t] = b /\ box' \in [Threads -> BOOLEAN]
      /\ \A u \in Threads : u # t => tpc'[u] = tpc[u] /\ box'[u] = box[u]
  BY <1>0 DEF GoTo
<1>3. \A u \in Threads : u # t => Got(u)' = Got(u)
  BY <1>1, <1>2 DEF Got, Sent
<1>4. \A s \in Slaves : Team(s)' = Team(s)
  BY DEF Team
<1>5. ASSUME Got(t)' = Got(t), mode = "meta" => l # "sent" PROVE MessageTypes' /\ Heard'
  <2>1. \A u \in Threads : Got(u)' = Got(u) /\ (mode = "meta" => tpc'[u] # "sent")
    BY <1>0, <1>2, <1>3, <1>5 DEF Heard
  <2> QED
    BY <1>0, <1>2, <2>1, HeardKept
<1>6. ASSUME NEW s \in Slaves, s # t[1], singles'[s] = singles[s] PROVE Followed(s)'
  <2>1. \A u \in Threads : u[1] = s => tpc'[u] = tpc[u]
    BY <1>2, <1>6
  <2>2. \A k : InBcast(s, k)' <=> InBcast(s, k)
    BY <2>1, BcastsKept
  <2> QED
    BY <1>0, <1>6, <2>2, FollowedKept
<1>7. ASSUME l \notin InSingle, tpc[t] \notin InSingle, NEW s \in Slaves, singles'[s] = singles[s]
      PROVE  Followed(s)'
  <2>1. \A u \in Team(s) : u \in Threads
    BY DEF Team
  <2>2. \A k \in InSingle : InBcast(s, k)' <=> InBcast(s, k)
    BY <1>2, <1>4, <1>7, <2>1 DEF InBcast
  <2> QED
    BY <1>0, <1>7, <2>2, FollowedKept
<1> QED
  BY <1>1, <1>2, <1>3, <1>4, <1>5, <1>6, <1>7

\* The worker threads that do not take part in a broadcast.
LEMMA MessageThread ==
    ASSUME ControlInv, MessageInv, query' = query, NEW t \in Threads,
           ProcessFile(t) \/ Reported(t) \/ Share(t) \/ SentAll(t) \/ LeaveSingle(t) \/ LeaveTput(t),
           UNCHANGED <<spc, num_threads_used, team, masterVars>>
    PROVE  MessageInv'
<1>0. /\ MessageTypes /\ Heard /\ tpc[t] \in ThreadLabels /\ box[t] \in BOOLEAN
      /\ Got(t) \in Int /\ Got(t) >= 0 /\ Sent(t) \in 0..3
      /\ box[t] => Got(t) = Sent(t) - 1
      /\ ~box[t] => Got(t) = Sent(t)
      /\ box \in [Threads -> BOOLEAN] /\ box = [box EXCEPT ![t] = box[t]]
  BY MessageParts DEF MessageTypes
<1>1. singles' = singles
  BY DEF ProcessFile, Reported, Share, SentAll, LeaveSingle, LeaveTput, slaveVars
<1>2. PICK s \in Slaves : s = t[1]
  BY ThreadOf
<1>3. tpc[t] # "idle" => t \in Team(s) /\ TeamInv(s)
  BY <1>2, TeamAnnounced, ControlParts
<1>4. ASSUME NEW l \in ThreadLabels, NEW b \in BOOLEAN, GoTo(t, l), box' = [box EXCEPT ![t] = b],
             l \notin InSingle, tpc[t] \notin InSingle,
             mode' = mode /\ Rounds' = Rounds /\ tpc'[t] = l /\ box'[t] = b => Got(t)' = Got(t),
             mode = "meta" => l # "sent"
      PROVE  MessageInv'
  <2>1. mode' = mode /\ Rounds' = Rounds /\ tpc'[t] = l /\ box'[t] = b
    BY <1>4, ThreadMoves
  <2>2. MessageTypes' /\ Heard'
    BY <1>4, <2>1, ThreadMoves
  <2>3. \A r \in Slaves : Followed(r)'
    BY <1>1, <1>4, ThreadMoves
  <2> QED
    BY <2>2, <2>3 DEF MessageInv
<1>5. CASE ProcessFile(t) \/ Reported(t)
  <2>1. PICK l \in {"for", "report"} : GoTo(t, l) /\ tpc[t] \in {"for", "report"} /\ box' = box
    BY <1>5 DEF ProcessFile, Reported
  <2>2. ASSUME tpc'[t] = l, box'[t] = box[t] PROVE Got(t)' = Got(t)
    BY <2>1, <2>2 DEF Got, Sent, Counting
  <2> QED
    BY <1>0, <1>4, <2>1, <2>2 DEF ThreadLabels, InSingle
<1>6. CASE Share(t)
  <2>1. tpc[t] = "for" /\ box' = [box EXCEPT ![t] = mode # "meta"]
        /\ GoTo(t, IF mode = "meta" THEN "join" ELSE IF mode = "tput" THEN "single1" ELSE "sent")
    BY <1>6 DEF Share
  <2>2. Sent(t) = 0
    BY <2>1 DEF Sent, Counting
  <2>3. Got(t) = 0
    BY <1>0, <2>2
  <2>4. CASE mode = "meta"
    <3>1. GoTo(t, "join") /\ box' = [box EXCEPT ![t] = FALSE]
      BY <2>1, <2>4
    <3>2. ASSUME mode' = mode, tpc'[t] = "join", box'[t] = FALSE PROVE Got(t)' = Got(t)
      BY <2>3, <2>4, <3>2 DEF Got, Sent, Counting, Rounds
    <3> QED
      BY <1>4, <2>1, <3>1, <3>2 DEF ThreadLabels, InSingle
  <2>5. CASE mode # "meta"
    <3>1. PICK l \in {"single1", "sent"} : GoTo(t, l) /\ box' = [box EXCEPT ![t] = TRUE]
      BY <2>1, <2>5
    <3>2. ASSUME tpc'[t] = l, box'[t] = TRUE PROVE Got(t)' = Got(t)
      BY <2>3, <3>1, <3>2 DEF Got, Sent, Counting
    <3> QED
      BY <1>4, <2>1, <2>5, <3>1, <3>2 DEF ThreadLabels, InSingle
  <2> QED
    BY <2>4, <2>5
<1>7. CASE SentAll(t)
  <2>1. GoTo(t, "join") /\ tpc[t] = "sent" /\ box' = box
    BY <1>7 DEF SentAll
  <2>2. mode # "tput" /\ mode # "meta"
    BY <1>0, <1>3, <2>1 DEF TeamInv, Heard
  <2>3. ASSUME mode' = mode, Rounds' = Rounds, tpc'[t] = "join", box'[t] = box[t]
        PROVE  Got(t)' = Got(t)
    BY <2>1, <2>2, <2>3 DEF Got, Sent, Counting, Rounds
  <2> QED
    BY <1>0, <1>4, <2>1, <2>3 DEF ThreadLabels, InSingle
<1>8. CASE LeaveTput(t)
  <2>1. GoTo(t, "join") /\ tpc[t] = "barrier3" /\ box' = box
    BY <1>8 DEF LeaveTput
  <2>2. mode = "tput"
    BY <1>3, <2>1 DEF TeamInv
  <2>3. ASSUME mode' = mode, Rounds' = Rounds, tpc'[t] = "join", box'[t] = box[t]
        PROVE  Got(t)' = Got(t)
    BY <2>1, <2>2, <2>3 DEF Got, Sent, Counting, Rounds
  <2> QED
    BY <1>0, <1>4, <2>1, <2>3 DEF ThreadLabels, InSingle
<1>9. CASE LeaveSingle(t)
  <2>1. PICK n \in {1, 2} :
           /\ tpc[t] = IF n = 1 THEN "barrier1" ELSE "barrier2"
           /\ \A u \in Team(s) : tpc[u] \notin Before(n)
           /\ GoTo(t, IF n = 1 THEN "single2" ELSE "barrier3")
           /\ box' = [box EXCEPT ![t] = TRUE]
    BY <1>2, <1>9 DEF LeaveSingle
  <2>2. mode = "tput" /\ t \in Team(s)
    BY <1>3, <2>1 DEF TeamInv
  <2>3. CASE n = 1
    <3>1. tpc[t] = "barrier1" /\ GoTo(t, "single2") /\ \A u \in Team(s) : tpc[u] \notin Before(1)
      BY <2>1, <2>3
    <3>2. Got(t) >= 1 /\ Sent(t) = 1
      BY <2>2, <3>1, BehindBarrier DEF Sent, Counting
    <3>3. Got(t) = 1
      BY <1>0, <3>2
    <3>4. ASSUME tpc'[t] = "single2", box'[t] = TRUE PROVE Got(t)' = Got(t)
      BY <3>3, <3>4 DEF Got, Sent, Counting
    <3> QED
      BY <1>4, <2>1, <2>2, <3>1, <3>4 DEF ThreadLabels, InSingle
  <2>4. CASE n = 2
    <3>1. tpc[t] = "barrier2" /\ GoTo(t, "barrier3") /\ \A u \in Team(s) : tpc[u] \notin Before(2)
      BY <2>1, <2>4
    <3>2. Got(t) >= 2 /\ Sent(t) = 2
      BY <2>2, <3>1, BehindBarrier DEF Sent, Counting
    <3>3. Got(t) = 2
      BY <1>0, <3>2
    <3>4. ASSUME tpc'[t] = "barrier3", box'[t] = TRUE PROVE Got(t)' = Got(t)
      BY <3>3, <3>4 DEF Got, Sent, Counting
    <3> QED
      BY <1>4, <2>1, <2>2, <3>1, <3>4 DEF ThreadLabels, InSingle
  <2> QED
    BY <2>3, <2>4
<1> QED
  BY <1>5, <1>6, <1>7, <1>8, <1>9

\* A broadcast is called by one thread of a slave.
LEMMA MessageEnter ==
    ASSUME ControlInv, MessageInv, query' = query, NEW t \in Threads, EnterSingle(t),
           UNCHANGED <<spc, num_threads_used, team, masterVars>>
    PROVE  MessageInv'
<1>1. PICK s \in Slaves : s = t[1]
  BY ThreadOf
<1>2. /\ tpc[t] \in {"single1", "single2"} /\ box' = box
      /\ t \in Team(s) /\ mode = "tput" /\ Followed(s)
      /\ box = [box EXCEPT ![t] = box[t]] /\ box[t] \in BOOLEAN
      /\ singles \in [Slaves -> 0..2] /\ tpc[t] \notin InSingle
  <2>1. tpc[t] \in {"single1", "single2"} /\ box' = box
    BY DEF EnterSingle
  <2>2. t \in Team(s) /\ TeamInv(s)
    BY <1>1, <2>1, TeamAnnounced, ControlParts
  <2>3. mode = "tput"
    BY <2>1, <2>2 DEF TeamInv
  <2> QED
    BY <2>1, <2>2, <2>3, MessageParts, ControlParts DEF MessageTypes, ControlTypes, InSingle
<1>3. PICK n \in {1, 2} : /\ n = 1 => tpc[t] = "single1"
                          /\ n = 2 => tpc[t] = "single2"
                          /\ n = SingleNo(tpc[t])
  BY <1>2 DEF SingleNo
<1>4. ASSUME NEW l \in ThreadLabels, GoTo(t, l),
             n = 1 => l \in {"bcast1", "barrier1"}, n = 2 => l \in {"bcast2", "barrier2"}
      PROVE  /\ MessageTypes' /\ Heard' /\ mode' = mode /\ tpc'[t] = l
             /\ \A r \in Slaves : r # s /\ singles'[r] = singles[r] => Followed(r)'
             /\ l \notin InSingle => \A r \in Slaves : singles'[r] = singles[r] => Followed(r)'
             /\ Team(s)' = Team(s) /\ \A u \in Threads : u # t => tpc'[u] = tpc[u]
  <2>1. tpc'[t] = l /\ box'[t] = box[t]
    BY <1>2, <1>4, ThreadMoves
  <2>2. Got(t)' = Got(t)
    BY <1>2, <1>3, <1>4, <2>1 DEF Got, Sent, Counting
  <2>3. l # "sent"
    BY <1>3, <1>4
  <2> QED
    BY <1>1, <1>2, <1>4, <2>2, <2>3, ThreadMoves
<1>5. CASE ~(singles[s] < n)
  <2>1. singles' = singles /\ GoTo(t, IF n = 1 THEN "barrier1" ELSE "barrier2")
    BY <1>1, <1>3, <1>5 DEF EnterSingle
  <2>2. PICK l \in {"barrier1", "barrier2"} : /\ GoTo(t, l) /\ (n = 1 => l = "barrier1")
                                              /\ (n = 2 => l = "barrier2")
    BY <2>1
  <2>3. MessageTypes' /\ Heard' /\ \A r \in Slaves : Followed(r)'
    BY <1>4, <2>1, <2>2 DEF ThreadLabels, InSingle
  <2> QED
    BY <2>3 DEF MessageInv
<1>6. CASE singles[s] < n
  <2>1. /\ singles' = [singles EXCEPT ![s] = n]
        /\ GoTo(t, IF n = 1 THEN "bcast1" ELSE "bcast2")
    BY <1>1, <1>3, <1>6 DEF EnterSingle
  <2>2. singles'[s] = n /\ \A r \in Slaves : r # s => singles'[r] = singles[r]
    BY <1>2, <2>1
  <2>3. PICK l \in {"bcast1", "bcast2"} : /\ GoTo(t, l) /\ (n = 1 => l = "bcast1")
                                          /\ (n = 2 => l = "bcast2")
    BY <2>1
  <2>4. /\ MessageTypes' /\ Heard' /\ mode' = mode /\ tpc'[t] = l
        /\ \A r \in Slaves : r # s => Followed(r)'
        /\ Team(s)' = Team(s) /\ \A u \in Threads : u # t => tpc'[u] = tpc[u]
    BY <1>4, <2>2, <2>3 DEF ThreadLabels
  <2>5. InBcast(s, l)'
    BY <1>2, <2>4 DEF InBcast
  <2>6. Followed(s)'
    <3>1. CASE n = 1
      <4>1. l = "bcast1"
        BY <2>3, <3>1
      <4> QED
        BY <2>2, <2>5, <3>1, <4>1 DEF Followed
    <3>2. CASE n = 2
      <4>1. l = "bcast2" /\ tpc[t] \in After(1) /\ main' = main
        BY <1>3, <2>3, <3>2 DEF After, masterVars, mainVars
      <4>2. main \in {"bcast1", "recv2", "bcast2", "bcast3", "recv3", "join"}
        BY <1>2, <4>1, BehindBarrier
      <4> QED
        BY <2>2, <2>5, <3>2, <4>1, <4>2 DEF Followed
    <3> QED
      BY <3>1, <3>2
  <2> QED
    BY <2>4, <2>6 DEF MessageInv
<1> QED
  BY <1>5, <1>6

\* A broadcast returns on a slave.
LEMMA MessageBroadcast ==
    ASSUME ControlInv, MessageInv, query' = query, NEW t \in Threads, Broadcast(t),
           UNCHANGED <<spc, num_threads_used, team, masterVars>>
    PROVE  MessageInv'
<1>1. PICK s \in Slaves : s = t[1]
  BY ThreadOf
<1>2. /\ tpc[t] \in {"bcast1", "bcast2", "bcast3"} /\ CanReturn(s, "main")
      /\ singles' = singles /\ box' = box
  BY <1>1 DEF Broadcast, slaveVars
<1>3. PICK l \in {"barrier1", "bcast3", "barrier2"} :
         /\ GoTo(t, l)
         /\ tpc[t] = "bcast1" => l = "barrier1"
         /\ tpc[t] = "bcast2" => l = "bcast3"
         /\ tpc[t] = "bcast3" => l = "barrier2"
  BY <1>2 DEF Broadcast
<1>4. /\ t \in Team(s) /\ TeamInv(s) /\ SinglesInv(s) /\ Followed(s)
      /\ box = [box EXCEPT ![t] = box[t]] /\ box[t] \in BOOLEAN /\ l \in ThreadLabels
      /\ spc[s] = "parallel" /\ ppc[s] = "role" /\ mode = "tput" /\ singles[s] \in 0..2
  <2>1. t \in Team(s) /\ TeamInv(s) /\ spc[s] = "parallel" /\ ppc[s] = "role"
    BY <1>1, <1>2, ActiveThread, ControlParts
  <2>2. mode = "tput"
    BY <1>2, <2>1 DEF TeamInv
  <2> QED
    BY <2>1, <2>2, MessageParts, ControlParts DEF MessageTypes, ControlTypes, ThreadLabels
<1>5. /\ tpc'[t] = l /\ box'[t] = box[t] /\ mode' = mode /\ Team(s)' = Team(s)
      /\ \A u \in Threads : u # t => tpc'[u] = tpc[u]
      /\ \A r \in Slaves : r # s => Followed(r)'
      /\ Got(t)' = Got(t) => MessageTypes' /\ Heard'
  <2>1. l # "sent"
    BY <1>3
  <2> QED
    BY <1>1, <1>2, <1>3, <1>4, <2>1, ThreadMoves
<1>6. Got(t)' = Got(t)
  BY <1>2, <1>3, <1>5 DEF Got, Sent, Counting
<1>7. /\ singles[s] # 0 /\ (tpc[t] = "bcast3" => singles[s] = 2)
      /\ \A u \in Team(s) : tpc[u] \in InSingle => u = t
      /\ \A u \in Team(s) : u \in Threads
  BY <1>2, <1>4 DEF SinglesInv, InSingle, After, Team
<1>8. Calls(s, "main") = 1 + Broadcasts(s) /\ Broadcasts(s) \in 1..3
      /\ (tpc[t] = "bcast3" => Broadcasts(s) = 3)
  <2>1. Broadcasts(s) \in 1..3 /\ (tpc[t] = "bcast3" => Broadcasts(s) = 3)
    BY <1>4, <1>7 DEF Broadcasts, InBcast, InSingle
  <2>2. SlaveCalls(s) = 1 + Broadcasts(s)
    BY <1>4 DEF SlaveCalls
  <2>3. Freed(s, {"free1", "free2", "finalize", "exit"}) = 0 /\ s # Master
    BY <1>4, ControlParts DEF Freed
  <2> QED
    BY <2>1, <2>2, <2>3 DEF Calls, MainCalls, RoleCalls
<1>9. Calls(Master, "main") >= 1 + Broadcasts(s)
  <2>0. "main" \in Comms /\ s \in Processes /\ Master \in Processes /\ s # Master
    BY ControlParts DEF Comms
  <2>1. PICK n \in 2..4 : n = 1 + Broadcasts(s)
    BY <1>8
  <2>2. Len(colls[s]["main"]) = n /\ colls[s]["main"][n] = Course("main")[n]
    BY <1>8, <2>0, <2>1, CallsMade
  <2>3. Course("main")[n] \in {"Bcast_threshold", "Bcast_info", "Bcast_records"}
    BY <1>4, CourseFacts
  <2>4. Len(colls[Master]["main"]) >= n
    BY <1>2, <2>0, <2>2, <2>3 DEF CanReturn
  <2> QED
    BY <2>0, <2>1, <2>4, CallsMade
<1>10. Calls(Master, "main") \in Nat
  BY ControlParts, CallsMade DEF Comms
<1>11. /\ main' = main
       /\ main \in {"bcast1", "recv2", "bcast2", "bcast3", "recv3", "join"}
       /\ tpc[t] = "bcast3" => main \in {"bcast3", "recv3", "join"}
  BY <1>4, <1>8, <1>9, <1>10, MasterReach DEF masterVars, mainVars
<1>12. tpc[t] # "bcast3" => singles[s] # 2 \/ InBcast(s, "bcast3")' \/ main \in {"bcast3", "recv3", "join"}
  <2>1. CASE tpc[t] = "bcast2"
    <3>1. tpc'[t] = "bcast3" /\ t \in Team(s)'
      BY <1>3, <1>4, <1>5, <2>1
    <3> QED
      BY <3>1 DEF InBcast
  <2>2. CASE tpc[t] = "bcast1"
    <3>1. ~InBcast(s, "bcast2") /\ ~InBcast(s, "bcast3")
      BY <1>7, <2>2 DEF InBcast, InSingle
    <3> QED
      BY <1>4, <3>1 DEF Followed
  <2> QED
    BY <1>2, <2>1, <2>2
<1>13. Followed(s)'
  BY <1>2, <1>11, <1>12 DEF Followed
<1> QED
  BY <1>5, <1>6, <1>13 DEF MessageInv

\* The main thread of the master moves on; the slaves stay where they are.
LEMMA MainMoves ==
    ASSUME ControlInv, MessageInv, query' = query, UNCHANGED <<slaveVars, tpc>>, box' = box,
           main' \in MainLabels, slave_threads_cnt' \in Nat, awaited' \in Nat,
           mode = "tput" =>
              /\ main \in {"bcast1", "recv2", "bcast2", "bcast3", "recv3", "join"} =>
                    main' \in {"bcast1", "recv2", "bcast2", "bcast3", "recv3", "join"}
              /\ main \in {"bcast3", "recv3", "join"} => main' \in {"bcast3", "recv3", "join"}
    PROVE  /\ mode' = mode /\ Rounds' = Rounds /\ Announced' = Announced
           /\ \A t \in Threads : Got(t)' = Got(t)
           /\ \A r : {t \in Announced' : Got(t)' < r} = Waiting(r)
           /\ Heard' => MessageInv'
<1>0. MessageTypes /\ \A s \in Slaves : Followed(s)
  BY MessageParts
<1>1. mode' = mode /\ Rounds' = Rounds /\ UNCHANGED <<spc, num_threads_used, team, singles>>
  BY CourseFixed DEF Rounds, mode, slaveVars
<1>2. Announced' = Announced
  BY <1>1 DEF Announced
<1>3. \A t \in Threads : Got(t)' = Got(t)
  BY <1>1 DEF Got, Sent
<1>4. \A t \in Announced : t \in Threads
  BY DEF Announced
<1>5. \A r : {t \in Announced' : Got(t)' < r} = Waiting(r)
  BY <1>2, <1>3, <1>4 DEF Waiting
<1>6. MessageTypes'
  BY <1>0 DEF MessageTypes
<1>7. \A s \in Slaves : Followed(s)'
  BY <1>0, <1>1, BcastsKept, FollowedKept
<1> QED
  BY <1>1, <1>2, <1>3, <1>5, <1>6, <1>7 DEF MessageInv

\* The number of threads is known: every slave has announced its own.
LEMMA MessageMode ==
    ASSUME ControlInv, MessageInv, query' = query, UNCHANGED <<slaveVars, tpc>>, MainMode
    PROVE  MessageInv'
<1>0. /\ MessageTypes /\ Heard /\ main = "threads" /\ CanReturn(Master, "main")
      /\ box' = box /\ UNCHANGED spc /\ \A t \in Threads : Got(t) = 0
      /\ "main" \in Comms /\ Master \in Processes /\ Slaves \subseteq Processes
      /\ Master \notin Slaves /\ MasterInv /\ ProcInv(Master)
  BY MessageParts, ControlParts DEF MainMode, threadVars, slaveVars, Heard, Comms
<1>1. slave_threads_cnt' = Cardinality(Announced) /\ slave_threads_cnt' \in Nat
  BY AnnouncedCount DEF MainMode
<1>2. \A s \in Slaves : spc[s] \notin {"start", "gather"}
  <2>1. mpc = "parallel"
    BY <1>0, ControlParts DEF MasterInv, ControlTypes
  <2>2. Calls(Master, "main") = 1
    <3>1. Freed(Master, {"free1", "free2", "finalize", "exit"}) = 0
      BY <1>0, <2>1 DEF Freed, ProcInv, RoleOver
    <3>2. MasterCalls = 1
      BY <1>0, <2>1 DEF MasterCalls
    <3> QED
      BY <3>1, <3>2 DEF Calls, MainCalls, RoleCalls
  <2>3. Len(colls[Master]["main"]) = 1 /\ colls[Master]["main"][1] = "Reduce_threads"
    BY <1>0, <2>2, CallsMade, CourseFacts
  <2>4. AllIn(Master, "main")
    BY <1>0, <2>3 DEF CanReturn
  <2>5. \A s \in Slaves : Calls(s, "main") >= 1
    BY <1>0, <2>3, <2>4, CallsMade DEF AllIn
  <2> QED
    BY <2>5, SlaveReach
<1>3. CASE mode = "meta"
  <2>1. main' = "join" /\ awaited' = 0
    BY <1>3 DEF MainMode
  <2>2. /\ mode' = mode /\ Rounds' = Rounds /\ Announced' = Announced
        /\ \A t \in Threads : Got(t)' = Got(t)
        /\ Heard' => MessageInv'
    BY <1>0, <1>1, <1>3, <2>1, MainMoves DEF MainLabels
  <2>3. Rounds' = 0 /\ \A t \in Announced : t \in Threads
    BY <1>3, <2>2 DEF Rounds, Announced
  <2>4. Heard'
    BY <1>0, <1>1, <1>2, <2>1, <2>2, <2>3 DEF Heard, RoundLabels
  <2> QED
    BY <2>2, <2>4
<1>4. CASE mode # "meta"
  <2>1. main' = "recv1" /\ awaited' = slave_threads_cnt'
    BY <1>4 DEF MainMode
  <2>2. /\ mode' = mode /\ Announced' = Announced
        /\ \A t \in Threads : Got(t)' = Got(t)
        /\ {t \in Announced' : Got(t)' < 1} = Waiting(1)
        /\ Heard' => MessageInv'
    BY <1>0, <1>1, <2>1, MainMoves DEF MainLabels
  <2>3. \A t \in Announced : t \in Threads /\ Got(t) = 0
    BY <1>0 DEF Announced
  <2>4. Waiting(1) = Announced
    BY <2>3 DEF Waiting
  <2>5. Round' = 1
    BY <2>1 DEF Round
  <2>6. Waiting(Round)' = Announced
    BY <2>2, <2>4, <2>5 DEF Waiting
  <2>7. \A t \in Threads : Got(t)' >= 0 /\ (mode' = "meta" => tpc'[t] # "sent")
    BY <1>0, <1>4, <2>2
  <2>8. \A t \in Announced' : Got(t)' \in {Round' - 1, Round'}
    BY <2>2, <2>3, <2>5
  <2>9. Heard'
    BY <1>0, <1>1, <1>2, <1>4, <2>1, <2>2, <2>6, <2>7, <2>8 DEF Heard
  <2> QED
    BY <2>2, <2>9
<1> QED
  BY <1>3, <1>4

\* The master receives the message of a thread.
LEMMA MessageReceive ==
    ASSUME ControlInv, MessageInv, query' = query, UNCHANGED <<slaveVars, tpc>>,
           NEW t \in Threads, MainReceive(t)
    PROVE  MessageInv'
<1>0. /\ MessageTypes /\ Heard /\ (\A s \in Slaves : Followed(s))
      /\ Receiving /\ box[t] /\ awaited > 0 /\ awaited' = awaited - 1
      /\ box' = [box EXCEPT ![t] = FALSE] /\ box \in [Threads -> BOOLEAN]
      /\ UNCHANGED <<main, slave_threads_cnt, spc, num_threads_used, team, singles>>
  BY MessageParts DEF MainReceive, slaveVars, MessageTypes
<1>1. /\ mode' = mode /\ Rounds' = Rounds /\ Round' = Round /\ Announced' = Announced
      /\ main \in RoundLabels /\ Round \in 1..3
  BY <1>0, CourseFixed DEF Rounds, Round, mode, Announced, RoundLabels, Receiving
<1>2. /\ ~box'[t] /\ box' \in [Threads -> BOOLEAN]
      /\ \A u \in Threads : u # t => box'[u] = box[u]
  BY <1>0
<1>3. \A u \in Threads : Sent(u)' = Sent(u)
  BY <1>1 DEF Sent
<1>4. \A u \in Threads : u # t => Got(u)' = Got(u)
  BY <1>2, <1>3 DEF Got
<1>5. Sent(t) \in 0..3 /\ Got(t) = Sent(t) - 1 /\ Got(t) \in Int /\ Got(t) >= 0
  BY <1>0, MessageParts
<1>6. Got(t)' = Sent(t)
  BY <1>2, <1>3, <1>5 DEF Got
<1>7. t \in Announced
  <2>1. tpc[t] # "idle"
    BY <1>5 DEF Sent, Counting
  <2> QED
    BY <2>1, TeamAnnounced
<1>8. Got(t) = Round - 1 /\ Got(t)' = Round
  <2>1. Got(t) \in {Round - 1, Round} /\ Sent(t) <= Round
    BY <1>0, <1>1, <1>7, NotAhead DEF Heard
  <2> QED
    BY <1>1, <1>5, <1>6, <2>1
<1>9. Waiting(Round)' = Waiting(Round) \ {t} /\ t \in Waiting(Round)
  <2>1. ~(Got(t)' < Round) /\ Got(t) < Round
    BY <1>1, <1>8
  <2>2. \A u \in Announced : u \in Threads
    BY DEF Announced
  <2> QED
    BY <1>1, <1>4, <1>7, <2>1, <2>2 DEF Waiting
<1>10. Cardinality(Waiting(Round)') = Cardinality(Waiting(Round)) - 1
  <2>1. PICK S : S = Waiting(Round) /\ IsFiniteSet(S) /\ t \in S
    BY <1>9, WaitingFinite
  <2>2. Cardinality(S \ {t}) = Cardinality(S) - 1
    BY <2>1, FS_RemoveElement
  <2> QED
    BY <1>9, <2>1, <2>2
<1>11. Heard'
  <2>1. \A u \in Threads : Got(u)' >= 0 /\ (mode' = "meta" => tpc'[u] # "sent")
    BY <1>0, <1>1, <1>4, <1>5, <1>6 DEF Heard
  <2>2. main \notin {"start", "threads", "join", "bcast1", "bcast2", "bcast3"}
    BY <1>0 DEF Receiving
  <2>3. /\ mode # "meta" /\ (\A s \in Slaves : spc[s] \notin {"start", "gather"})
        /\ slave_threads_cnt = Cardinality(Announced) /\ awaited = Cardinality(Waiting(Round))
        /\ \A u \in Announced : Got(u) \in {Round - 1, Round}
    BY <1>0, <1>1, <2>2 DEF Heard
  <2>4. awaited' = Cardinality(Waiting(Round)')
    BY <1>0, <1>10, <2>3
  <2>5. \A u \in Announced' : Got(u)' \in {Round' - 1, Round'}
    <3>1. \A u \in Announced : u \in Threads
      BY DEF Announced
    <3> QED
      BY <1>1, <1>4, <1>8, <2>3, <3>1
  <2> QED
    BY <1>0, <1>1, <2>1, <2>2, <2>3, <2>4, <2>5 DEF Heard
<1>12. MessageTypes'
  <2>1. awaited' \in Nat
    BY <1>0 DEF MessageTypes
  <2> QED
    BY <1>0, <1>2, <2>1 DEF MessageTypes
<1>13. \A s \in Slaves : Followed(s)'
  BY <1>0, BcastsKept, FollowedKept
<1> QED
  BY <1>11, <1>12, <1>13 DEF MessageInv

\* The main thread of the master between the rounds.
LEMMA MessageMain ==
    ASSUME ControlInv, MessageInv, query' = query, UNCHANGED <<slaveVars, tpc>>,
           MainStart \/ MainBroadcast \/ MainBroadcast2 \/ MainNextRound \/ MainEnd
    PROVE  MessageInv'
<1>0. /\ MessageTypes /\ Heard /\ box' = box /\ UNCHANGED <<spc, slave_threads_cnt>>
      /\ awaited \in Nat /\ slave_threads_cnt \in Nat
      /\ \A t \in Announced : t \in Threads /\ Got(t) \in Int
      /\ \A t \in Threads : Got(t) >= 0 /\ (mode = "meta" => tpc[t] # "sent")
  BY MessageParts DEF MainStart, MainBroadcast, MainBroadcast2, MainNextRound, MainEnd, threadVars,
    slaveVars, MessageTypes, Heard, Announced
<1>1. CASE MainStart
  <2>1. main = "start" /\ main' = "threads" /\ awaited' = awaited
    BY <1>1 DEF MainStart
  <2>2. /\ mode' = mode /\ (\A t \in Threads : Got(t)' = Got(t)) /\ (Heard' => MessageInv')
    BY <1>0, <2>1, MainMoves DEF MainLabels
  <2>3. Heard'
    BY <1>0, <2>1, <2>2 DEF Heard, RoundLabels
  <2> QED
    BY <2>2, <2>3
<1>2. CASE MainBroadcast \/ MainBroadcast2
  <2>1. /\ main \in {"recv1", "recv2", "bcast2"} /\ awaited' = awaited
        /\ main = "recv1" => main' = "bcast1" /\ awaited = 0
        /\ main = "recv2" => main' = "bcast2" /\ awaited = 0
        /\ main = "bcast2" => main' = "bcast3"
    BY <1>2 DEF MainBroadcast, MainBroadcast2
  <2>2. main \in RoundLabels /\ main' \in RoundLabels /\ Round' = Round
    BY <2>1 DEF RoundLabels, Round
  <2>3. /\ mode' = mode /\ Announced' = Announced
        /\ \A t \in Threads : Got(t)' = Got(t)
        /\ {t \in Announced' : Got(t)' < Round} = Waiting(Round)
        /\ Heard' => MessageInv'
    BY <1>0, <2>1, MainMoves DEF MainLabels
  <2>4. Waiting(Round)' = Waiting(Round)
    BY <2>2, <2>3 DEF Waiting
  <2>5. /\ mode # "meta" /\ (\A s \in Slaves : spc[s] \notin {"start", "gather"})
        /\ slave_threads_cnt = Cardinality(Announced) /\ awaited = Cardinality(Waiting(Round))
        /\ \A t \in Announced : Got(t) \in {Round - 1, Round}
        /\ main = "bcast2" => awaited = 0
    BY <1>0, <2>1, <2>2 DEF Heard
  <2>6. \A t \in Announced' : Got(t)' \in {Round' - 1, Round'}
    BY <1>0, <2>2, <2>3, <2>5
  <2>7. awaited' = 0 /\ main' \notin {"start", "threads", "join"}
    BY <2>1, <2>5
  <2>8. Heard'
    BY <1>0, <2>1, <2>2, <2>3, <2>4, <2>5, <2>6, <2>7 DEF Heard
  <2> QED
    BY <2>3, <2>8
<1>3. CASE MainNextRound
  <2>1. /\ main \in {"bcast1", "bcast3"} /\ awaited' = slave_threads_cnt
        /\ main = "bcast1" => main' = "recv2" /\ Round = 1 /\ Round' = 2
        /\ main = "bcast3" => main' = "recv3" /\ Round = 2 /\ Round' = 3
    BY <1>3 DEF MainNextRound, Round
  <2>2. /\ awaited = 0 /\ main \in RoundLabels /\ mode # "meta"
        /\ \A s \in Slaves : spc[s] \notin {"start", "gather"}
        /\ slave_threads_cnt = Cardinality(Announced)
    BY <1>0, <2>1 DEF Heard, RoundLabels
  <2>3. \A t \in Announced : Got(t) = Round
    BY <2>2, NobodyAwaited
  <2>4. /\ mode' = mode /\ Announced' = Announced
        /\ \A t \in Threads : Got(t)' = Got(t)
        /\ Heard' => MessageInv'
    BY <1>0, <2>1, MainMoves DEF MainLabels
  <2>5. \A t \in Announced' : Got(t)' \in {Round' - 1, Round'} /\ Got(t)' < Round'
    BY <1>0, <2>1, <2>3, <2>4
  <2>6. Waiting(Round)' = Announced
    BY <2>4, <2>5 DEF Waiting
  <2>7. main' \notin {"start", "threads", "join", "bcast1", "bcast2", "bcast3"}
    BY <2>1
  <2>8. Heard'
    BY <1>0, <2>1, <2>2, <2>4, <2>5, <2>6, <2>7 DEF Heard
  <2> QED
    BY <2>4, <2>8
<1>4. CASE MainEnd
  <2>1. /\ main \in {"recv1", "recv3"} /\ main' = "join" /\ awaited = 0 /\ awaited' = awaited
        /\ main = "recv3" => mode = "tput" /\ Round = 3
        /\ main = "recv1" => mode # "tput" /\ Round = 1
    BY <1>4 DEF MainEnd, Round
  <2>2. /\ main \in RoundLabels /\ mode # "meta"
        /\ \A s \in Slaves : spc[s] \notin {"start", "gather"}
        /\ slave_threads_cnt = Cardinality(Announced)
    BY <1>0, <2>1 DEF Heard, RoundLabels
  <2>3. Round = Rounds
    BY <2>1, <2>2 DEF Rounds
  <2>4. \A t \in Announced : Got(t) = Rounds
    BY <2>1, <2>2, <2>3, NobodyAwaited
  <2>5. /\ mode' = mode /\ Rounds' = Rounds /\ Announced' = Announced
        /\ \A t \in Threads : Got(t)' = Got(t)
        /\ Heard' => MessageInv'
    BY <1>0, <2>1, MainMoves DEF MainLabels
  <2>6. \A t \in Announced' : Got(t)' = Rounds'
    BY <1>0, <2>4, <2>5
  <2>7. Heard'
    BY <1>0, <2>1, <2>2, <2>5, <2>6 DEF Heard, RoundLabels
  <2> QED
    BY <2>5, <2>7
<1> QED
  BY <1>1, <1>2, <1>3, <1>4

\* The invariant is inductive.
LEMMA MessageNext == ControlInv /\ MessageInv /\ [Next]_vars => MessageInv'
<1> SUFFICES ASSUME ControlInv, MessageInv, [Next]_vars PROVE MessageInv'
  OBVIOUS
<1>1. query' = query
  BY StepKinds
<1>2. ASSUME UNCHANGED <<slaveVars, tpc, box, main, slave_threads_cnt, awaited>> PROVE MessageInv'
  BY <1>1, <1>2, MessageElse DEF slaveVars
<1>3. ASSUME NEW p \in Processes, UNCHANGED <<slaveVars, threadVars, masterVars>> PROVE MessageInv'
  BY <1>2, <1>3 DEF threadVars, masterVars, mainVars
<1>4. ASSUME NEW s \in Slaves, SlaveStep(s), UNCHANGED <<ppc, singles, masterVars>> PROVE MessageInv'
  BY <1>1, <1>4, MessageSlave
<1>5. ASSUME NEW t \in Threads, ThreadStep(t), UNCHANGED <<ppc, spc, num_threads_used, team, masterVars>>
      PROVE  MessageInv'
  BY <1>1, <1>5, MessageThread, MessageEnter, MessageBroadcast DEF ThreadStep
<1>6. ASSUME MainStep, UNCHANGED <<ppc, slaveVars, tpc, mpc, prog>> PROVE MessageInv'
  BY <1>1, <1>6, MessageMain, MessageMode, MessageReceive DEF MainStep
<1>7. ASSUME ProgStep, UNCHANGED <<ppc, slaveVars, tpc, mpc, main>> PROVE MessageInv'
  <2>1. UNCHANGED <<box, slave_threads_cnt, awaited>>
    BY <1>7 DEF ProgStep, ProgStart, ProgGoals, ProgEnd, ProgReceive, threadVars, mainVars
  <2> QED
    BY <1>2, <1>7, <2>1
<1>8. ASSUME MasterStep, UNCHANGED <<ppc, slaveVars, tpc, main, prog>> PROVE MessageInv'
  <2>1. UNCHANGED <<box, slave_threads_cnt, awaited>>
    BY <1>8 DEF MasterStep, MasterJoin, MasterMetadata, MasterEnd, threadVars, mainVars
  <2> QED
    BY <1>2, <1>8, <2>1
<1>9. ASSUME UNCHANGED vars PROVE MessageInv'
  BY <1>2, <1>9 DEF vars, threadVars, masterVars, mainVars
<1> QED
  BY <1>3, <1>4, <1>5, <1>6, <1>7, <1>8, <1>9, StepKinds

\* The master waits for exactly the announced threads it has not heard.
THEOREM MessagesHold == Spec => []MessageInv
<1>1. Init => MessageInv
  BY MessageInit
<1> QED
  BY <1>1, MessageNext, ControlHolds, PTL DEF Spec

\* NoMessageLost follows: both threads of the master have reached their ends.
LEMMA NoneLost == ControlInv /\ ReportInv /\ MessageInv => NoMessageLost
<1> SUFFICES ASSUME ControlInv, ReportInv, MessageInv, mpc # "parallel", NEW t \in Threads
             PROVE  ~box[t] /\ reports[t] = 0
  BY DEF NoMessageLost
<1>1. main = "join" /\ prog = "join"
  BY ControlParts DEF MasterInv
<1>2. ~box[t]
  <2> SUFFICES ASSUME box[t] PROVE FALSE
    OBVIOUS
  <2>1. /\ Got(t) = Sent(t) - 1 /\ Got(t) >= 0 /\ Sent(t) \in 0..3 /\ tpc[t] \in ThreadLabels
        /\ \A u \in Announced : Got(u) = Rounds
    BY <1>1, MessageParts DEF Heard
  <2>2. tpc[t] # "idle"
    BY <2>1 DEF Sent, Counting
  <2>3. t \in Announced /\ t \in Team(t[1]) /\ t[1] \in Slaves
    BY <2>2, TeamAnnounced, ThreadOf
  <2>4. Sent(t) = Rounds + 1
    BY <2>1, <2>3 DEF Rounds
  <2>5. CASE mode = "tput"
    BY <2>1, <2>4, <2>5 DEF Rounds
  <2>6. CASE mode # "tput"
    <3>1. tpc[t] \in {"for", "report", "sent", "join"}
      BY <2>3, <2>6, ControlParts DEF TeamInv
    <3>2. mode = "meta" => tpc[t] # "sent"
      BY MessageParts DEF Heard
    <3>3. Sent(t) <= Rounds
      BY <2>6, <3>1, <3>2 DEF Sent, Counting, Rounds
    <3> QED
      BY <2>1, <2>4, <3>3 DEF Rounds
  <2> QED
    BY <2>5, <2>6
<1>3. reports[t] = 0
  <2>1. PICK s \in Slaves : s = t[1]
    BY ThreadOf
  <2>2. query \in Query /\ ReportTypes /\ BarInv /\ Reports(s)
    BY ControlParts DEF ReportInv, ControlTypes
  <2>3. files_cnt[s] = Len(files[s]) /\ Len(files[s]) \in Nat
    BY <1>1, <2>2, FilesAre DEF BarInv
  <2>4. PICK S : S = Own(s) /\ IsFiniteSet(S) /\ t \in S /\ \A u \in S : reports[u] \in Nat
    BY <2>1, <2>2, ThreadsFinite DEF ReportTypes, Own
  <2>5. SumOver(reports, S) \in Nat /\ (SumOver(reports, S) = 0 => \A u \in S : reports[u] = 0)
    BY <2>4, SumNat
  <2>6. next[s] \in 1..(Len(files[s]) + 1) /\ next[s] = 1 + files_cnt[s] + SumOver(reports, S)
    BY <2>2, <2>4 DEF Reports
  <2>7. SumOver(reports, S) = 0
    BY <2>3, <2>5, <2>6
  <2> QED
    BY <2>4, <2>5, <2>7
<1> QED
  BY <1>2, <1>3

\* NoMessageLost, for any slaves, teams and files in every mode: when the master
\* leaves its parallel region it has received every message of every thread, and
\* the slaves have none left to send.  Where a team is smaller than announced the
\* master of a mode with messages never gets there: it waits for the others.
THEOREM NoMessagesLost == Spec => []NoMessageLost
  BY ControlHolds, ReportsHold, MessagesHold, NoneLost, PTL

=============================================================================
