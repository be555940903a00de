-------------------------- MODULE BatchQuery_proofs --------------------------
(***************************************************************************)
(* Proofs about sorting and aggregation, for any slaves, threads, keys and *)
(* memories.  The shared buffer of TPUT is never used before it is filled  *)
(* or after it is freed (BufferAlive).  The records printed are the first  *)
(* of the whole result (TopRecordsPrinted, TputClaims); for TPUT this      *)
(* needs the two conditions DescendingTput and ThresholdFits.              *)
(***************************************************************************)
EXTENDS BatchQuery, SumTheorems

----------------------------------------------------------------------------
(* Control, and the buffer of phase 3.                                     *)

PcLabels ==
    CASE mode = "sort" -> {"sendSort", "done"}
      [] mode = "aggr" -> {"sendAll", "done"}
      [] mode = "tput" -> {"send1", "single2", "single3", "lookup", "barrier", "done"}

MpcLabels ==
    CASE mode = "sort" -> {"recvSort", "done"}
      [] mode = "aggr" -> {"recvAll", "done"}
      [] mode = "tput" -> {"recv1", "recv2", "recv3", "done"}

KeysOf(S) == UNION {DOMAIN mem[t] : t \in S}

BatchTypes ==
    /\ [mode |-> mode, direction |-> direction, rec_limit |-> rec_limit] \in Queries
    /\ mem \in [Threads -> Memories]
    /\ pc \in [Threads -> PcLabels]
    /\ box = [t \in Threads |-> box[t]]
    /\ tput_threshold \in [Slaves -> {NotSet, threshold}]
    /\ tput_rec_buff \in [Slaves -> {NotSet, candidates, Freed}]
    /\ active \subseteq Threads
    /\ mpc \in MpcLabels
    /\ mode # "tput" \/ mpc = "recv1" => threshold = NotSet
    /\ mode # "tput" \/ mpc \in {"recv1", "recv2"} => candidates = NotSet
    /\ mpc = "recv3" => candidates # NotSet
    /\ candidates # NotSet => candidates \subseteq KeysOf(Threads)

\* The buffer is there from the first look-up to the barrier behind the last.
BufferInv ==
    \A t \in Threads :
        /\ pc[t] \in {"lookup", "barrier"} => tput_rec_buff[SlaveOf[t]] # NotSet
        /\ tput_rec_buff[SlaveOf[t]] = Freed => pc[t] \in {"barrier", "done"}

----------------------------------------------------------------------------
(* What the messages hold.                                                 *)

\* The records of a thread when sorting: they stay apart from those of others.
Apart(t) == [r \in {t} \X DOMAIN mem[t] |-> mem[t][r[2]]]

\* The first records of m, all of them for limit zero.
IsFirst(recs, m, limit) ==
    \E K \in IF limit = 0 THEN {DOMAIN m} ELSE Leading(m, limit) : recs = Restricted(m, K)

Content(t) ==
    /\ box[t].tag = "SORT" => mode = "sort" /\ IsFirst(box[t].recs, Apart(t), rec_limit)
    /\ box[t].tag = "AGGR" => mode = "aggr" /\ box[t].recs = Restricted(mem[t], DOMAIN mem[t])
    /\ box[t].tag = "TPUT1" => mode = "tput" /\ IsFirst(box[t].recs, mem[t], rec_limit)
    /\ box[t].tag = "TPUT2" =>
          /\ threshold # NotSet /\ DOMAIN box[t].recs \subseteq DOMAIN mem[t]
          /\ threshold \in Nat =>
                \A k \in DOMAIN mem[t] :
                    Precedes(mem[t][k], threshold) => k \in DOMAIN box[t].recs
    /\ box[t].tag = "TPUT3" =>
          candidates # NotSet /\ box[t].recs = Restricted(mem[t], candidates \cap DOMAIN mem[t])

----------------------------------------------------------------------------
(* What the master has gathered.                                           *)

Heard == Threads \ active

\* The value of a key with every thread, and the sum over some of them.
Val(k) == [t \in Threads |-> IF k \in DOMAIN mem[t] THEN mem[t][k] ELSE 0]

PartSum(k, S) == SumOver(Val(k), S)

\* Sorting: a record the master does not have is preceded by rec_limit others.
SortGathered ==
    mpc = "recvSort" =>
        /\ DOMAIN lnf_mem \subseteq UNION {{t} \X DOMAIN mem[t] : t \in Heard}
        /\ \A r \in DOMAIN lnf_mem : lnf_mem[r] = mem[r[1]][r[2]]
        /\ \A t \in Heard : \A r \in ({t} \X DOMAIN mem[t]) \ DOMAIN lnf_mem :
              /\ rec_limit # 0
              /\ Cardinality({q \in DOMAIN lnf_mem : Precedes(lnf_mem[q], mem[t][r[2]])}) >= rec_limit

\* Aggregation, and the last phase of TPUT: complete sums.
Wanted == IF mode = "tput" THEN candidates ELSE KeysOf(Threads)

SumsGathered ==
    mpc \in {"recvAll", "recv3"} =>
        /\ DOMAIN lnf_mem = Wanted \cap KeysOf(Heard)
        /\ \A k \in DOMAIN lnf_mem : lnf_mem[k] = PartSum(k, Heard)

\* Phase 1: parts of the sums, for at least rec_limit keys if there are so many.
PartsGathered ==
    mpc = "recv1" =>
        /\ DOMAIN lnf_mem \subseteq KeysOf(Heard)
        /\ \A k \in DOMAIN lnf_mem : lnf_mem[k] \in Nat /\ lnf_mem[k] <= PartSum(k, Heard)
        /\ \A t \in Heard : \/ DOMAIN mem[t] \subseteq DOMAIN lnf_mem
                            \/ Cardinality(DOMAIN lnf_mem) >= rec_limit

\* Phase 2: everything that satisfies the threshold.
KeysGathered ==
    mpc = "recv2" =>
        /\ DOMAIN lnf_mem \subseteq KeysOf(Heard)
        /\ threshold \in Nat =>
              \A t \in Heard : \A k \in DOMAIN mem[t] :
                  Precedes(mem[t][k], threshold) => k \in DOMAIN lnf_mem

CandidatesComplete ==
    candidates # NotSet /\ threshold \in Nat =>
        \A t \in Threads : \A k \in DOMAIN mem[t] :
            Precedes(mem[t][k], threshold) => k \in candidates

GatherInv ==
    /\ \A t \in Threads : Content(t)
    /\ SortGathered /\ SumsGathered /\ PartsGathered /\ KeysGathered
    /\ CandidatesComplete

\* The threshold is one the pruning of phase 2 is sound with.
BoundInv ==
    /\ mpc = "recv2" \/ candidates # NotSet => threshold # NotSet
    /\ threshold # NotSet =>
          /\ bottom \in Nat /\ threshold \in Nat
          /\ Cardinality(Threads) * threshold < bottom + Cardinality(Threads)
    /\ BottomIsBound

----------------------------------------------------------------------------
(* Order, memories, first records.                                         *)

\* The memory of a thread.
LEMMA MemIs ==
    ASSUME mem \in [Threads -> Memories]
    PROVE  /\ \A t \in Threads :
                 /\ DOMAIN mem[t] \subseteq Keys /\ IsFiniteSet(DOMAIN mem[t])
                 /\ \A k \in DOMAIN mem[t] : mem[t][k] \in Nat
           /\ \A S \in SUBSET Threads :
                 KeysOf(S) \subseteq Keys /\ IsFiniteSet(KeysOf(S)) /\ KeysOf(S) \subseteq KeysOf(Threads)
<1>1. \A t \in Threads : mem[t] \in Memories
  OBVIOUS
<1>2. \A t \in Threads : DOMAIN mem[t] \subseteq Keys /\ \A k \in DOMAIN mem[t] : mem[t][k] \in Nat
  BY <1>1, InputAssumption
<1>3. IsFiniteSet(Keys)
  BY InputAssumption
<1>4. \A t \in Threads : IsFiniteSet(DOMAIN mem[t])
  BY <1>2, <1>3, FS_Subset
<1>5. \A S \in SUBSET Threads : KeysOf(S) \subseteq Keys /\ KeysOf(S) \subseteq KeysOf(Threads)
  BY <1>2 DEF KeysOf
<1>6. \A S \in SUBSET Threads : IsFiniteSet(KeysOf(S))
  BY <1>3, <1>5, FS_Subset
<1> QED
  BY <1>2, <1>4, <1>5, <1>6

\* The order of the records, in either direction.
LEMMA Order ==
    ASSUME NEW a \in Nat, NEW b \in Nat, NEW c \in Nat
    PROVE  /\ Precedes(a, a)
           /\ Precedes(a, b) \/ Precedes(b, a)
           /\ Precedes(a, b) /\ Precedes(b, c) => Precedes(a, c)
<1>1. CASE direction = "desc"
  BY <1>1 DEF Precedes
<1>2. CASE direction # "desc"
  BY <1>2 DEF Precedes
<1> QED
  BY <1>1, <1>2

\* What a merge holds.
IsMerge(g, m, r) ==
    /\ DOMAIN g = DOMAIN m \cup DOMAIN r
    /\ \A k \in DOMAIN m \cap DOMAIN r : g[k] = m[k] + r[k]
    /\ \A k \in DOMAIN m \ DOMAIN r : m[k] \in Int => g[k] = m[k]
    /\ \A k \in DOMAIN r \ DOMAIN m : r[k] \in Int => g[k] = r[k]

\* Merge is what its description says.
LEMMA MergeIs ==
    ASSUME NEW m, NEW r
    PROVE  IsMerge(Merge(m, r), m, r)
<1>1. PICK g : g = Merge(m, r)
  OBVIOUS
<1>2. DOMAIN g = DOMAIN m \cup DOMAIN r
  BY <1>1 DEF Merge
<1>3. \A k \in DOMAIN m \cap DOMAIN r : g[k] = m[k] + r[k]
  BY <1>1 DEF Merge
<1>4. \A k \in DOMAIN m \ DOMAIN r : g[k] = m[k] + 0
  BY <1>1 DEF Merge
<1>5. \A k \in DOMAIN r \ DOMAIN m : g[k] = 0 + r[k]
  BY <1>1 DEF Merge
<1>6. IsMerge(g, m, r)
  BY <1>2, <1>3, <1>4, <1>5 DEF IsMerge
<1> QED
  BY <1>1, <1>6

\* The smaller of two numbers.
LEMMA SmallerOf ==
    ASSUME NEW a \in Int, NEW b \in Int
    PROVE  /\ Min({a, b}) \in {a, b} /\ Min({a, b}) <= a /\ Min({a, b}) <= b
           /\ a <= b => Min({a, b}) = a
           /\ b <= a => Min({a, b}) = b
<1>1. \E x \in {a, b} : \A y \in {a, b} : x <= y
  <2>1. CASE a <= b
    BY <2>1
  <2>2. CASE ~(a <= b)
    BY <2>2
  <2> QED
    BY <2>1, <2>2
<1>2. Min({a, b}) \in {a, b} /\ Min({a, b}) <= a /\ Min({a, b}) <= b
  BY <1>1 DEF Min
<1> QED
  BY <1>2

\* A subset with as many elements as the whole is the whole.
LEMMA SameSize ==
    ASSUME NEW S, IsFiniteSet(S), NEW T \in SUBSET S
    PROVE  /\ IsFiniteSet(T) /\ Cardinality(T) \in Nat /\ Cardinality(S) \in Nat
           /\ Cardinality(T) <= Cardinality(S)
           /\ Cardinality(S) <= Cardinality(T) => T = S
<1>1. IsFiniteSet(T) /\ Cardinality(T) <= Cardinality(S) /\ (Cardinality(T) = Cardinality(S) => S = T)
  BY FS_Subset
<1>2. Cardinality(T) \in Nat /\ Cardinality(S) \in Nat
  BY <1>1, FS_CardinalityType
<1> QED
  BY <1>1, <1>2

\* Of two finite sets the one that is not smaller has an element the other does
\* not have, unless it is a part of it.
LEMMA OneMore ==
    ASSUME NEW S, NEW T, IsFiniteSet(S), IsFiniteSet(T), Cardinality(S) >= Cardinality(T),
           NEW x \in T, x \notin S
    PROVE  \E y \in S : y \notin T
<1> SUFFICES ASSUME S \subseteq T PROVE FALSE
  OBVIOUS
<1>1. S \in SUBSET T
  OBVIOUS
<1>2. Cardinality(S) \in Nat /\ Cardinality(T) \in Nat
  BY FS_CardinalityType
<1>3. S = T
  BY <1>1, <1>2, SameSize
<1> QED
  BY <1>3

\* The first records of a memory are all records, or limit of them that precede
\* the others.
LEMMA LeadingIs ==
    ASSUME NEW m, IsFiniteSet(DOMAIN m), NEW n \in Nat, NEW K \in Leading(m, n)
    PROVE  /\ K \subseteq DOMAIN m /\ IsFiniteSet(K)
           /\ Cardinality(K) = Min({n, Cardinality(DOMAIN m)})
           /\ \A k \in K, j \in DOMAIN m \ K : Precedes(m[k], m[j])
           /\ K = DOMAIN m \/ Cardinality(K) = n
<1>1. /\ K \subseteq DOMAIN m /\ Cardinality(K) = Min({n, Cardinality(DOMAIN m)})
      /\ \A k \in K, j \in DOMAIN m \ K : Precedes(m[k], m[j])
  BY DEF Leading, kSubset
<1>2. PICK D : D = DOMAIN m /\ IsFiniteSet(D) /\ K \in SUBSET D
  BY <1>1
<1>3. /\ IsFiniteSet(K) /\ Cardinality(D) \in Nat
      /\ Cardinality(D) <= Cardinality(K) => K = D
  BY <1>2, SameSize
<1>4. PICK c \in Nat : c = Cardinality(D)
  BY <1>3
<1>5. Min({n, c}) \in {n, c}
  BY SmallerOf
<1> QED
  BY <1>1, <1>2, <1>3, <1>4, <1>5

\* ... and so are the records of a message.
LEMMA FirstIs ==
    ASSUME NEW m, IsFiniteSet(DOMAIN m), NEW n \in Nat, NEW recs, IsFirst(recs, m, n)
    PROVE  /\ DOMAIN recs \subseteq DOMAIN m /\ IsFiniteSet(DOMAIN recs)
           /\ \A k \in DOMAIN recs : recs[k] = m[k]
           /\ \/ DOMAIN recs = DOMAIN m
              \/ /\ n # 0 /\ Cardinality(DOMAIN recs) = n
                 /\ \A k \in DOMAIN recs, j \in DOMAIN m \ DOMAIN recs : Precedes(m[k], m[j])
<1>1. PICK K \in IF n = 0 THEN {DOMAIN m} ELSE Leading(m, n) : recs = Restricted(m, K)
  BY DEF IsFirst
<1>2. DOMAIN recs = K /\ \A k \in K : recs[k] = m[k]
  BY <1>1 DEF Restricted
<1>3. CASE n = 0
  BY <1>1, <1>2, <1>3
<1>4. CASE n # 0
  <2>1. K \in Leading(m, n)
    BY <1>1, <1>4
  <2>2. /\ K \subseteq DOMAIN m /\ IsFiniteSet(K)
        /\ \A k \in K, j \in DOMAIN m \ K : Precedes(m[k], m[j])
        /\ K = DOMAIN m \/ Cardinality(K) = n
    BY <2>1, LeadingIs
  <2> QED
    BY <1>2, <1>4, <2>2
<1> QED
  BY <1>3, <1>4

\* The records that precede a bound are the first of the memory.
LEMMA LeadingAll ==
    ASSUME NEW m, IsFiniteSet(DOMAIN m), \A k \in DOMAIN m : m[k] \in Nat, NEW b \in Nat,
           NEW K \in Leading(m, Cardinality({k \in DOMAIN m : Precedes(m[k], b)}))
    PROVE  \A k \in DOMAIN m : Precedes(m[k], b) => k \in K
<1> DEFINE S == {k \in DOMAIN m : Precedes(m[k], b)}
<1>1. /\ IsFiniteSet(S) /\ Cardinality(S) \in Nat /\ Cardinality(DOMAIN m) \in Nat
      /\ Cardinality(S) <= Cardinality(DOMAIN m)
  <2>1. S \in SUBSET DOMAIN m
    OBVIOUS
  <2> HIDE DEF S
  <2> QED
    BY <2>1, SameSize
<1>2. /\ K \subseteq DOMAIN m /\ IsFiniteSet(K)
      /\ Cardinality(K) = Min({Cardinality(S), Cardinality(DOMAIN m)})
      /\ \A k \in K, j \in DOMAIN m \ K : Precedes(m[k], m[j])
  <2>1. K \in Leading(m, Cardinality(S))
    OBVIOUS
  <2> HIDE DEF S
  <2> QED
    BY <1>1, <2>1, LeadingIs
<1>3. Cardinality(K) = Cardinality(S)
  <2>1. PICK a \in Nat, c \in Nat : a = Cardinality(S) /\ c = Cardinality(DOMAIN m) /\ a <= c
    BY <1>1
  <2>2. Min({a, c}) = a
    <3>1. a \in Int /\ c \in Int /\ a <= c
      BY <2>1
    <3> QED
      BY <3>1, SmallerOf
  <2> QED
    BY <1>2, <2>1, <2>2
<1> SUFFICES ASSUME NEW x \in S, x \notin K PROVE FALSE
  OBVIOUS
<1>4. PICK y \in K : y \notin S
  <2> HIDE DEF S
  <2>1. Cardinality(K) >= Cardinality(S)
    BY <1>1, <1>3
  <2> QED
    BY <1>1, <1>2, <2>1, OneMore
<1>5. Precedes(m[y], m[x]) /\ Precedes(m[x], b) /\ ~Precedes(m[y], b)
  BY <1>2, <1>4
<1>6. m[x] \in Nat /\ m[y] \in Nat
  BY <1>2, <1>4
<1> QED
  BY <1>5, <1>6, Order

----------------------------------------------------------------------------
(* Steps that leave messages and memories alone.                           *)

\* The command line and the threads' memories never change.
LEMMA ArgsKept ==
    ASSUME UNCHANGED argVars
    PROVE  /\ mode' = mode /\ rec_limit' = rec_limit /\ direction' = direction /\ mem' = mem
           /\ \A a, b : Precedes(a, b)' <=> Precedes(a, b)
           /\ \A m, n : Leading(m, n)' = Leading(m, n)
           /\ \A recs, m, n : IsFirst(recs, m, n)' <=> IsFirst(recs, m, n)
<1>1. mode' = mode /\ rec_limit' = rec_limit /\ direction' = direction /\ mem' = mem
  BY DEF argVars
<1>2. \A a, b : Precedes(a, b)' <=> Precedes(a, b)
  BY <1>1 DEF Precedes
<1>3. ASSUME NEW m, NEW n PROVE Leading(m, n)' = Leading(m, n)
  BY <1>1 DEF Leading, Precedes
<1>4. ASSUME NEW recs, NEW m, NEW n PROVE IsFirst(recs, m, n)' <=> IsFirst(recs, m, n)
  BY <1>1 DEF IsFirst, Leading, Precedes
<1> QED
  BY <1>1, <1>2, <1>3, <1>4

\* The total of a key is a sum over the threads that have it.
Terms(k) == [t \in {u \in Threads : k \in DOMAIN mem[u]} |-> mem[t][k]]

\* The result over all threads that batch queries are measured by is that sum.
LEMMA TotalTerms ==
    \A i : Total(i) = IF mode = "sort" THEN mem[i[1]][i[2]] ELSE SumOver(Terms(i), DOMAIN Terms(i))
  BY DEF Total, Terms, SumOver

\* Sums over the threads depend on the memories only.
LEMMA SumsKept ==
    ASSUME mem' = mem, mode' = mode
    PROVE  /\ \A k, S : PartSum(k, S)' = PartSum(k, S)
           /\ \A k : Total(k)' = Total(k)
<1>1. ASSUME NEW k PROVE Val(k)' = Val(k) /\ Terms(k)' = Terms(k)
  BY DEF Val, Terms
<1>2. ASSUME NEW k, NEW S PROVE PartSum(k, S)' = PartSum(k, S)
  <2>1. PartSum(k, S)' = SumOver(Val(k)', S)
    BY DEF PartSum
  <2> QED
    BY <1>1, <2>1 DEF PartSum
<1>3. ASSUME NEW k PROVE Total(k)' = Total(k)
  <2>1. (\A i : Total(i) = IF mode = "sort" THEN mem[i[1]][i[2]] ELSE SumOver(Terms(i), DOMAIN Terms(i)))'
    BY TotalTerms, PTL
  <2> QED
    BY <1>1, <2>1, TotalTerms
<1> QED
  BY <1>2, <1>3

\* A message that is under way keeps its meaning.
LEMMA ContentKept ==
    ASSUME UNCHANGED argVars, NEW t \in Threads, box'[t] = box[t], Content(t),
           threshold' = threshold \/ threshold = NotSet,
           candidates' = candidates \/ candidates = NotSet
    PROVE  Content(t)'
<1>1. mode' = mode /\ rec_limit' = rec_limit /\ direction' = direction /\ mem' = mem
  BY DEF argVars
<1>2. /\ IsFirst(box[t].recs, Apart(t), rec_limit) => IsFirst(box[t].recs, Apart(t), rec_limit)'
      /\ IsFirst(box[t].recs, mem[t], rec_limit) => IsFirst(box[t].recs, mem[t], rec_limit)'
  BY <1>1 DEF IsFirst, Leading, Precedes, Apart
<1> QED
  BY <1>1, <1>2 DEF Content, Precedes, Restricted

\* What the master has gathered keeps its meaning.
LEMMA GatheredKept ==
    ASSUME UNCHANGED argVars, UNCHANGED masterVars
    PROVE  SortGathered /\ SumsGathered /\ PartsGathered /\ KeysGathered /\ CandidatesComplete
           => (SortGathered /\ SumsGathered /\ PartsGathered /\ KeysGathered /\ CandidatesComplete)'
<1>1. /\ mode' = mode /\ rec_limit' = rec_limit /\ direction' = direction /\ mem' = mem
      /\ mpc' = mpc /\ active' = active /\ lnf_mem' = lnf_mem /\ bottom' = bottom
      /\ threshold' = threshold /\ candidates' = candidates
  BY DEF argVars, masterVars
<1>2. Heard' = Heard /\ \A S : KeysOf(S)' = KeysOf(S)
  BY <1>1 DEF Heard, KeysOf
<1>3. \A k, S : PartSum(k, S)' = PartSum(k, S)
  BY <1>1, SumsKept
<1>4. SortGathered => SortGathered'
  BY <1>1, <1>2 DEF SortGathered, Precedes
<1>5. SumsGathered => SumsGathered'
  BY <1>1, <1>2, <1>3 DEF SumsGathered, Wanted
<1>6. PartsGathered => PartsGathered'
  BY <1>1, <1>2, <1>3 DEF PartsGathered
<1>7. KeysGathered => KeysGathered'
  BY <1>1, <1>2 DEF KeysGathered, Precedes
<1>8. CandidatesComplete => CandidatesComplete'
  BY <1>1 DEF CandidatesComplete, Precedes
<1> QED
  BY <1>4, <1>5, <1>6, <1>7, <1>8

----------------------------------------------------------------------------
(* The invariant, and the steps of the threads.                            *)

BatchInv == BatchTypes /\ BufferInv /\ GatherInv

\* What sending does to the messages under way.
LEMMA SendEffect ==
    ASSUME box = [u \in Threads |-> box[u]], NEW t \in Threads, NEW m, NEW n, NEW tag,
           SendRawMem(t, m, n, tag)
    PROVE  /\ box' = [u \in Threads |-> box'[u]]
           /\ \A u \in Threads \ {t} : box'[u] = box[u]
           /\ box'[t].tag = tag /\ IsFirst(box'[t].recs, m, n)
<1>1. PICK K \in IF n = 0 THEN {DOMAIN m} ELSE Leading(m, n) :
         box' = [box EXCEPT ![t] = [tag |-> tag, recs |-> Restricted(m, K)]]
  BY DEF SendRawMem
<1>2. DOMAIN box = Threads
  <2>1. DOMAIN [u \in Threads |-> box[u]] = Threads
    OBVIOUS
  <2> QED
    BY <2>1
<1>3. PICK r : r = Restricted(m, K)
  OBVIOUS
<1>4. /\ DOMAIN box' = Threads /\ \A u \in Threads \ {t} : box'[u] = box[u]
      /\ box'[t] = [tag |-> tag, recs |-> r]
  BY <1>1, <1>2, <1>3
<1>5. box' = [u \in Threads |-> box'[u]]
  BY <1>1, <1>2
<1>6. box'[t].tag = tag /\ box'[t].recs = r
  BY <1>4
<1>7. IsFirst(r, m, n)
  BY <1>1, <1>3 DEF IsFirst
<1> QED
  BY <1>4, <1>5, <1>6, <1>7

\* A buffer that has been filled is neither unset nor freed.
LEMMA CandidatesReal ==
    ASSUME BatchTypes, candidates # NotSet
    PROVE  candidates # Freed /\ candidates \subseteq Keys
<1>1. candidates \subseteq KeysOf(Threads) /\ mem \in [Threads -> Memories]
  BY DEF BatchTypes
<1>2. KeysOf(Threads) \subseteq Keys
  BY <1>1, MemIs
<1> QED
  BY <1>1, <1>2, SentinelAssumption

\* A sending thread's message says what it should.
LEMMA SentContent ==
    ASSUME BatchInv, NEW t \in Threads,
           SendSorted(t) \/ SendAll(t) \/ Phase1(t) \/ Phase2(t) \/ Phase3(t)
    PROVE  /\ Content(t)' /\ box' = [u \in Threads |-> box'[u]]
           /\ \A u \in Threads \ {t} : box'[u] = box[u]
<1>0. box = [u \in Threads |-> box[u]] /\ BatchTypes /\ mem \in [Threads -> Memories]
  BY DEF BatchInv, BatchTypes
<1>a. UNCHANGED argVars /\ UNCHANGED masterVars
  BY DEF SendSorted, SendAll, Phase1, Phase2, Phase3
<1>b. /\ mode' = mode /\ rec_limit' = rec_limit /\ direction' = direction /\ mem' = mem
      /\ threshold' = threshold /\ candidates' = candidates
      /\ Apart(t)' = Apart(t)
  BY <1>a DEF argVars, masterVars, Apart
<1>c. mode \in {"sort", "aggr", "tput"} /\ pc[t] \in PcLabels /\ rec_limit \in Nat
  <2>1. /\ [mode |-> mode, direction |-> direction, rec_limit |-> rec_limit] \in Queries
        /\ pc \in [Threads -> PcLabels]
    BY <1>0 DEF BatchTypes
  <2> QED
    BY <2>1, InputAssumption
<1>1. CASE SendSorted(t)
  <2>1. SendRawMem(t, Apart(t), rec_limit, "SORT") /\ mode = "sort"
    BY <1>1, <1>c DEF SendSorted, Apart, PcLabels
  <2>2. /\ box' = [u \in Threads |-> box'[u]] /\ \A u \in Threads \ {t} : box'[u] = box[u]
        /\ box'[t].tag = "SORT" /\ IsFirst(box'[t].recs, Apart(t), rec_limit)
    BY <1>0, <2>1, SendEffect
  <2>3. IsFirst(box[t].recs, Apart(t), rec_limit)'
    BY <1>b, <2>2 DEF IsFirst, Leading, Precedes
  <2> QED
    BY <1>b, <2>1, <2>2, <2>3 DEF Content
<1>2. CASE SendAll(t)
  <2>1. SendRawMem(t, mem[t], 0, "AGGR") /\ mode = "aggr"
    BY <1>2, <1>c DEF SendAll, PcLabels
  <2>2. /\ box' = [u \in Threads |-> box'[u]] /\ \A u \in Threads \ {t} : box'[u] = box[u]
        /\ box'[t].tag = "AGGR" /\ IsFirst(box'[t].recs, mem[t], 0)
    BY <1>0, <2>1, SendEffect
  <2>3. box'[t].recs = Restricted(mem[t], DOMAIN mem[t])
    BY <2>2 DEF IsFirst
  <2> QED
    BY <1>b, <2>1, <2>2, <2>3 DEF Content, Restricted
<1>3. CASE Phase1(t)
  <2>1. SendRawMem(t, mem[t], rec_limit, "TPUT1") /\ mode = "tput"
    BY <1>3, <1>c DEF Phase1, PcLabels
  <2>2. /\ box' = [u \in Threads |-> box'[u]] /\ \A u \in Threads \ {t} : box'[u] = box[u]
        /\ box'[t].tag = "TPUT1" /\ IsFirst(box'[t].recs, mem[t], rec_limit)
    BY <1>0, <2>1, SendEffect
  <2>3. IsFirst(box[t].recs, mem[t], rec_limit)'
    BY <1>b, <2>2 DEF IsFirst, Leading, Precedes
  <2> QED
    BY <1>b, <2>1, <2>2, <2>3 DEF Content
<1>4. CASE Phase2(t)
  <2>1. SendRawMem(t, mem[t], ThresholdCnt(t), "TPUT2") /\ tput_threshold[SlaveOf[t]] # NotSet
    BY <1>4 DEF Phase2
  <2>2. /\ box' = [u \in Threads |-> box'[u]] /\ \A u \in Threads \ {t} : box'[u] = box[u]
        /\ box'[t].tag = "TPUT2" /\ IsFirst(box'[t].recs, mem[t], ThresholdCnt(t))
    BY <1>0, <2>1, SendEffect
  <2>3. tput_threshold[SlaveOf[t]] = threshold /\ threshold # NotSet
    BY <1>0, <2>1, ThreadsAssumption DEF BatchTypes
  <2>4. PICK r, m, n : r = box'[t].recs /\ m = mem[t] /\ n = ThresholdCnt(t)
    OBVIOUS
  <2>5. IsFiniteSet(DOMAIN m) /\ \A k \in DOMAIN m : m[k] \in Nat
    BY <1>0, <2>4, MemIs
  <2>6. n = Cardinality({k \in DOMAIN m : Precedes(m[k], threshold)})
    BY <2>3, <2>4 DEF ThresholdCnt
  <2>7. n \in Nat
    <3>1. {k \in DOMAIN m : Precedes(m[k], threshold)} \in SUBSET DOMAIN m
      OBVIOUS
    <3>2. Cardinality({k \in DOMAIN m : Precedes(m[k], threshold)}) \in Nat
      BY <2>5, <3>1, SameSize
    <3> QED
      BY <2>6, <3>2
  <2>8. IsFirst(r, m, n)
    BY <2>2, <2>4
  <2>9. DOMAIN r \subseteq DOMAIN m
    BY <2>5, <2>7, <2>8, FirstIs
  <2>10. ASSUME threshold \in Nat PROVE \A k \in DOMAIN m : Precedes(m[k], threshold) => k \in DOMAIN r
    <3>1. CASE n = 0
      BY <2>8, <3>1 DEF IsFirst, Restricted
    <3>2. CASE n # 0
      <4>1. PICK K \in Leading(m, n) : r = Restricted(m, K)
        BY <2>8, <3>2 DEF IsFirst
      <4>2. PICK b \in Nat : b = threshold
        BY <2>10
      <4>3. K \in Leading(m, Cardinality({k \in DOMAIN m : Precedes(m[k], b)}))
        BY <2>6, <4>1, <4>2
      <4>4. \A k \in DOMAIN m : Precedes(m[k], b) => k \in K
        BY <2>5, <4>3, LeadingAll
      <4> QED
        BY <4>1, <4>2, <4>4 DEF Restricted
    <3> QED
      BY <3>1, <3>2
  <2>11. threshold \in Nat => \A k \in DOMAIN mem[t] : Precedes(mem[t][k], threshold) => k \in DOMAIN box'[t].recs
    BY <2>4, <2>10
  <2> QED
    BY <1>b, <2>2, <2>3, <2>4, <2>9, <2>11 DEF Content, Precedes
<1>5. CASE Phase3(t)
  <2> DEFINE found == tput_rec_buff[SlaveOf[t]] \cap DOMAIN mem[t]
  <2>1. SendRawMem(t, Restricted(mem[t], found), 0, "TPUT3") /\ pc[t] = "lookup"
    BY <1>5 DEF Phase3
  <2>2. /\ box' = [u \in Threads |-> box'[u]] /\ \A u \in Threads \ {t} : box'[u] = box[u]
        /\ box'[t].tag = "TPUT3" /\ IsFirst(box'[t].recs, Restricted(mem[t], found), 0)
    BY <1>0, <2>1, SendEffect
  <2>3. /\ tput_rec_buff[SlaveOf[t]] \notin {NotSet, Freed}
        /\ tput_rec_buff[SlaveOf[t]] \in {NotSet, candidates, Freed}
    BY <1>0, <2>1, ThreadsAssumption DEF BatchInv, BufferInv, BatchTypes
  <2>4. tput_rec_buff[SlaveOf[t]] = candidates /\ candidates # NotSet
    BY <2>3
  <2>5. box'[t].recs = Restricted(mem[t], found)
    BY <2>2 DEF IsFirst, Restricted
  <2> QED
    BY <1>b, <2>2, <2>4, <2>5 DEF Content, Restricted
<1> QED
  BY <1>1, <1>2, <1>3, <1>4, <1>5

\* A step of a thread.
LEMMA ThreadStepKeeps ==
    ASSUME BatchInv, NEW t \in Threads, ThreadStep(t)
    PROVE  BatchInv'
<1> DEFINE s == SlaveOf[t]
<1>0. BatchTypes /\ BufferInv /\ GatherInv /\ s \in Slaves /\ \A u \in Threads : SlaveOf[u] \in Slaves
  BY ThreadsAssumption DEF BatchInv
<1>1. UNCHANGED argVars /\ UNCHANGED masterVars
  BY DEF ThreadStep, SendSorted, SendAll, Phase1, Bcast2, Phase2, Bcast3, EnterPhase3, Phase3, FreeBuff
<1>2. /\ mode' = mode /\ rec_limit' = rec_limit /\ direction' = direction /\ mem' = mem
      /\ mpc' = mpc /\ active' = active /\ threshold' = threshold /\ candidates' = candidates
      /\ KeysOf(Threads)' = KeysOf(Threads) /\ MpcLabels' = MpcLabels /\ PcLabels' = PcLabels
  BY <1>1 DEF argVars, masterVars, KeysOf, MpcLabels, PcLabels
<1>3. /\ pc \in [Threads -> PcLabels] /\ box = [u \in Threads |-> box[u]]
      /\ tput_threshold \in [Slaves -> {NotSet, threshold}]
      /\ tput_rec_buff \in [Slaves -> {NotSet, candidates, Freed}]
      /\ mode \in {"sort", "aggr", "tput"}
      /\ candidates # NotSet => candidates # Freed
  <2>1. [mode |-> mode, direction |-> direction, rec_limit |-> rec_limit] \in Queries
    BY <1>0 DEF BatchTypes
  <2>2. mode \in {"sort", "aggr", "tput"}
    BY <2>1, InputAssumption
  <2> QED
    BY <1>0, <2>2, CandidatesReal DEF BatchTypes
<1>4. (SortGathered /\ SumsGathered /\ PartsGathered /\ KeysGathered /\ CandidatesComplete)'
  BY <1>0, <1>1, GatheredKept DEF GatherInv
<1>5. ASSUME /\ \A u \in Threads \ {t} : box'[u] = box[u]
             /\ Content(t)'
      PROVE  GatherInv'
  <2>1. ASSUME NEW u \in Threads PROVE Content(u)'
    <3>1. CASE u = t
      BY <1>5, <3>1
    <3>2. CASE u # t
      <4>1. Content(u) /\ box'[u] = box[u]
        BY <1>0, <1>5, <3>2 DEF GatherInv
      <4> QED
        BY <1>1, <1>2, <4>1, ContentKept
    <3> QED
      BY <3>1, <3>2
  <2> QED
    BY <1>4, <2>1 DEF GatherInv
<1>6. ASSUME box' = box PROVE GatherInv'
  <2>1. Content(t) /\ box'[t] = box[t]
    BY <1>0, <1>6 DEF GatherInv
  <2>2. Content(t)'
    BY <1>1, <1>2, <2>1, ContentKept
  <2> QED
    BY <1>5, <1>6, <2>2
<1>7. ASSUME pc' \in [Threads -> PcLabels], box' = [u \in Threads |-> box'[u]],
             tput_threshold' \in [Slaves -> {NotSet, threshold}],
             tput_rec_buff' \in [Slaves -> {NotSet, candidates, Freed}]
      PROVE  BatchTypes'
  BY <1>0, <1>2, <1>7 DEF BatchTypes
<1>8. CASE SendSorted(t) \/ SendAll(t) \/ Phase1(t) \/ Phase2(t) \/ Phase3(t)
  <2>1. /\ Content(t)' /\ box' = [u \in Threads |-> box'[u]]
        /\ \A u \in Threads \ {t} : box'[u] = box[u]
    BY <1>8, SentContent
  <2>2. /\ UNCHANGED <<tput_threshold, tput_rec_buff>>
        /\ \E l \in PcLabels :
              /\ pc' = [pc EXCEPT ![t] = l]
              /\ l \in {"lookup", "barrier"} => pc[t] = "lookup"
              /\ pc[t] \notin {"barrier", "done"} /\ (pc[t] = "lookup" => l = "barrier")
              /\ pc[t] # "lookup" => tput_rec_buff[s] # Freed
    <3>1. pc[t] \in PcLabels /\ (pc[t] \notin {"barrier", "done"} => tput_rec_buff[s] # Freed)
      BY <1>0, <1>3 DEF BufferInv
    <3>2. CASE SendSorted(t)
      BY <3>1, <3>2, <1>3 DEF SendSorted, GoTo, PcLabels
    <3>3. CASE SendAll(t)
      BY <3>1, <3>3, <1>3 DEF SendAll, GoTo, PcLabels
    <3>4. CASE Phase1(t)
      BY <3>1, <3>4, <1>3 DEF Phase1, GoTo, PcLabels
    <3>5. CASE Phase2(t)
      BY <3>1, <3>5, <1>3 DEF Phase2, GoTo, PcLabels
    <3>6. CASE Phase3(t)
      BY <3>1, <3>6, <1>3 DEF Phase3, GoTo, PcLabels
    <3> QED
      BY <1>8, <3>2, <3>3, <3>4, <3>5, <3>6
  <2>3. BatchTypes'
    BY <1>3, <1>7, <2>1, <2>2
  <2>4. BufferInv'
    BY <1>0, <1>3, <2>2 DEF BufferInv
  <2> QED
    BY <1>5, <2>1, <2>3, <2>4 DEF BatchInv
<1>9. CASE Bcast2(t)
  <2>1. /\ UNCHANGED <<pc, tput_rec_buff, box>>
        /\ tput_threshold' = [tput_threshold EXCEPT ![s] = threshold]
    BY <1>9 DEF Bcast2
  <2>2. BatchTypes'
    BY <1>0, <1>3, <1>7, <2>1
  <2>3. BufferInv'
    BY <1>0, <2>1 DEF BufferInv
  <2> QED
    BY <1>6, <2>1, <2>2, <2>3 DEF BatchInv
<1>10. CASE Bcast3(t)
  <2>1. /\ UNCHANGED <<pc, tput_threshold, box>> /\ candidates # NotSet
        /\ tput_rec_buff' = [tput_rec_buff EXCEPT ![s] = candidates]
    BY <1>10 DEF Bcast3
  <2>2. BatchTypes'
    BY <1>0, <1>3, <1>7, <2>1
  <2>3. BufferInv'
    BY <1>0, <1>3, <2>1 DEF BufferInv
  <2> QED
    BY <1>6, <2>1, <2>2, <2>3 DEF BatchInv
<1>11. CASE EnterPhase3(t)
  <2>1. /\ UNCHANGED <<tput_threshold, tput_rec_buff, box>>
        /\ pc[t] = "single3" /\ tput_rec_buff[s] # NotSet
        /\ pc' = [pc EXCEPT ![t] = "lookup"]
    BY <1>11 DEF EnterPhase3, GoTo
  <2>2. "lookup" \in PcLabels
    BY <1>3, <2>1 DEF PcLabels
  <2>3. BatchTypes'
    BY <1>0, <1>3, <1>7, <2>1, <2>2
  <2>4. BufferInv'
    BY <1>0, <1>3, <2>1 DEF BufferInv
  <2> QED
    BY <1>6, <2>1, <2>3, <2>4 DEF BatchInv
<1>12. CASE FreeBuff(t)
  <2>1. /\ UNCHANGED <<tput_threshold, box>> /\ pc[t] = "barrier"
        /\ \A u \in Threads : SlaveOf[u] = s => pc[u] \in {"barrier", "done"}
        /\ tput_rec_buff' = [tput_rec_buff EXCEPT ![s] = Freed]
        /\ pc' = [pc EXCEPT ![t] = "done"]
    BY <1>12 DEF FreeBuff, GoTo, Team
  <2>2. "done" \in PcLabels
    BY <1>3 DEF PcLabels
  <2>3. BatchTypes'
    BY <1>0, <1>3, <1>7, <2>1, <2>2
  <2>4. BufferInv'
    BY <1>0, <1>3, <2>1, SentinelAssumption DEF BufferInv
  <2> QED
    BY <1>6, <2>1, <2>3, <2>4 DEF BatchInv
<1> QED
  BY <1>8, <1>9, <1>10, <1>11, <1>12 DEF ThreadStep

----------------------------------------------------------------------------
(* The master receives the records of a thread.                            *)

\* The sum of a key over one more thread.
LEMMA PartSumStep ==
    ASSUME mem \in [Threads -> Memories], NEW k, NEW S \in SUBSET Threads, NEW t \in Threads \ S
    PROVE  /\ PartSum(k, S) \in Nat
           /\ k \notin KeysOf(S) => PartSum(k, S) = 0
           /\ k \in DOMAIN mem[t] => PartSum(k, S \cup {t}) = PartSum(k, S) + mem[t][k]
           /\ k \notin DOMAIN mem[t] => PartSum(k, S \cup {t}) = PartSum(k, S)
<1>1. IsFiniteSet(S) /\ t \notin S /\ \A u \in S \cup {t} : u \in Threads
  BY ThreadsAssumption, FS_Subset
<1>2. PICK f : f = Val(k)
  OBVIOUS
<1>3. /\ \A u \in Threads : f[u] \in Nat /\ (k \notin DOMAIN mem[u] => f[u] = 0)
      /\ \A u \in Threads : k \in DOMAIN mem[u] => f[u] = mem[u][k]
  <2>1. \A u \in Threads : \A i \in DOMAIN mem[u] : mem[u][i] \in Nat
    BY MemIs
  <2>2. ASSUME NEW u \in Threads PROVE f[u] = IF k \in DOMAIN mem[u] THEN mem[u][k] ELSE 0
    BY <1>2 DEF Val
  <2> QED
    BY <2>1, <2>2
<1>4. \A u \in S \cup {t} : f[u] \in Int /\ f[u] \in Nat
  BY <1>1, <1>3
<1>5. SumOver(f, S) \in Nat
  BY <1>1, <1>4, SumNat
<1>6. SumOver(f, S \cup {t}) = f[t] + SumOver(f, S)
  BY <1>1, <1>4, SumExtend
<1>7. ASSUME k \notin KeysOf(S) PROVE SumOver(f, S) = 0
  <2>1. \A u \in S : f[u] = 0
    BY <1>1, <1>3, <1>7 DEF KeysOf
  <2> QED
    BY <1>1, <2>1, SumZero
<1>8. PartSum(k, S) = SumOver(f, S) /\ PartSum(k, S \cup {t}) = SumOver(f, S \cup {t})
  BY <1>2 DEF PartSum
<1>9. f[t] \in Nat
  BY <1>3
<1>10. k \in DOMAIN mem[t] => f[t] = mem[t][k]
  BY <1>3
<1>11. k \notin DOMAIN mem[t] => f[t] = 0
  BY <1>3
<1> QED
  BY <1>5, <1>6, <1>7, <1>8, <1>9, <1>10, <1>11

\* What a step that receives a message does.
LEMMA RecvEffect ==
    ASSUME BatchInv, NEW t \in Threads, Recv(t)
    PROVE  /\ t \notin Heard /\ Heard' = Heard \cup {t} /\ Heard \in SUBSET Threads
           /\ lnf_mem' = Merge(lnf_mem, box[t].recs)
           /\ UNCHANGED argVars /\ mpc' = mpc /\ threshold' = threshold /\ candidates' = candidates
           /\ KeysOf(Heard') = KeysOf(Heard) \cup DOMAIN mem[t]
           /\ KeysOf(Heard)' = KeysOf(Heard')
           /\ box[t].tag = Tag /\ Content(t)
           /\ mem \in [Threads -> Memories] /\ mem' = mem
           /\ rec_limit \in Nat /\ mode \in {"sort", "aggr", "tput"} /\ mpc \in MpcLabels
<1>1. BatchTypes /\ GatherInv
  BY DEF BatchInv
<1>2. /\ t \in active /\ active \subseteq Threads /\ active' = active \ {t}
      /\ lnf_mem' = Merge(lnf_mem, box[t].recs)
      /\ UNCHANGED argVars /\ mpc' = mpc /\ threshold' = threshold /\ candidates' = candidates
      /\ box[t].tag = Tag
  BY <1>1 DEF Recv, BatchTypes
<1>3. t \notin Heard /\ Heard' = Heard \cup {t} /\ Heard \in SUBSET Threads
  BY <1>2 DEF Heard
<1>4. mem' = mem
  BY <1>2 DEF argVars
<1>5. KeysOf(Heard') = KeysOf(Heard) \cup DOMAIN mem[t] /\ KeysOf(Heard)' = KeysOf(Heard')
  BY <1>3, <1>4 DEF KeysOf
<1>6. [mode |-> mode, direction |-> direction, rec_limit |-> rec_limit] \in Queries
  BY <1>1 DEF BatchTypes
<1>7. mode \in {"sort", "aggr", "tput"} /\ rec_limit \in Nat
  BY <1>6, InputAssumption
<1> QED
  BY <1>1, <1>2, <1>3, <1>4, <1>5, <1>7 DEF GatherInv, BatchTypes

\* Sums of an aggregation, or of the third phase of TPUT.
LEMMA RecvSums ==
    ASSUME BatchInv, NEW t \in Threads, Recv(t)
    PROVE  SumsGathered'
<1>0. /\ t \notin Heard /\ Heard' = Heard \cup {t} /\ Heard \in SUBSET Threads
      /\ lnf_mem' = Merge(lnf_mem, box[t].recs)
      /\ UNCHANGED argVars /\ mpc' = mpc /\ candidates' = candidates
      /\ KeysOf(Heard') = KeysOf(Heard) \cup DOMAIN mem[t]
      /\ KeysOf(Heard)' = KeysOf(Heard')
      /\ box[t].tag = Tag /\ Content(t) /\ mem' = mem
      /\ mem \in [Threads -> Memories] /\ mode \in {"sort", "aggr", "tput"} /\ mpc \in MpcLabels
  BY RecvEffect
<1>1. mode' = mode /\ KeysOf(Threads)' = KeysOf(Threads) /\ Wanted' = Wanted
  BY <1>0 DEF argVars, KeysOf, Wanted
<1> SUFFICES ASSUME mpc \in {"recvAll", "recv3"}
             PROVE  /\ DOMAIN lnf_mem' = Wanted \cap KeysOf(Heard')
                    /\ \A k \in DOMAIN lnf_mem' : lnf_mem'[k] = PartSum(k, Heard')
  <2>1. \A k, S : PartSum(k, S)' = PartSum(k, S)
    BY <1>0, <1>1, SumsKept
  <2> QED
    BY <1>0, <1>1, <2>1 DEF SumsGathered
<1>2. PICK m, r : m = lnf_mem /\ r = box[t].recs
  OBVIOUS
<1>3. DOMAIN r = Wanted \cap DOMAIN mem[t] /\ \A k \in DOMAIN r : r[k] = mem[t][k]
  <2>1. CASE mpc = "recvAll"
    <3>1. mode = "aggr" /\ box[t].tag = "AGGR"
      BY <1>0, <2>1 DEF MpcLabels, Tag
    <3>2. r = Restricted(mem[t], DOMAIN mem[t]) /\ Wanted = KeysOf(Threads)
      BY <1>0, <1>2, <3>1 DEF Content, Wanted
    <3> QED
      BY <3>2 DEF KeysOf, Restricted
  <2>2. CASE mpc = "recv3"
    <3>1. mode = "tput" /\ box[t].tag = "TPUT3"
      BY <1>0, <2>2 DEF MpcLabels, Tag
    <3>2. r = Restricted(mem[t], candidates \cap DOMAIN mem[t]) /\ Wanted = candidates
      BY <1>0, <1>2, <3>1 DEF Content, Wanted
    <3> QED
      BY <3>2 DEF Restricted
  <2> QED
    BY <2>1, <2>2
<1>4. DOMAIN m = Wanted \cap KeysOf(Heard) /\ \A k \in DOMAIN m : m[k] = PartSum(k, Heard)
  BY <1>2 DEF BatchInv, GatherInv, SumsGathered
<1>5. \A k \in DOMAIN mem[t] : mem[t][k] \in Nat
  BY <1>0, MemIs
<1>g. PICK g : g = Merge(m, r)
  OBVIOUS
<1>m. /\ DOMAIN g = DOMAIN m \cup DOMAIN r
      /\ \A k \in DOMAIN m \cap DOMAIN r : g[k] = m[k] + r[k]
      /\ \A k \in DOMAIN m \ DOMAIN r : m[k] \in Int => g[k] = m[k]
      /\ \A k \in DOMAIN r \ DOMAIN m : r[k] \in Int => g[k] = r[k]
  <2>1. IsMerge(g, m, r)
    BY <1>g, MergeIs
  <2> QED
    BY <2>1 DEF IsMerge
<1>6. DOMAIN g = Wanted \cap KeysOf(Heard')
  BY <1>0, <1>3, <1>4, <1>m
<1>7. ASSUME NEW k \in DOMAIN g PROVE g[k] = PartSum(k, Heard')
  <2>1. /\ PartSum(k, Heard) \in Nat
        /\ k \notin KeysOf(Heard) => PartSum(k, Heard) = 0
        /\ k \in DOMAIN mem[t] => PartSum(k, Heard') = PartSum(k, Heard) + mem[t][k]
        /\ k \notin DOMAIN mem[t] => PartSum(k, Heard') = PartSum(k, Heard)
    BY <1>0, PartSumStep
  <2>2. k \in Wanted /\ DOMAIN g = DOMAIN m \cup DOMAIN r
    BY <1>6, <1>m
  <2>3. CASE k \in DOMAIN m /\ k \in DOMAIN r
    <3>1. g[k] = m[k] + r[k]
      BY <2>3, <1>m
    <3> QED
      BY <1>3, <1>4, <2>1, <2>3, <3>1
  <2>4. CASE k \in DOMAIN m /\ k \notin DOMAIN r
    <3>1. m[k] \in Int
      BY <1>4, <2>1, <2>4
    <3>2. g[k] = m[k]
      BY <2>4, <3>1, <1>m
    <3> QED
      BY <1>3, <1>4, <2>1, <2>2, <2>4, <3>2
  <2>5. CASE k \notin DOMAIN m /\ k \in DOMAIN r
    <3>1. r[k] \in Int /\ r[k] = mem[t][k] /\ r[k] \in Nat
      BY <1>3, <1>5, <2>5
    <3>2. g[k] = r[k]
      BY <2>5, <3>1, <1>m
    <3> QED
      BY <1>3, <1>4, <2>1, <2>2, <2>5, <3>1, <3>2
  <2> QED
    BY <2>2, <2>3, <2>4, <2>5
<1> QED
  BY <1>0, <1>2, <1>g, <1>6, <1>7

\* Keys of the second phase of TPUT.
LEMMA RecvKeys ==
    ASSUME BatchInv, NEW t \in Threads, Recv(t)
    PROVE  KeysGathered'
<1>0. /\ t \notin Heard /\ Heard' = Heard \cup {t} /\ Heard \in SUBSET Threads
      /\ lnf_mem' = Merge(lnf_mem, box[t].recs)
      /\ UNCHANGED argVars /\ mpc' = mpc /\ threshold' = threshold
      /\ KeysOf(Heard') = KeysOf(Heard) \cup DOMAIN mem[t]
      /\ KeysOf(Heard)' = KeysOf(Heard')
      /\ box[t].tag = Tag /\ Content(t) /\ mem' = mem
  BY RecvEffect
<1>1. direction' = direction
  BY <1>0 DEF argVars
<1> SUFFICES ASSUME mpc = "recv2"
             PROVE  /\ DOMAIN lnf_mem' \subseteq KeysOf(Heard')
                    /\ threshold \in Nat =>
                          \A u \in Heard' : \A k \in DOMAIN mem[u] :
                              Precedes(mem[u][k], threshold) => k \in DOMAIN lnf_mem'
  BY <1>0, <1>1 DEF KeysGathered, Precedes
<1>2. DOMAIN lnf_mem' = DOMAIN lnf_mem \cup DOMAIN box[t].recs
  BY <1>0, MergeIs DEF IsMerge
<1>3. /\ DOMAIN box[t].recs \subseteq DOMAIN mem[t]
      /\ threshold \in Nat =>
            \A k \in DOMAIN mem[t] : Precedes(mem[t][k], threshold) => k \in DOMAIN box[t].recs
  BY <1>0 DEF Content, Tag
<1>4. /\ DOMAIN lnf_mem \subseteq KeysOf(Heard)
      /\ threshold \in Nat =>
            \A u \in Heard : \A k \in DOMAIN mem[u] :
                Precedes(mem[u][k], threshold) => k \in DOMAIN lnf_mem
  BY DEF BatchInv, GatherInv, KeysGathered
<1> QED
  BY <1>0, <1>2, <1>3, <1>4

\* Parts of sums in the first phase of TPUT.
LEMMA RecvParts ==
    ASSUME BatchInv, NEW t \in Threads, Recv(t)
    PROVE  PartsGathered'
<1>0. /\ t \notin Heard /\ Heard' = Heard \cup {t} /\ Heard \in SUBSET Threads
      /\ lnf_mem' = Merge(lnf_mem, box[t].recs)
      /\ UNCHANGED argVars /\ mpc' = mpc
      /\ KeysOf(Heard') = KeysOf(Heard) \cup DOMAIN mem[t]
      /\ KeysOf(Heard)' = KeysOf(Heard')
      /\ box[t].tag = Tag /\ Content(t) /\ mem' = mem
      /\ mem \in [Threads -> Memories] /\ rec_limit \in Nat
  BY RecvEffect
<1>1. mode' = mode /\ rec_limit' = rec_limit
  BY <1>0 DEF argVars
<1> SUFFICES ASSUME mpc = "recv1"
             PROVE  /\ DOMAIN lnf_mem' \subseteq KeysOf(Heard')
                    /\ \A k \in DOMAIN lnf_mem' : lnf_mem'[k] \in Nat /\ lnf_mem'[k] <= PartSum(k, Heard')
                    /\ \A u \in Heard' : \/ DOMAIN mem[u] \subseteq DOMAIN lnf_mem'
                                         \/ Cardinality(DOMAIN lnf_mem') >= rec_limit
  <2>1. \A k, S : PartSum(k, S)' = PartSum(k, S)
    BY <1>0, <1>1, SumsKept
  <2> QED
    BY <1>0, <1>1, <2>1 DEF PartsGathered
<1>2. PICK m, r, g : m = lnf_mem /\ r = box[t].recs /\ g = lnf_mem'
  OBVIOUS
<1>3. IsMerge(g, m, r)
  <2>1. g = Merge(m, r)
    BY <1>0, <1>2
  <2> QED
    BY <2>1, MergeIs
<1>4. /\ DOMAIN g = DOMAIN m \cup DOMAIN r
      /\ \A k \in DOMAIN m \cap DOMAIN r : g[k] = m[k] + r[k]
      /\ \A k \in DOMAIN m \ DOMAIN r : m[k] \in Int => g[k] = m[k]
      /\ \A k \in DOMAIN r \ DOMAIN m : r[k] \in Int => g[k] = r[k]
  BY <1>3 DEF IsMerge
<1>5. /\ DOMAIN mem[t] \subseteq Keys /\ IsFiniteSet(DOMAIN mem[t])
      /\ \A k \in DOMAIN mem[t] : mem[t][k] \in Nat
  BY <1>0, MemIs
<1>6. /\ DOMAIN r \subseteq DOMAIN mem[t] /\ \A k \in DOMAIN r : r[k] = mem[t][k]
      /\ DOMAIN r = DOMAIN mem[t] \/ Cardinality(DOMAIN r) = rec_limit
  <2>1. PICK c, n : c = mem[t] /\ n = rec_limit /\ n \in Nat
    BY <1>0
  <2>2. IsFirst(box[t].recs, mem[t], rec_limit)
    BY <1>0 DEF Content, Tag
  <2>3. IsFirst(r, c, n) /\ IsFiniteSet(DOMAIN c)
    BY <1>2, <1>5, <2>1, <2>2
  <2>4. /\ DOMAIN r \subseteq DOMAIN c /\ \A k \in DOMAIN r : r[k] = c[k]
        /\ DOMAIN r = DOMAIN c \/ Cardinality(DOMAIN r) = n
    BY <2>1, <2>3, FirstIs
  <2> QED
    BY <2>1, <2>4
<1>7. /\ DOMAIN m \subseteq KeysOf(Heard)
      /\ \A k \in DOMAIN m : m[k] \in Nat /\ m[k] <= PartSum(k, Heard)
      /\ \A u \in Heard : DOMAIN mem[u] \subseteq DOMAIN m \/ Cardinality(DOMAIN m) >= rec_limit
  BY <1>2 DEF BatchInv, GatherInv, PartsGathered
<1>8. /\ IsFiniteSet(DOMAIN g) /\ DOMAIN m \in SUBSET DOMAIN g /\ DOMAIN r \in SUBSET DOMAIN g
      /\ DOMAIN g \subseteq KeysOf(Heard')
  <2>1. KeysOf(Heard) \subseteq Keys
    BY <1>0, MemIs
  <2>2. DOMAIN g \subseteq Keys /\ IsFiniteSet(Keys)
    BY <2>1, <1>4, <1>5, <1>6, <1>7, InputAssumption
  <2>3. IsFiniteSet(DOMAIN g)
    BY <2>2, FS_Subset
  <2>4. DOMAIN m \in SUBSET DOMAIN g /\ DOMAIN r \in SUBSET DOMAIN g
    BY <1>4
  <2>5. DOMAIN g \subseteq KeysOf(Heard')
    BY <1>0, <1>4, <1>6, <1>7
  <2> QED
    BY <2>3, <2>4, <2>5
<1>9. ASSUME NEW k \in DOMAIN g PROVE g[k] \in Nat /\ g[k] <= PartSum(k, Heard')
  <2>1. /\ PartSum(k, Heard) \in Nat
        /\ k \in DOMAIN mem[t] => PartSum(k, Heard') = PartSum(k, Heard) + mem[t][k]
        /\ k \notin DOMAIN mem[t] => PartSum(k, Heard') = PartSum(k, Heard)
    BY <1>0, PartSumStep
  <2>2. k \in DOMAIN mem[t] => mem[t][k] \in Nat
    BY <1>5
  <2>3. CASE k \in DOMAIN m /\ k \in DOMAIN r
    <3>1. g[k] = m[k] + r[k] /\ r[k] = mem[t][k] /\ k \in DOMAIN mem[t] /\ m[k] \in Nat /\ m[k] <= PartSum(k, Heard)
      BY <1>4, <1>6, <1>7, <2>3
    <3> QED
      BY <2>1, <2>2, <3>1
  <2>4. CASE k \in DOMAIN m /\ k \notin DOMAIN r
    <3>1. m[k] \in Nat /\ m[k] <= PartSum(k, Heard) /\ g[k] = m[k]
      BY <1>4, <1>7, <2>4
    <3>2. CASE k \in DOMAIN mem[t]
      BY <2>1, <2>2, <3>1, <3>2
    <3>3. CASE k \notin DOMAIN mem[t]
      BY <2>1, <3>1, <3>3
    <3> QED
      BY <3>2, <3>3
  <2>5. CASE k \notin DOMAIN m /\ k \in DOMAIN r
    <3>1. r[k] = mem[t][k] /\ k \in DOMAIN mem[t] /\ r[k] \in Int
      BY <1>5, <1>6, <2>5
    <3>2. g[k] = r[k]
      BY <1>4, <2>5, <3>1
    <3> QED
      BY <2>1, <2>2, <3>1, <3>2
  <2> QED
    BY <1>4, <2>3, <2>4, <2>5
<1>10. /\ Cardinality(DOMAIN m) \in Nat /\ Cardinality(DOMAIN r) \in Nat /\ Cardinality(DOMAIN g) \in Nat
       /\ Cardinality(DOMAIN m) <= Cardinality(DOMAIN g) /\ Cardinality(DOMAIN r) <= Cardinality(DOMAIN g)
  BY <1>8, SameSize
<1>11. ASSUME NEW u \in Heard' PROVE DOMAIN mem[u] \subseteq DOMAIN g \/ Cardinality(DOMAIN g) >= rec_limit
  <2>1. CASE u \in Heard
    <3>1. DOMAIN mem[u] \subseteq DOMAIN m \/ Cardinality(DOMAIN m) >= rec_limit
      BY <1>7, <2>1
    <3>2. CASE DOMAIN mem[u] \subseteq DOMAIN m
      BY <3>2, <1>4
    <3>3. CASE Cardinality(DOMAIN m) >= rec_limit
      BY <3>3, <1>0, <1>10
    <3> QED
      BY <3>1, <3>2, <3>3
  <2>2. CASE u = t
    <3>1. CASE DOMAIN r = DOMAIN mem[t]
      BY <2>2, <3>1, <1>4
    <3>2. CASE Cardinality(DOMAIN r) = rec_limit
      BY <3>2, <1>0, <1>10
    <3> QED
      BY <1>6, <3>1, <3>2
  <2> QED
    BY <1>0, <2>1, <2>2
<1> QED
  BY <1>2, <1>8, <1>9, <1>11

\* The records of a thread, kept apart from those of others.
LEMMA ApartIs ==
    ASSUME mem \in [Threads -> Memories], NEW t \in Threads
    PROVE  /\ DOMAIN Apart(t) = {t} \X DOMAIN mem[t] /\ IsFiniteSet(DOMAIN Apart(t))
           /\ \A x \in {t} \X DOMAIN mem[t] :
                 Apart(t)[x] = mem[t][x[2]] /\ x[1] = t /\ x[2] \in DOMAIN mem[t] /\ mem[t][x[2]] \in Nat
           /\ {t} \X DOMAIN mem[t] \subseteq Threads \X Keys
           /\ IsFiniteSet(Threads \X Keys)
<1>1. DOMAIN mem[t] \subseteq Keys /\ \A k \in DOMAIN mem[t] : mem[t][k] \in Nat
  BY MemIs
<1>2. IsFiniteSet(Threads \X Keys)
  BY ThreadsAssumption, InputAssumption, FS_Product
<1>3. {t} \X DOMAIN mem[t] \subseteq Threads \X Keys
  BY <1>1
<1>4. IsFiniteSet({t} \X DOMAIN mem[t])
  BY <1>2, <1>3, FS_Subset
<1>5. DOMAIN Apart(t) = {t} \X DOMAIN mem[t]
  BY DEF Apart
<1>6. ASSUME NEW x \in {t} \X DOMAIN mem[t]
      PROVE  Apart(t)[x] = mem[t][x[2]] /\ x[1] = t /\ x[2] \in DOMAIN mem[t] /\ mem[t][x[2]] \in Nat
  BY <1>1 DEF Apart
<1> QED
  BY <1>2, <1>3, <1>4, <1>5, <1>6

\* Records when sorting.
LEMMA RecvSorted ==
    ASSUME BatchInv, NEW t \in Threads, Recv(t)
    PROVE  SortGathered'
<1> DEFINE Own(u) == {u} \X DOMAIN mem[u]
<1>0. /\ t \notin Heard /\ Heard' = Heard \cup {t} /\ Heard \in SUBSET Threads
      /\ lnf_mem' = Merge(lnf_mem, box[t].recs)
      /\ UNCHANGED argVars /\ mpc' = mpc
      /\ box[t].tag = Tag /\ Content(t) /\ mem' = mem
      /\ mem \in [Threads -> Memories] /\ rec_limit \in Nat
  BY RecvEffect
<1>1. direction' = direction /\ rec_limit' = rec_limit
  BY <1>0 DEF argVars
<1> SUFFICES ASSUME mpc = "recvSort"
             PROVE  /\ DOMAIN lnf_mem' \subseteq UNION {Own(u) : u \in Heard'}
                    /\ \A x \in DOMAIN lnf_mem' : lnf_mem'[x] = mem[x[1]][x[2]]
                    /\ \A u \in Heard' : \A x \in Own(u) \ DOMAIN lnf_mem' :
                          /\ rec_limit # 0
                          /\ Cardinality({q \in DOMAIN lnf_mem' : Precedes(lnf_mem'[q], mem[u][x[2]])}) >= rec_limit
  BY <1>0, <1>1 DEF SortGathered, Precedes
<1>2. PICK m, r, g, c, n : /\ m = lnf_mem /\ r = box[t].recs /\ g = lnf_mem' /\ c = Apart(t)
                           /\ n = rec_limit /\ n \in Nat
  BY <1>0
<1>3. IsMerge(g, m, r)
  <2>1. g = Merge(m, r)
    BY <1>0, <1>2
  <2> QED
    BY <2>1, MergeIs
<1>4. /\ DOMAIN c = Own(t) /\ IsFiniteSet(DOMAIN c)
      /\ \A x \in Own(t) : c[x] = mem[t][x[2]] /\ x[1] = t /\ mem[t][x[2]] \in Nat
      /\ Own(t) \subseteq Threads \X Keys /\ IsFiniteSet(Threads \X Keys)
  BY <1>0, <1>2, ApartIs
<1>5. \A u \in Heard : Own(u) \subseteq Threads \X Keys /\ \A x \in Own(u) : x[1] = u /\ mem[u][x[2]] \in Nat
  BY <1>0, ApartIs
<1> HIDE DEF Own
<1>6. /\ DOMAIN r \subseteq DOMAIN c /\ \A x \in DOMAIN r : r[x] = c[x]
      /\ \/ DOMAIN r = DOMAIN c
         \/ /\ n # 0 /\ Cardinality(DOMAIN r) = n
            /\ \A x \in DOMAIN r, j \in DOMAIN c \ DOMAIN r : Precedes(c[x], c[j])
  <2>1. IsFirst(box[t].recs, Apart(t), rec_limit)
    BY <1>0 DEF Content, Tag
  <2>2. IsFirst(r, c, n)
    BY <1>2, <2>1
  <2> QED
    BY <1>2, <1>4, <2>2, FirstIs
<1>7. /\ DOMAIN m \subseteq UNION {Own(u) : u \in Heard}
      /\ \A x \in DOMAIN m : m[x] = mem[x[1]][x[2]]
      /\ \A u \in Heard : \A x \in Own(u) \ DOMAIN m :
            n # 0 /\ Cardinality({q \in DOMAIN m : Precedes(m[q], mem[u][x[2]])}) >= n
  BY <1>2 DEF BatchInv, GatherInv, SortGathered, Own
<1>8. \A x \in DOMAIN m : x \notin DOMAIN r /\ m[x] \in Nat
  <2> TAKE x \in DOMAIN m
  <2>1. PICK u \in Heard : x \in Own(u)
    BY <1>7
  <2>2. x[1] = u /\ mem[u][x[2]] \in Nat /\ m[x] = mem[x[1]][x[2]]
    BY <1>5, <1>7, <2>1
  <2>3. x \notin DOMAIN r
    BY <1>0, <1>4, <1>6, <2>2
  <2> QED
    BY <2>2, <2>3
<1>9. /\ DOMAIN g = DOMAIN m \cup DOMAIN r
      /\ \A x \in DOMAIN m : g[x] = m[x]
      /\ \A x \in DOMAIN r : g[x] = mem[t][x[2]] /\ g[x] = c[x]
  <2>1. /\ DOMAIN g = DOMAIN m \cup DOMAIN r
        /\ \A k \in DOMAIN m \ DOMAIN r : m[k] \in Int => g[k] = m[k]
        /\ \A k \in DOMAIN r \ DOMAIN m : r[k] \in Int => g[k] = r[k]
    BY <1>3 DEF IsMerge
  <2>2. \A x \in DOMAIN m : g[x] = m[x]
    BY <1>8, <2>1
  <2>3. ASSUME NEW x \in DOMAIN r PROVE g[x] = mem[t][x[2]] /\ g[x] = c[x]
    <3>1. r[x] = c[x] /\ c[x] = mem[t][x[2]] /\ mem[t][x[2]] \in Nat /\ x \notin DOMAIN m
      BY <1>4, <1>6, <1>8
    <3>2. r[x] \in Int
      BY <3>1
    <3> QED
      BY <2>1, <3>1, <3>2
  <2> QED
    BY <2>1, <2>2, <2>3
<1>10. DOMAIN g \subseteq UNION {Own(u) : u \in Heard'}
  BY <1>0, <1>4, <1>6, <1>7, <1>9
<1>11. \A x \in DOMAIN g : g[x] = mem[x[1]][x[2]]
  BY <1>4, <1>6, <1>7, <1>9
<1>12. IsFiniteSet(DOMAIN g)
  <2>1. DOMAIN m \subseteq Threads \X Keys
    BY <1>5, <1>7
  <2>2. DOMAIN g \subseteq Threads \X Keys
    BY <1>4, <1>6, <1>9, <2>1
  <2> QED
    BY <1>4, <2>2, FS_Subset
<1>13. ASSUME NEW u \in Heard', NEW x \in Own(u) \ DOMAIN g
       PROVE  n # 0 /\ Cardinality({q \in DOMAIN g : Precedes(g[q], mem[u][x[2]])}) >= n
  <2>1. PICK b, Q : b = mem[u][x[2]] /\ Q = {q \in DOMAIN g : Precedes(g[q], b)}
    OBVIOUS
  <2>2. Q \in SUBSET DOMAIN g
    BY <2>1
  <2>3. IsFiniteSet(Q)
    BY <1>12, <2>2, FS_Subset
  <2>4. CASE u \in Heard
    <3>1. PICK P : P = {q \in DOMAIN m : Precedes(m[q], b)}
      OBVIOUS
    <3>2. n # 0 /\ Cardinality(P) >= n
      BY <1>7, <1>9, <2>1, <2>4, <3>1
    <3>3. P \in SUBSET Q
      BY <1>9, <2>1, <3>1
    <3>4. Cardinality(P) \in Nat /\ Cardinality(Q) \in Nat /\ Cardinality(P) <= Cardinality(Q)
      BY <2>3, <3>3, SameSize
    <3> QED
      BY <1>2, <2>1, <3>2, <3>4
  <2>5. CASE u = t
    <3>1. x \in DOMAIN c /\ x \notin DOMAIN r /\ c[x] = b
      BY <1>4, <1>9, <2>1, <2>5
    <3>2. /\ n # 0 /\ Cardinality(DOMAIN r) = n
          /\ \A y \in DOMAIN r : Precedes(c[y], b)
      BY <1>6, <3>1
    <3>3. DOMAIN r \in SUBSET Q
      BY <1>9, <2>1, <3>2
    <3>4. Cardinality(DOMAIN r) \in Nat /\ Cardinality(Q) \in Nat /\ Cardinality(DOMAIN r) <= Cardinality(Q)
      BY <2>3, <3>3, SameSize
    <3> QED
      BY <1>2, <2>1, <3>2, <3>4
  <2> QED
    BY <1>0, <2>4, <2>5
<1> QED
  BY <1>2, <1>10, <1>11, <1>13

\* The master receives the records of a thread.
LEMMA RecvKeeps ==
    ASSUME BatchInv, NEW t \in Threads, Recv(t)
    PROVE  BatchInv'
<1>0. /\ UNCHANGED argVars /\ mpc' = mpc /\ threshold' = threshold /\ candidates' = candidates
      /\ UNCHANGED slaveVars /\ active' = active \ {t} /\ box' = [box EXCEPT ![t] = NoMsg]
  BY DEF Recv
<1>1. BatchTypes /\ BufferInv /\ GatherInv
  BY DEF BatchInv
<1>2. /\ mode' = mode /\ rec_limit' = rec_limit /\ direction' = direction /\ mem' = mem
      /\ KeysOf(Threads)' = KeysOf(Threads) /\ MpcLabels' = MpcLabels /\ PcLabels' = PcLabels
      /\ pc' = pc /\ tput_threshold' = tput_threshold /\ tput_rec_buff' = tput_rec_buff
  BY <1>0 DEF argVars, slaveVars, KeysOf, MpcLabels, PcLabels
<1>3. /\ box' = [u \in Threads |-> box'[u]] /\ \A u \in Threads \ {t} : box'[u] = box[u]
      /\ box'[t].tag = "none"
  <2>1. box = [u \in Threads |-> box[u]]
    BY <1>1 DEF BatchTypes
  <2>2. DOMAIN box = Threads
    <3>1. DOMAIN [u \in Threads |-> box[u]] = Threads
      OBVIOUS
    <3> QED
      BY <2>1, <3>1
  <2>3. NoMsg.tag = "none"
    BY DEF NoMsg
  <2> QED
    BY <1>0, <2>2, <2>3
<1>4. BatchTypes'
  BY <1>0, <1>1, <1>2, <1>3 DEF BatchTypes
<1>5. BufferInv'
  BY <1>1, <1>2 DEF BufferInv
<1>6. ASSUME NEW u \in Threads PROVE Content(u)'
  <2>1. CASE u = t
    BY <1>3, <2>1 DEF Content
  <2>2. CASE u # t
    <3>1. Content(u) /\ box'[u] = box[u]
      BY <1>1, <1>3, <2>2 DEF GatherInv
    <3> QED
      BY <1>0, <3>1, ContentKept
  <2> QED
    BY <2>1, <2>2
<1>7. CandidatesComplete'
  BY <1>0, <1>1, <1>2 DEF GatherInv, CandidatesComplete, Precedes
<1> QED
  BY <1>4, <1>5, <1>6, <1>7, RecvSorted, RecvSums, RecvParts, RecvKeys DEF BatchInv, GatherInv

----------------------------------------------------------------------------
(* The master's own steps.                                                 *)

\* The phases begin with an empty memory.
LEMMA PhaseStart ==
    ASSUME lnf_mem = Empty, active = Threads, BatchTypes
    PROVE  SortGathered /\ SumsGathered /\ PartsGathered /\ KeysGathered
<1>1. DOMAIN lnf_mem = {} /\ Heard = {} /\ KeysOf(Heard) = {}
  BY DEF Empty, Heard, KeysOf
<1> QED
  BY <1>1 DEF SortGathered, SumsGathered, PartsGathered, KeysGathered

\* From phase 1 to phase 2.
LEMMA StartPhase2Keeps ==
    ASSUME BatchInv, StartPhase2
    PROVE  BatchInv'
<1>0. /\ UNCHANGED argVars /\ UNCHANGED slaveVars /\ box' = box /\ candidates' = candidates
      /\ mpc = "recv1" /\ mpc' = "recv2" /\ lnf_mem' = Empty /\ active' = Threads
  BY DEF StartPhase2
<1>1. BatchTypes /\ BufferInv /\ GatherInv
  BY DEF BatchInv
<1>2. /\ mode' = mode /\ rec_limit' = rec_limit /\ direction' = direction /\ mem' = mem
      /\ KeysOf(Threads)' = KeysOf(Threads) /\ MpcLabels' = MpcLabels /\ PcLabels' = PcLabels
      /\ pc' = pc /\ tput_threshold' = tput_threshold /\ tput_rec_buff' = tput_rec_buff
  BY <1>0 DEF argVars, slaveVars, KeysOf, MpcLabels, PcLabels
<1>3. threshold = NotSet /\ candidates = NotSet /\ mode = "tput" /\ mpc' \in MpcLabels'
  <2>1. [mode |-> mode, direction |-> direction, rec_limit |-> rec_limit] \in Queries
    BY <1>1 DEF BatchTypes
  <2>2. mode \in {"sort", "aggr", "tput"}
    BY <2>1, InputAssumption
  <2>3. mpc \in MpcLabels
    BY <1>1 DEF BatchTypes
  <2>4. mode = "tput"
    BY <1>0, <2>2, <2>3 DEF MpcLabels
  <2> QED
    BY <1>0, <1>1, <1>2, <2>4 DEF BatchTypes, MpcLabels
<1>4. BatchTypes'
  <2>1. tput_threshold' \in [Slaves -> {NotSet, threshold'}]
    BY <1>1, <1>2, <1>3 DEF BatchTypes
  <2> QED
    BY <1>0, <1>1, <1>2, <1>3, <2>1 DEF BatchTypes
<1>5. BufferInv'
  BY <1>1, <1>2 DEF BufferInv
<1>6. ASSUME NEW u \in Threads PROVE Content(u)'
  <2>1. Content(u) /\ box'[u] = box[u]
    BY <1>0, <1>1 DEF GatherInv
  <2> QED
    BY <1>0, <1>3, <2>1, ContentKept
<1>7. CandidatesComplete'
  BY <1>0, <1>3 DEF CandidatesComplete
<1>8. (SortGathered /\ SumsGathered /\ PartsGathered /\ KeysGathered)'
  <2>1. DOMAIN lnf_mem' = {} /\ Heard' = {}
    BY <1>0 DEF Empty, Heard
  <2> QED
    BY <1>0, <2>1 DEF SortGathered, SumsGathered, PartsGathered, KeysGathered
<1> QED
  BY <1>4, <1>5, <1>6, <1>7, <1>8 DEF BatchInv, GatherInv

\* From phase 2 to phase 3.
LEMMA StartPhase3Keeps ==
    ASSUME BatchInv, StartPhase3
    PROVE  BatchInv'
<1>0. /\ UNCHANGED argVars /\ UNCHANGED slaveVars /\ box' = box /\ threshold' = threshold
      /\ mpc = "recv2" /\ mpc' = "recv3" /\ lnf_mem' = Empty /\ active' = Threads
      /\ active = {} /\ candidates' = DOMAIN lnf_mem
  BY DEF StartPhase3
<1>1. BatchTypes /\ BufferInv /\ GatherInv
  BY DEF BatchInv
<1>2. /\ mode' = mode /\ rec_limit' = rec_limit /\ direction' = direction /\ mem' = mem
      /\ KeysOf(Threads)' = KeysOf(Threads) /\ MpcLabels' = MpcLabels /\ PcLabels' = PcLabels
      /\ pc' = pc /\ tput_threshold' = tput_threshold /\ tput_rec_buff' = tput_rec_buff
  BY <1>0 DEF argVars, slaveVars, KeysOf, MpcLabels, PcLabels
<1>3. candidates = NotSet /\ mode = "tput" /\ mpc' \in MpcLabels'
  <2>1. [mode |-> mode, direction |-> direction, rec_limit |-> rec_limit] \in Queries
    BY <1>1 DEF BatchTypes
  <2>2. mode \in {"sort", "aggr", "tput"}
    BY <2>1, InputAssumption
  <2>3. mpc \in MpcLabels
    BY <1>1 DEF BatchTypes
  <2>4. mode = "tput"
    BY <1>0, <2>2, <2>3 DEF MpcLabels
  <2> QED
    BY <1>0, <1>1, <1>2, <2>4 DEF BatchTypes, MpcLabels
<1>4. Heard = Threads /\ KeysGathered
  BY <1>0, <1>1 DEF Heard, GatherInv
<1>5. /\ candidates' \subseteq KeysOf(Threads)
      /\ threshold \in Nat =>
            \A t \in Threads : \A k \in DOMAIN mem[t] :
                Precedes(mem[t][k], threshold) => k \in candidates'
  BY <1>0, <1>4 DEF KeysGathered
<1>6. candidates' # NotSet
  <2>1. mem \in [Threads -> Memories]
    BY <1>1 DEF BatchTypes
  <2>2. KeysOf(Threads) \subseteq Keys
    BY <2>1, MemIs
  <2> QED
    BY <1>5, <2>2, SentinelAssumption
<1>7. BatchTypes'
  <2>1. tput_rec_buff' \in [Slaves -> {NotSet, candidates', Freed}]
    BY <1>1, <1>2, <1>3 DEF BatchTypes
  <2> QED
    BY <1>0, <1>1, <1>2, <1>3, <1>5, <1>6, <2>1 DEF BatchTypes
<1>8. BufferInv'
  BY <1>1, <1>2 DEF BufferInv
<1>9. ASSUME NEW u \in Threads PROVE Content(u)'
  <2>1. Content(u) /\ box'[u] = box[u]
    BY <1>0, <1>1 DEF GatherInv
  <2> QED
    BY <1>0, <1>3, <2>1, ContentKept
<1>10. CandidatesComplete'
  BY <1>0, <1>2, <1>5 DEF CandidatesComplete, Precedes
<1>11. (SortGathered /\ SumsGathered /\ PartsGathered /\ KeysGathered)'
  <2>1. DOMAIN lnf_mem' = {} /\ Heard' = {}
    BY <1>0 DEF Empty, Heard
  <2>2. KeysOf(Heard)' = {}
    BY <2>1 DEF KeysOf
  <2> QED
    BY <1>0, <2>1, <2>2 DEF SortGathered, SumsGathered, PartsGathered, KeysGathered
<1> QED
  BY <1>7, <1>8, <1>9, <1>10, <1>11 DEF BatchInv, GatherInv

\* The records are printed.
LEMMA PrintBatchKeeps ==
    ASSUME BatchInv, PrintBatch
    PROVE  BatchInv'
<1>0. /\ UNCHANGED argVars /\ UNCHANGED slaveVars /\ box' = box /\ threshold' = threshold
      /\ mpc \in {"recvSort", "recvAll", "recv3"} /\ mpc' = "done"
      /\ candidates' = candidates /\ active' = active
  BY DEF PrintBatch
<1>1. BatchTypes /\ BufferInv /\ GatherInv
  BY DEF BatchInv
<1>2. /\ mode' = mode /\ rec_limit' = rec_limit /\ direction' = direction /\ mem' = mem
      /\ KeysOf(Threads)' = KeysOf(Threads) /\ MpcLabels' = MpcLabels /\ PcLabels' = PcLabels
      /\ pc' = pc /\ tput_threshold' = tput_threshold /\ tput_rec_buff' = tput_rec_buff
  BY <1>0 DEF argVars, slaveVars, KeysOf, MpcLabels, PcLabels
<1>3. mpc' \in MpcLabels'
  <2>1. [mode |-> mode, direction |-> direction, rec_limit |-> rec_limit] \in Queries
    BY <1>1 DEF BatchTypes
  <2>2. mode \in {"sort", "aggr", "tput"}
    BY <2>1, InputAssumption
  <2> QED
    BY <1>0, <1>2, <2>2 DEF MpcLabels
<1>4. BatchTypes'
  BY <1>0, <1>1, <1>2, <1>3 DEF BatchTypes
<1>5. BufferInv'
  BY <1>1, <1>2 DEF BufferInv
<1>6. ASSUME NEW u \in Threads PROVE Content(u)'
  <2>1. Content(u) /\ box'[u] = box[u]
    BY <1>0, <1>1 DEF GatherInv
  <2> QED
    BY <1>0, <2>1, ContentKept
<1>7. CandidatesComplete'
  BY <1>0, <1>1, <1>2 DEF GatherInv, CandidatesComplete, Precedes
<1>8. (SortGathered /\ SumsGathered /\ PartsGathered /\ KeysGathered)'
  BY <1>0 DEF SortGathered, SumsGathered, PartsGathered, KeysGathered
<1> QED
  BY <1>4, <1>5, <1>6, <1>7, <1>8 DEF BatchInv, GatherInv

\* The initial states.
LEMMA BatchInit ==
    ASSUME Init
    PROVE  BatchInv
<1>1. PICK q \in Queries : mode = q.mode /\ rec_limit = q.rec_limit /\ direction = q.direction
  BY DEF Init
<1>2. mode \in {"sort", "aggr", "tput"}
  BY <1>1, InputAssumption
<1>3. [mode |-> mode, direction |-> direction, rec_limit |-> rec_limit] \in Queries
  <2>1. q \in [mode : {"sort", "aggr", "tput"}, direction : {"asc", "desc"}, rec_limit : Nat]
    BY <1>1, InputAssumption
  <2>2. q = [mode |-> mode, direction |-> direction, rec_limit |-> rec_limit]
    BY <1>1, <2>1
  <2> QED
    BY <1>1, <2>2
<1>4. /\ pc = [t \in Threads |-> FirstLabel] /\ FirstLabel \in PcLabels \ {"lookup", "barrier"}
      /\ mpc \in MpcLabels \ {"recv3"} /\ (mpc = "recv2" => FALSE)
  BY <1>2 DEF Init, FirstLabel, PcLabels, MpcLabels
<1>5. /\ mem \in [Threads -> Memories] /\ box = [t \in Threads |-> NoMsg]
      /\ tput_threshold = [s \in Slaves |-> NotSet] /\ tput_rec_buff = [s \in Slaves |-> NotSet]
      /\ active = Threads /\ lnf_mem = Empty /\ threshold = NotSet /\ candidates = NotSet
  BY DEF Init
<1>6. BatchTypes
  <2>1. pc \in [Threads -> PcLabels] /\ box = [t \in Threads |-> box[t]]
    BY <1>4, <1>5
  <2> QED
    BY <1>3, <1>4, <1>5, <2>1 DEF BatchTypes
<1>7. BufferInv
  <2>1. ASSUME NEW t \in Threads
        PROVE  pc[t] \notin {"lookup", "barrier"} /\ tput_rec_buff[SlaveOf[t]] # Freed
    BY <1>4, <1>5, ThreadsAssumption, SentinelAssumption
  <2> QED
    BY <2>1 DEF BufferInv
<1>8. ASSUME NEW t \in Threads PROVE Content(t)
  <2>1. box[t].tag = "none"
    BY <1>5 DEF NoMsg
  <2> QED
    BY <2>1 DEF Content
<1>9. SortGathered /\ SumsGathered /\ PartsGathered /\ KeysGathered
  BY <1>5, <1>6, PhaseStart
<1> QED
  BY <1>5, <1>6, <1>7, <1>8, <1>9 DEF BatchInv, GatherInv, CandidatesComplete

\* Every step keeps the invariant.
LEMMA BatchStep ==
    ASSUME BatchInv, [Next]_vars
    PROVE  BatchInv'
<1>1. CASE \E t \in Threads : ThreadStep(t)
  BY <1>1, ThreadStepKeeps
<1>2. CASE MasterStep
  BY <1>2, RecvKeeps, StartPhase2Keeps, StartPhase3Keeps, PrintBatchKeeps DEF MasterStep
<1>3. CASE UNCHANGED vars
  <2>1. UNCHANGED argVars /\ UNCHANGED masterVars /\ UNCHANGED slaveVars /\ box' = box
    BY <1>3 DEF vars
  <2>2. /\ mode' = mode /\ rec_limit' = rec_limit /\ direction' = direction /\ mem' = mem
        /\ mpc' = mpc /\ active' = active /\ threshold' = threshold /\ candidates' = candidates
        /\ KeysOf(Threads)' = KeysOf(Threads) /\ MpcLabels' = MpcLabels /\ PcLabels' = PcLabels
        /\ pc' = pc /\ tput_threshold' = tput_threshold /\ tput_rec_buff' = tput_rec_buff
    BY <2>1 DEF argVars, masterVars, slaveVars, KeysOf, MpcLabels, PcLabels
  <2>3. BatchTypes' /\ BufferInv'
    BY <2>1, <2>2 DEF BatchInv, BatchTypes, BufferInv
  <2>4. ASSUME NEW u \in Threads PROVE Content(u)'
    <3>1. Content(u) /\ box'[u] = box[u]
      BY <2>1 DEF BatchInv, GatherInv
    <3> QED
      BY <2>1, <2>2, <3>1, ContentKept
  <2>5. (SortGathered /\ SumsGathered /\ PartsGathered /\ KeysGathered /\ CandidatesComplete)'
    BY <2>1, GatheredKept DEF BatchInv, GatherInv
  <2> QED
    BY <2>3, <2>4, <2>5 DEF BatchInv, GatherInv
<1> QED
  BY <1>1, <1>2, <1>3 DEF Next, Finished

\* What messages, buffers and the master's memory hold, in every state.
THEOREM BatchHolds == Spec => []BatchInv
<1>1. Init => BatchInv
  BY BatchInit
<1>2. BatchInv /\ [Next]_vars => BatchInv'
  BY BatchStep
<1> QED
  BY <1>1, <1>2, PTL DEF Spec

\* No thread looks up records in the shared buffer before slave_ctx's buffer has
\* been received or after it has been freed: the barriers of the omp single
\* constructs and the one before free() are enough, for any teams.
THEOREM BufferKept == Spec => []BufferAlive
<1>1. BatchInv => BufferAlive
  BY DEF BatchInv, BufferInv, BufferAlive
<1> QED
  BY <1>1, BatchHolds, PTL

----------------------------------------------------------------------------
(* First and last records of finite memories.                              *)

\* A finite set of records has a first and a last one.
LEMMA Extremes ==
    ASSUME NEW m, NEW R, IsFiniteSet(R), R # {}, \A k \in R : m[k] \in Nat
    PROVE  /\ \E x \in R : \A y \in R : Precedes(m[x], m[y])
           /\ \E x \in R : \A y \in R : Precedes(m[y], m[x])
<1> DEFINE HasFirst(s) == \E x \in s : \A y \in s : Precedes(m[x], m[y])
           HasLast(s) == \E x \in s : \A y \in s : Precedes(m[y], m[x])
           G == {s \in SUBSET R : s # {} => HasFirst(s) /\ HasLast(s)}
<1>1. {} \in G
  OBVIOUS
<1>2. ASSUME NEW s \in SUBSET R, NEW z \in R, z \notin s, s \in G PROVE s \cup {z} \in G
  <2>0. m[z] \in Nat /\ Precedes(m[z], m[z])
    BY Order
  <2>1. CASE s = {}
    <3>1. s \cup {z} = {z}
      BY <2>1
    <3>2. HasFirst({z}) /\ HasLast({z})
      BY <2>0
    <3> QED
      BY <3>1, <3>2
  <2>2. CASE s # {}
    <3>1. PICK x \in s : \A y \in s : Precedes(m[x], m[y])
      BY <1>2, <2>2
    <3>2. PICK w \in s : \A y \in s : Precedes(m[y], m[w])
      BY <1>2, <2>2
    <3>3. m[x] \in Nat /\ m[w] \in Nat /\ \A y \in s : m[y] \in Nat
      OBVIOUS
    <3>4. HasFirst(s \cup {z})
      <4>1. CASE Precedes(m[x], m[z])
        BY <3>1, <4>1
      <4>2. CASE Precedes(m[z], m[x])
        <5>1. \A y \in s : Precedes(m[z], m[y])
          BY <2>0, <3>1, <3>3, <4>2, Order
        <5> QED
          BY <2>0, <5>1
      <4> QED
        BY <2>0, <3>3, <4>1, <4>2, Order
    <3>5. HasLast(s \cup {z})
      <4>1. CASE Precedes(m[z], m[w])
        BY <3>2, <4>1
      <4>2. CASE Precedes(m[w], m[z])
        <5>1. \A y \in s : Precedes(m[y], m[z])
          BY <2>0, <3>2, <3>3, <4>2, Order
        <5> QED
          BY <2>0, <5>1
      <4> QED
        BY <2>0, <3>3, <4>1, <4>2, Order
    <3> QED
      BY <3>4, <3>5
  <2> QED
    BY <2>1, <2>2
<1>3. SUBSET R \subseteq G
  <2> HIDE DEF G
  <2> QED
    BY <1>1, <1>2, SetInduct
<1>4. R \in G
  BY <1>3
<1> QED
  BY <1>4

\* There are always first records to choose from.
LEMMA LeadingExists ==
    ASSUME NEW m, IsFiniteSet(DOMAIN m), \A k \in DOMAIN m : m[k] \in Nat, NEW n \in Nat
    PROVE  \E K : K \in Leading(m, n)
<1>1. PICK D : D = DOMAIN m
  OBVIOUS
<1>2. PICK d \in Nat : d = Cardinality(D)
  BY <1>1, FS_CardinalityType
<1> DEFINE Lead(K) == \A k \in K, j \in D \ K : Precedes(m[k], m[j])
           T == {c \in Nat : c <= d => \E K \in SUBSET D : Cardinality(K) = c /\ Lead(K)}
<1>3. 0 \in T
  <2>1. {} \in SUBSET D /\ Cardinality({}) = 0 /\ Lead({})
    BY FS_EmptySet
  <2> QED
    BY <2>1
<1>4. ASSUME NEW c \in Nat, c \in T PROVE c + 1 \in T
  <2> SUFFICES ASSUME c + 1 <= d PROVE \E K \in SUBSET D : Cardinality(K) = c + 1 /\ Lead(K)
    OBVIOUS
  <2>1. PICK K \in SUBSET D : Cardinality(K) = c /\ Lead(K)
    BY <1>2, <1>4
  <2>2. PICK R : R = D \ K
    OBVIOUS
  <2>3. IsFiniteSet(K) /\ IsFiniteSet(R) /\ \A k \in R : m[k] \in Nat
    BY <1>1, <2>2, FS_Subset
  <2>4. R # {}
    <3> SUFFICES ASSUME R = {} PROVE FALSE
      OBVIOUS
    <3>1. K = D
      BY <2>2
    <3> QED
      BY <1>2, <2>1, <3>1
  <2>5. PICK x \in R : \A y \in R : Precedes(m[x], m[y])
    BY <2>3, <2>4, Extremes
  <2>6. Cardinality(K \cup {x}) = c + 1
    BY <2>1, <2>2, <2>3, <2>5, FS_AddElement
  <2>7. Lead(K \cup {x}) /\ K \cup {x} \in SUBSET D
    BY <2>1, <2>2, <2>5
  <2> QED
    BY <2>6, <2>7
<1>5. Nat \subseteq T
  <2> HIDE DEF T
  <2> QED
    BY <1>3, <1>4, NatInduct
<1>6. Min({n, d}) \in Nat /\ Min({n, d}) <= d
  <2>1. n \in Int /\ d \in Int
    OBVIOUS
  <2>2. Min({n, d}) \in {n, d} /\ Min({n, d}) <= d
    BY <2>1, SmallerOf
  <2> QED
    BY <2>2
<1>7. PICK K \in SUBSET D : Cardinality(K) = Min({n, d}) /\ Lead(K)
  BY <1>5, <1>6
<1>8. K \in Leading(m, n)
  BY <1>1, <1>2, <1>7 DEF Leading, kSubset
<1> QED
  BY <1>8

\* Every record of A that is not in C is preceded by n records of C.
Beaten(A, C, v, n) == \A j \in A \ C : Cardinality({k \in C : Precedes(v[k], v[j])}) >= n

\* K holds the first n records of A.
IsTop(K, A, v, n) ==
    /\ K \subseteq A /\ Cardinality(K) = Min({n, Cardinality(A)})
    /\ \A k \in K, j \in A \ K : Precedes(v[k], v[j])

\* The first records of a part are the first of the whole, if enough of the
\* part precede every record that is left out.
LEMMA TopOfSome ==
    ASSUME NEW A, IsFiniteSet(A), NEW C \in SUBSET A, NEW v, \A k \in A : v[k] \in Nat,
           NEW n \in Nat, Beaten(A, C, v, n),
           NEW m, DOMAIN m = C, \A k \in C : m[k] = v[k], NEW K \in Leading(m, n)
    PROVE  IsTop(K, A, v, n) /\ K \subseteq C
<1>1. /\ IsFiniteSet(C) /\ Cardinality(C) \in Nat /\ Cardinality(A) \in Nat
      /\ Cardinality(C) <= Cardinality(A)
  BY SameSize
<1>2. /\ K \subseteq C /\ IsFiniteSet(K)
      /\ Cardinality(K) = Min({n, Cardinality(C)})
      /\ \A k \in K, j \in C \ K : Precedes(m[k], m[j])
  BY <1>1, LeadingIs
<1>3. PICK a \in Nat, c \in Nat : a = Cardinality(A) /\ c = Cardinality(C) /\ c <= a
  BY <1>1
<1>4. CASE C = A
  BY <1>2, <1>4 DEF IsTop
<1>5. CASE C # A
  <2>1. ASSUME NEW j \in A \ C PROVE n <= c
    <3>1. PICK Q : Q = {k \in C : Precedes(v[k], v[j])}
      OBVIOUS
    <3>2. Q \in SUBSET C /\ Cardinality(Q) >= n
      BY <3>1 DEF Beaten
    <3>3. Cardinality(Q) \in Nat /\ Cardinality(Q) <= Cardinality(C)
      BY <1>1, <3>2, SameSize
    <3> QED
      BY <1>3, <3>2, <3>3
  <2>2. n <= c
    BY <1>5, <2>1
  <2>3. Min({n, c}) = n /\ Min({n, a}) = n
    <3>1. n \in Int /\ c \in Int /\ a \in Int /\ n <= c /\ n <= a
      BY <1>3, <2>2
    <3> QED
      BY <3>1, SmallerOf
  <2>4. Cardinality(K) = n /\ Cardinality(K) = Min({n, Cardinality(A)})
    BY <1>2, <1>3, <2>3
  <2>5. ASSUME NEW k \in K, NEW j \in A \ K PROVE Precedes(v[k], v[j])
    <3>1. CASE j \in C
      BY <1>2, <3>1
    <3>2. CASE j \notin C
      <4>1. PICK Q : Q = {i \in C : Precedes(v[i], v[j])}
        OBVIOUS
      <4>2. Q \in SUBSET C /\ Cardinality(Q) >= n
        BY <3>2, <4>1 DEF Beaten
      <4>3. IsFiniteSet(Q)
        BY <1>1, <4>2, FS_Subset
      <4>4. CASE k \in Q
        BY <4>1, <4>4
      <4>5. CASE k \notin Q
        <5>1. Cardinality(Q) >= Cardinality(K)
          BY <2>4, <4>2
        <5>2. PICK q \in Q : q \notin K
          BY <1>2, <4>3, <4>5, <5>1, OneMore
        <5>3. Precedes(v[k], v[q]) /\ Precedes(v[q], v[j])
          BY <1>2, <4>1, <4>2, <5>2
        <5>4. v[k] \in Nat /\ v[q] \in Nat /\ v[j] \in Nat
          BY <1>2, <4>2, <5>2
        <5> QED
          BY <5>3, <5>4, Order
      <4> QED
        BY <4>4, <4>5
    <3> QED
      BY <3>1, <3>2
  <2> QED
    BY <1>2, <2>4, <2>5 DEF IsTop
<1> QED
  BY <1>4, <1>5

----------------------------------------------------------------------------
(* The records of the result and their values.                             *)

\* Whatever the query, there are finitely many records and their values are
\* numbers; those of an aggregation are sums over all threads.
LEMMA RecordsAre ==
    ASSUME BatchInv
    PROVE  /\ IsFiniteSet(AllRecords) /\ \A k \in AllRecords : Total(k) \in Nat
           /\ mode # "sort" => /\ AllRecords = KeysOf(Threads)
                               /\ \A k : Total(k) = PartSum(k, Threads)
<1>0. mem \in [Threads -> Memories]
  BY DEF BatchInv, BatchTypes
<1>1. CASE mode = "sort"
  <2>1. AllRecords = UNION {{t} \X DOMAIN mem[t] : t \in Threads}
    BY <1>1 DEF AllRecords
  <2>2. \A t \in Threads : {t} \X DOMAIN mem[t] \subseteq Threads \X Keys
    BY <1>0, ApartIs
  <2>3. AllRecords \subseteq Threads \X Keys
    BY <2>1, <2>2
  <2>4. IsFiniteSet(Threads \X Keys)
    BY ThreadsAssumption, InputAssumption, FS_Product
  <2>5. IsFiniteSet(AllRecords)
    BY <2>3, <2>4, FS_Subset
  <2>6. ASSUME NEW k \in AllRecords PROVE Total(k) \in Nat
    <3>1. PICK t \in Threads : k \in {t} \X DOMAIN mem[t]
      BY <2>1
    <3>2. k[1] = t /\ mem[t][k[2]] \in Nat
      BY <1>0, <3>1, ApartIs
    <3> QED
      BY <1>1, <3>2, TotalTerms
  <2> QED
    BY <1>1, <2>5, <2>6
<1>2. CASE mode # "sort"
  <2>1. AllRecords = KeysOf(Threads)
    BY <1>2 DEF AllRecords, KeysOf
  <2>2. IsFiniteSet(KeysOf(Threads))
    BY <1>0, MemIs
  <2>3. ASSUME NEW k PROVE Total(k) = PartSum(k, Threads) /\ Total(k) \in Nat
    <3>1. PICK f, g, T : f = Val(k) /\ g = Terms(k) /\ T = DOMAIN g
      OBVIOUS
    <3>2. /\ T \in SUBSET Threads
          /\ \A u \in T : g[u] = mem[u][k] /\ k \in DOMAIN mem[u]
          /\ \A u \in Threads \ T : k \notin DOMAIN mem[u]
      BY <3>1 DEF Terms
    <3>3. ASSUME NEW u \in Threads PROVE f[u] = IF k \in DOMAIN mem[u] THEN mem[u][k] ELSE 0
      BY <3>1 DEF Val
    <3>4. \A u \in Threads : \A i \in DOMAIN mem[u] : mem[u][i] \in Nat
      BY <1>0, MemIs
    <3>5. /\ \A u \in Threads : f[u] \in Int /\ f[u] \in Nat
          /\ \A u \in Threads \ T : f[u] = 0
          /\ \A u \in T : g[u] \in Int /\ g[u] = f[u]
      BY <3>2, <3>3, <3>4
    <3>6. IsFiniteSet(Threads) /\ IsFiniteSet(T)
      BY <3>2, ThreadsAssumption, FS_Subset
    <3>7. SumOver(f, Threads) = SumOver(f, T)
      BY <3>2, <3>5, <3>6, SumSupport
    <3>8. SumOver(g, T) = SumOver(f, T)
      BY <3>5, <3>6, SumEqual
    <3>9. Total(k) = SumOver(g, T)
      BY <1>2, <3>1, TotalTerms
    <3>10. PartSum(k, Threads) = SumOver(f, Threads)
      BY <3>1 DEF PartSum
    <3>11. SumOver(f, Threads) \in Nat
      BY <3>5, <3>6, SumNat
    <3> QED
      BY <3>7, <3>8, <3>9, <3>10, <3>11
  <2> QED
    BY <2>1, <2>2, <2>3
<1> QED
  BY <1>1, <1>2

\* A bound on the values of a key with all threads bounds its total.
LEMMA TotalBound ==
    ASSUME BatchInv, mode # "sort", NEW k, NEW c \in Nat,
           \A t \in Threads : k \in DOMAIN mem[t] => mem[t][k] <= c
    PROVE  Total(k) <= Cardinality(Threads) * c
<1>0. mem \in [Threads -> Memories]
  BY DEF BatchInv, BatchTypes
<1>1. PICK f : f = Val(k)
  OBVIOUS
<1>2. ASSUME NEW u \in Threads PROVE f[u] = IF k \in DOMAIN mem[u] THEN mem[u][k] ELSE 0
  BY <1>1 DEF Val
<1>3. \A u \in Threads : \A i \in DOMAIN mem[u] : mem[u][i] \in Nat
  BY <1>0, MemIs
<1>4. \A u \in Threads : f[u] \in Int /\ f[u] <= c
  BY <1>2, <1>3
<1>5. IsFiniteSet(Threads) /\ c \in Int
  BY ThreadsAssumption
<1>6. SumOver(f, Threads) <= Cardinality(Threads) * c
  BY <1>4, <1>5, SumBound
<1>7. Total(k) = PartSum(k, Threads)
  BY RecordsAre
<1> QED
  BY <1>1, <1>6, <1>7 DEF PartSum

----------------------------------------------------------------------------
(* The bound of phase 1.                                                   *)

\* The bottom is reached by enough keys, and is not larger than a total can be.
LEMMA BottomFound ==
    ASSUME BatchInv, StartPhase2, DescendingTput, NEW top \in Nat, ThresholdFits(top)
    PROVE  /\ FindBottom \in 0..(Cardinality(Threads) * top)
           /\ LET reached == {k \in AllRecords : Precedes(Total(k), FindBottom)} IN
              Cardinality(reached) >= rec_limit \/ reached = AllRecords
<1>0. BatchTypes /\ PartsGathered /\ mpc = "recv1" /\ active = {}
  BY DEF BatchInv, GatherInv, StartPhase2
<1>1. [mode |-> mode, direction |-> direction, rec_limit |-> rec_limit] \in Queries
  BY <1>0 DEF BatchTypes
<1>2. mode = "tput" /\ rec_limit \in Nat /\ rec_limit # 0 /\ direction = "desc"
  <2>1. mode \in {"sort", "aggr", "tput"} /\ rec_limit \in Nat
    BY <1>1, InputAssumption
  <2>2. mpc \in MpcLabels
    BY <1>0 DEF BatchTypes
  <2>3. mode = "tput"
    BY <1>0, <2>1, <2>2 DEF MpcLabels
  <2>4. rec_limit # 0
    BY <1>1, <2>3, InputAssumption
  <2>5. direction = "desc"
    BY <1>1, <2>3 DEF DescendingTput
  <2> QED
    BY <2>1, <2>3, <2>4, <2>5
<1>3. Heard = Threads /\ mem \in [Threads -> Memories]
  BY <1>0 DEF Heard, BatchTypes
<1>4. PICK m, n : m = lnf_mem /\ n = rec_limit /\ n \in Nat /\ n # 0
  BY <1>2
<1>5. /\ DOMAIN m \subseteq KeysOf(Threads)
      /\ \A k \in DOMAIN m : m[k] \in Nat /\ m[k] <= PartSum(k, Threads)
      /\ \A t \in Threads : DOMAIN mem[t] \subseteq DOMAIN m \/ Cardinality(DOMAIN m) >= n
  BY <1>0, <1>3, <1>4 DEF PartsGathered
<1>6. /\ AllRecords = KeysOf(Threads) /\ IsFiniteSet(AllRecords)
      /\ \A k \in AllRecords : Total(k) \in Nat
      /\ \A k : Total(k) = PartSum(k, Threads)
  BY <1>2, RecordsAre
<1>7. IsFiniteSet(DOMAIN m)
  BY <1>5, <1>6, FS_Subset
<1>8. \A a, b : Precedes(a, b) <=> a >= b
  BY <1>2 DEF Precedes
<1>9. ASSUME NEW k \in AllRecords PROVE Total(k) <= Cardinality(Threads) * top
  <2>1. \A t \in Threads : k \in DOMAIN mem[t] => mem[t][k] <= top
    BY <1>3 DEF ThresholdFits
  <2> QED
    BY <1>2, <2>1, TotalBound
<1>10. Cardinality(Threads) * top \in Nat
  <2>1. PICK c \in Nat : c = Cardinality(Threads)
    BY ThreadsAssumption, FS_CardinalityType
  <2>2. c * top \in Nat
    OBVIOUS
  <2> QED
    BY <2>1, <2>2
<1>11. CASE DOMAIN m = {}
  <2>1. FindBottom = 0
    BY <1>4, <1>11 DEF FindBottom
  <2>2. \A k \in AllRecords : Precedes(Total(k), FindBottom)
    BY <1>6, <1>8, <2>1
  <2> QED
    BY <1>10, <2>1, <2>2
<1>12. CASE DOMAIN m # {}
  <2>1. PICK K : K = CHOOSE L \in Leading(m, n) : TRUE
    OBVIOUS
  <2>2. K \in Leading(m, n)
    <3>1. \E L : L \in Leading(m, n)
      BY <1>4, <1>5, <1>7, LeadingExists
    <3> QED
      BY <2>1, <3>1
  <2>3. /\ K \subseteq DOMAIN m /\ IsFiniteSet(K)
        /\ Cardinality(K) = Min({n, Cardinality(DOMAIN m)})
        /\ K = DOMAIN m \/ Cardinality(K) = n
    BY <1>4, <1>7, <2>2, LeadingIs
  <2>4. K # {}
    <3>1. Cardinality({}) = 0
      BY FS_EmptySet
    <3> QED
      BY <1>4, <1>12, <2>3, <3>1
  <2>5. \E x \in K : \A y \in K : Precedes(m[y], m[x])
    BY <1>5, <2>3, <2>4, Extremes
  <2>6. PICK v : v = CHOOSE w \in {m[k] : k \in K} : \A k \in K : Precedes(m[k], w)
    OBVIOUS
  <2>7. v \in {m[k] : k \in K} /\ \A k \in K : Precedes(m[k], v)
    BY <2>5, <2>6
  <2>8. FindBottom = v
    BY <1>4, <1>12, <2>1, <2>6 DEF FindBottom
  <2>9. PICK w \in K : v = m[w]
    BY <2>7
  <2>10. w \in AllRecords /\ v \in Nat /\ v <= Total(w)
    BY <1>5, <1>6, <2>3, <2>9
  <2>11. v \in 0..(Cardinality(Threads) * top)
    <3>1. Total(w) <= Cardinality(Threads) * top /\ Total(w) \in Nat
      BY <1>6, <1>9, <2>10
    <3> QED
      BY <1>10, <2>10, <3>1
  <2>12. PICK R : R = {k \in AllRecords : Precedes(Total(k), v)}
    OBVIOUS
  <2>13. R \in SUBSET AllRecords /\ IsFiniteSet(R)
    BY <1>6, <2>12, FS_Subset
  <2>14. K \subseteq R
    <3> SUFFICES ASSUME NEW k \in K PROVE k \in R
      OBVIOUS
    <3>1. k \in AllRecords /\ m[k] \in Nat /\ m[k] <= Total(k) /\ Total(k) \in Nat
      BY <1>5, <1>6, <2>3
    <3>2. m[k] >= v
      BY <1>8, <2>7
    <3>3. Total(k) >= v
      BY <2>10, <3>1, <3>2
    <3> QED
      BY <1>8, <2>12, <3>1, <3>3
  <2>15. Cardinality(K) <= Cardinality(R) /\ Cardinality(K) \in Nat /\ Cardinality(R) \in Nat
    BY <2>13, <2>14, SameSize
  <2>16. Cardinality(R) >= n \/ R = AllRecords
    <3>1. CASE Cardinality(K) >= n
      BY <1>4, <2>15, <3>1
    <3>2. CASE ~(Cardinality(K) >= n)
      <4>1. K = DOMAIN m
        BY <1>4, <2>3, <2>15, <3>2
      <4>2. \A t \in Threads : DOMAIN mem[t] \subseteq DOMAIN m
        BY <1>5, <3>2, <4>1
      <4>3. KeysOf(Threads) \subseteq K
        BY <4>1, <4>2 DEF KeysOf
      <4> QED
        BY <1>6, <2>13, <2>14, <4>3
    <3> QED
      BY <3>1, <3>2
  <2> QED
    BY <1>4, <2>8, <2>11, <2>12, <2>16
<1> QED
  BY <1>11, <1>12

\* Steps other than the one that sets the bound leave it alone.
LEMMA BoundKept ==
    ASSUME UNCHANGED argVars, threshold' = threshold, bottom' = bottom, BoundInv,
           (mpc' = "recv2" => mpc = "recv2") /\ (candidates' # NotSet => candidates # NotSet \/ mpc = "recv2")
    PROVE  BoundInv'
<1>1. /\ mode' = mode /\ rec_limit' = rec_limit /\ direction' = direction /\ mem' = mem
  BY DEF argVars
<1>2. AllRecords' = AllRecords /\ \A k : Total(k)' = Total(k)
  BY <1>1, SumsKept DEF AllRecords
<1>3. BottomIsBound'
  BY <1>1, <1>2 DEF BoundInv, BottomIsBound, Precedes
<1> QED
  BY <1>1, <1>3 DEF BoundInv

\* Every step keeps the bound.
LEMMA BoundStep ==
    ASSUME BatchInv, BoundInv, [Next]_vars, DescendingTput, NEW top \in Nat, ThresholdFits(top)
    PROVE  BoundInv'
<1>1. CASE \E t \in Threads : ThreadStep(t)
  <2>1. UNCHANGED argVars /\ UNCHANGED masterVars
    BY <1>1 DEF ThreadStep, SendSorted, SendAll, Phase1, Bcast2, Phase2, Bcast3, EnterPhase3, Phase3,
                FreeBuff
  <2> QED
    BY <2>1, BoundKept DEF masterVars
<1>2. CASE \E t \in Threads : Recv(t)
  <2>1. /\ UNCHANGED argVars /\ threshold' = threshold /\ bottom' = bottom /\ mpc' = mpc
        /\ candidates' = candidates
    BY <1>2 DEF Recv
  <2> QED
    BY <2>1, BoundKept
<1>3. CASE StartPhase2
  <2>1. /\ UNCHANGED argVars /\ bottom' = FindBottom /\ threshold' = Threshold(bottom')
    BY <1>3 DEF StartPhase2
  <2>2. /\ bottom' \in 0..(Cardinality(Threads) * top)
        /\ LET reached == {k \in AllRecords : Precedes(Total(k), bottom')} IN
           Cardinality(reached) >= rec_limit \/ reached = AllRecords
    BY <1>3, <2>1, BottomFound
  <2>3. /\ threshold' \in Nat
        /\ Cardinality(Threads) * threshold' < bottom' + Cardinality(Threads)
    BY <2>1, <2>2 DEF ThresholdFits
  <2>4. bottom' \in Nat
    BY <2>2
  <2>5. threshold' # NotSet
    BY <2>3, SentinelAssumption
  <2>6. mode' = mode /\ rec_limit' = rec_limit /\ direction' = direction /\ mem' = mem
    BY <2>1 DEF argVars
  <2>7. AllRecords' = AllRecords /\ \A k : Total(k)' = Total(k)
    BY <2>6, SumsKept DEF AllRecords
  <2>8. BottomIsBound'
    BY <2>2, <2>6, <2>7 DEF BottomIsBound, Precedes
  <2> QED
    BY <2>3, <2>4, <2>5, <2>8 DEF BoundInv
<1>4. CASE StartPhase3
  <2>1. /\ UNCHANGED argVars /\ threshold' = threshold /\ bottom' = bottom /\ mpc = "recv2"
    BY <1>4 DEF StartPhase3
  <2> QED
    BY <2>1, BoundKept
<1>5. CASE PrintBatch
  <2>1. /\ UNCHANGED argVars /\ threshold' = threshold /\ bottom' = bottom /\ mpc' = "done"
        /\ candidates' = candidates
    BY <1>5 DEF PrintBatch
  <2> QED
    BY <2>1, BoundKept
<1>6. CASE UNCHANGED vars
  BY <1>6, BoundKept DEF vars, masterVars
<1> QED
  BY <1>1, <1>2, <1>3, <1>4, <1>5, <1>6 DEF Next, MasterStep, Finished

----------------------------------------------------------------------------
(* The pruning of phase 2, and what is printed.                            *)

\* A key that is not a candidate stays below the bottom.
LEMMA PrunedBelow ==
    ASSUME BatchInv, BoundInv, DescendingTput, candidates # NotSet, NEW k \in AllRecords \ candidates
    PROVE  Total(k) < bottom /\ bottom \in Nat /\ mode = "tput" /\ direction = "desc"
<1>0. BatchTypes /\ CandidatesComplete
  BY DEF BatchInv, GatherInv
<1>1. [mode |-> mode, direction |-> direction, rec_limit |-> rec_limit] \in Queries
  BY <1>0 DEF BatchTypes
<1>2. mode = "tput" /\ direction = "desc"
  BY <1>0, <1>1 DEF BatchTypes, DescendingTput
<1>3. mem \in [Threads -> Memories] /\ \A a, b : Precedes(a, b) <=> a >= b
  BY <1>0, <1>2 DEF BatchTypes, Precedes
<1>4. PICK b \in Nat, h \in Nat, c \in Nat :
         b = bottom /\ h = threshold /\ c = Cardinality(Threads) /\ c * h < b + c
  <2>1. /\ bottom \in Nat /\ threshold \in Nat
        /\ Cardinality(Threads) * threshold < bottom + Cardinality(Threads)
    BY DEF BoundInv
  <2>2. Cardinality(Threads) \in Nat
    BY ThreadsAssumption, FS_CardinalityType
  <2> QED
    BY <2>1, <2>2
<1>5. /\ AllRecords = KeysOf(Threads) /\ Total(k) \in Nat
  BY <1>2, RecordsAre
<1>6. \A t \in Threads : k \in DOMAIN mem[t] => mem[t][k] \in Nat /\ mem[t][k] < h
  <2>1. \A t \in Threads : k \in DOMAIN mem[t] => mem[t][k] \in Nat /\ ~(mem[t][k] >= h)
    BY <1>0, <1>3, <1>4, MemIs DEF CandidatesComplete
  <2> QED
    BY <2>1
<1>7. h # 0
  <2>1. PICK t \in Threads : k \in DOMAIN mem[t]
    BY <1>5 DEF KeysOf
  <2> QED
    BY <1>6, <2>1
<1>8. PICK d \in Nat : d = h - 1
  BY <1>7
<1>9. \A t \in Threads : k \in DOMAIN mem[t] => mem[t][k] <= d
  BY <1>6, <1>8
<1>10. Total(k) <= Cardinality(Threads) * d
  BY <1>2, <1>9, TotalBound
<1>11. c * d = c * h - c
  BY <1>8
<1>12. c * h \in Nat
  OBVIOUS
<1>13. PICK p \in Nat, q \in Int : p = c * h /\ q = c * d
  BY <1>12
<1> QED
  BY <1>2, <1>4, <1>5, <1>10, <1>11, <1>13

\* A key that is left out is beaten by enough candidates.
LEMMA PrunedBeaten ==
    ASSUME BatchInv, BoundInv, DescendingTput, candidates # NotSet, NEW k \in AllRecords \ candidates
    PROVE  Cardinality({j \in candidates : Precedes(Total(j), Total(k))}) >= rec_limit
<1>1. Total(k) < bottom /\ bottom \in Nat /\ mode = "tput" /\ direction = "desc"
  BY PrunedBelow
<1>2. /\ AllRecords = KeysOf(Threads) /\ IsFiniteSet(AllRecords)
      /\ \A j \in AllRecords : Total(j) \in Nat
  BY <1>1, RecordsAre
<1>3. \A a, b : Precedes(a, b) <=> a >= b
  BY <1>1 DEF Precedes
<1>4. PICK R, Q : /\ R = {j \in AllRecords : Precedes(Total(j), bottom)}
                  /\ Q = {j \in candidates : Precedes(Total(j), Total(k))}
  OBVIOUS
<1>5. Cardinality(R) >= rec_limit
  <2>1. threshold # NotSet /\ BottomIsBound
    BY DEF BoundInv
  <2>2. Cardinality(R) >= rec_limit \/ R = AllRecords
    BY <1>4, <2>1 DEF BottomIsBound
  <2>3. k \notin R
    BY <1>1, <1>2, <1>3, <1>4
  <2> QED
    BY <2>2, <2>3
<1>6. ASSUME NEW j \in R PROVE j \in Q
  <2>1. j \in AllRecords /\ Total(j) >= bottom /\ Total(j) \in Nat /\ Total(k) \in Nat
    BY <1>2, <1>3, <1>4
  <2>2. j \in candidates
    <3> SUFFICES ASSUME j \notin candidates PROVE FALSE
      OBVIOUS
    <3>1. Total(j) < bottom
      BY <2>1, PrunedBelow
    <3> QED
      BY <1>1, <2>1, <3>1
  <2>3. Total(j) >= Total(k)
    BY <1>1, <2>1
  <2> QED
    BY <1>3, <1>4, <2>2, <2>3
<1>7. IsFiniteSet(Q)
  <2>1. candidates \subseteq KeysOf(Threads)
    BY DEF BatchInv, BatchTypes
  <2>2. Q \subseteq AllRecords
    BY <1>2, <1>4, <2>1
  <2> QED
    BY <1>2, <2>2, FS_Subset
<1>8. Cardinality(R) \in Nat /\ Cardinality(Q) \in Nat /\ Cardinality(R) <= Cardinality(Q)
  <2>1. R \in SUBSET Q
    BY <1>6
  <2> QED
    BY <1>7, <2>1, SameSize
<1>9. rec_limit \in Nat
  <2>1. [mode |-> mode, direction |-> direction, rec_limit |-> rec_limit] \in Queries
    BY DEF BatchInv, BatchTypes
  <2> QED
    BY <2>1, InputAssumption
<1> QED
  BY <1>4, <1>5, <1>8, <1>9

\* The claims of the two phases, in every state.
LEMMA ClaimsFollow ==
    ASSUME BatchInv, BoundInv, DescendingTput
    PROVE  TputClaims
<1>1. CandidatesSuffice
  BY PrunedBeaten DEF CandidatesSuffice
<1> QED
  BY <1>1 DEF TputClaims, BoundInv

\* What the master holds when it prints: records of the result with their
\* values, and each record it lacks is preceded by enough of them.
LEMMA AllGathered ==
    ASSUME BatchInv, BoundInv, DescendingTput, active = {}, mpc \in {"recvSort", "recvAll", "recv3"}
    PROVE  /\ DOMAIN lnf_mem \subseteq AllRecords
           /\ \A k \in DOMAIN lnf_mem : lnf_mem[k] = Total(k)
           /\ \A j \in AllRecords \ DOMAIN lnf_mem :
                 /\ rec_limit # 0
                 /\ Cardinality({k \in DOMAIN lnf_mem : Precedes(Total(k), Total(j))}) >= rec_limit
<1>0. /\ BatchTypes /\ SortGathered /\ SumsGathered /\ Heard = Threads
      /\ mode \in {"sort", "aggr", "tput"} /\ mpc \in MpcLabels
      /\ mem \in [Threads -> Memories]
      /\ mode = "tput" => rec_limit # 0
  <2>1. [mode |-> mode, direction |-> direction, rec_limit |-> rec_limit] \in Queries
    BY DEF BatchInv, BatchTypes
  <2>2. mode \in {"sort", "aggr", "tput"} /\ (mode = "tput" => rec_limit # 0)
    BY <2>1, InputAssumption
  <2> QED
    BY <2>2 DEF BatchInv, GatherInv, BatchTypes, Heard
<1>1. CASE mpc = "recvSort"
  <2>1. mode = "sort"
    BY <1>0, <1>1 DEF MpcLabels
  <2>2. /\ AllRecords = UNION {{t} \X DOMAIN mem[t] : t \in Threads}
        /\ \A k : Total(k) = mem[k[1]][k[2]]
    BY <2>1, TotalTerms DEF AllRecords
  <2>3. /\ DOMAIN lnf_mem \subseteq UNION {{t} \X DOMAIN mem[t] : t \in Threads}
        /\ \A r \in DOMAIN lnf_mem : lnf_mem[r] = mem[r[1]][r[2]]
        /\ \A t \in Threads : \A r \in ({t} \X DOMAIN mem[t]) \ DOMAIN lnf_mem :
              /\ rec_limit # 0
              /\ Cardinality({q \in DOMAIN lnf_mem : Precedes(lnf_mem[q], mem[t][r[2]])}) >= rec_limit
    BY <1>0, <1>1 DEF SortGathered
  <2>4. ASSUME NEW j \in AllRecords \ DOMAIN lnf_mem
        PROVE  /\ rec_limit # 0
               /\ Cardinality({k \in DOMAIN lnf_mem : Precedes(Total(k), Total(j))}) >= rec_limit
    <3>1. PICK t \in Threads : j \in {t} \X DOMAIN mem[t]
      BY <2>2
    <3>2. j[1] = t
      BY <3>1
    <3>3. mem[t][j[2]] = Total(j)
      BY <2>2, <3>2
    <3>4. {q \in DOMAIN lnf_mem : Precedes(lnf_mem[q], mem[t][j[2]])}
             = {k \in DOMAIN lnf_mem : Precedes(Total(k), Total(j))}
      BY <2>2, <2>3, <3>3
    <3> QED
      BY <2>3, <3>1, <3>4
  <2> QED
    BY <2>2, <2>3, <2>4
<1>2. CASE mpc \in {"recvAll", "recv3"}
  <2>1. mode # "sort" /\ (mpc = "recvAll" => mode = "aggr") /\ (mpc = "recv3" => mode = "tput")
    BY <1>0, <1>2 DEF MpcLabels
  <2>2. AllRecords = KeysOf(Threads) /\ \A k : Total(k) = PartSum(k, Threads)
    BY <2>1, RecordsAre
  <2>3. /\ DOMAIN lnf_mem = Wanted \cap KeysOf(Threads)
        /\ \A k \in DOMAIN lnf_mem : lnf_mem[k] = PartSum(k, Threads)
    BY <1>0, <1>2 DEF SumsGathered
  <2>4. ASSUME NEW j \in AllRecords \ DOMAIN lnf_mem
        PROVE  /\ rec_limit # 0
               /\ Cardinality({k \in DOMAIN lnf_mem : Precedes(Total(k), Total(j))}) >= rec_limit
    <3>1. mode = "tput" /\ mpc = "recv3" /\ j \notin candidates
      BY <1>2, <2>1, <2>2, <2>3 DEF Wanted
    <3>2. candidates # NotSet /\ candidates \subseteq KeysOf(Threads)
      BY <1>0, <3>1 DEF BatchTypes
    <3>3. DOMAIN lnf_mem = candidates
      BY <2>3, <3>1, <3>2 DEF Wanted
    <3>4. Cardinality({k \in candidates : Precedes(Total(k), Total(j))}) >= rec_limit
      BY <3>1, <3>2, PrunedBeaten
    <3> QED
      BY <1>0, <3>1, <3>3, <3>4
  <2> QED
    BY <2>2, <2>3, <2>4
<1> QED
  BY <1>1, <1>2

\* Printing prints the first records of the result.
LEMMA PrintsTop ==
    ASSUME BatchInv, BoundInv, DescendingTput, PrintBatch
    PROVE  TopRecordsPrinted'
<1>0. /\ UNCHANGED argVars /\ active = {} /\ mpc \in {"recvSort", "recvAll", "recv3"}
      /\ \E K \in IF rec_limit = 0 THEN {DOMAIN lnf_mem} ELSE Leading(lnf_mem, rec_limit) :
            printed' = Restricted(lnf_mem, K)
  BY DEF PrintBatch
<1>1. mode' = mode /\ rec_limit' = rec_limit /\ direction' = direction /\ mem' = mem
  BY <1>0 DEF argVars
<1>2. AllRecords' = AllRecords /\ \A k : Total(k)' = Total(k)
  BY <1>1, SumsKept DEF AllRecords
<1>3. PICK A, v, m, n, p :
         /\ A = AllRecords /\ v = [k \in A |-> Total(k)] /\ m = lnf_mem /\ n = rec_limit
         /\ p = printed'
  OBVIOUS
<1>4. IsFiniteSet(A) /\ (\A k \in A : v[k] = Total(k) /\ v[k] \in Nat) /\ n \in Nat
  <2>1. [mode |-> mode, direction |-> direction, rec_limit |-> rec_limit] \in Queries
    BY DEF BatchInv, BatchTypes
  <2>2. n \in Nat
    BY <1>3, <2>1, InputAssumption
  <2>3. IsFiniteSet(AllRecords) /\ \A k \in AllRecords : Total(k) \in Nat
    BY RecordsAre
  <2> QED
    BY <1>3, <2>2, <2>3
<1>5. /\ DOMAIN m \in SUBSET A /\ \A k \in DOMAIN m : m[k] = v[k]
      /\ \A j \in A \ DOMAIN m : n # 0 /\ Cardinality({k \in DOMAIN m : Precedes(v[k], v[j])}) >= n
  <2>1. /\ DOMAIN lnf_mem \subseteq AllRecords
        /\ \A k \in DOMAIN lnf_mem : lnf_mem[k] = Total(k)
        /\ \A j \in AllRecords \ DOMAIN lnf_mem :
              /\ rec_limit # 0
              /\ Cardinality({k \in DOMAIN lnf_mem : Precedes(Total(k), Total(j))}) >= rec_limit
    BY <1>0, AllGathered
  <2>2. DOMAIN m \in SUBSET A /\ \A k \in DOMAIN m : m[k] = v[k]
    BY <1>3, <1>4, <2>1
  <2>3. ASSUME NEW j \in A \ DOMAIN m
        PROVE  n # 0 /\ Cardinality({k \in DOMAIN m : Precedes(v[k], v[j])}) >= n
    <3>1. {k \in DOMAIN m : Precedes(v[k], v[j])} = {k \in DOMAIN lnf_mem : Precedes(Total(k), Total(j))}
      BY <1>3, <1>4, <2>2
    <3> QED
      BY <1>3, <2>1, <3>1
  <2> QED
    BY <2>2, <2>3
<1>6. PICK K \in IF n = 0 THEN {DOMAIN m} ELSE Leading(m, n) : p = Restricted(m, K)
  BY <1>0, <1>3
<1>7. /\ K \subseteq A /\ K \subseteq DOMAIN m
      /\ Cardinality(K) = IF n = 0 THEN Cardinality(A) ELSE Min({n, Cardinality(A)})
      /\ \A k \in K, j \in A \ K : Precedes(v[k], v[j])
  <2>1. CASE n = 0
    <3>1. K = DOMAIN m /\ DOMAIN m = A
      BY <1>5, <1>6, <2>1
    <3> QED
      BY <2>1, <3>1
  <2>2. CASE n # 0
    <3>1. K \in Leading(m, n)
      BY <1>6, <2>2
    <3>2. PICK C : C = DOMAIN m
      OBVIOUS
    <3>3. C \in SUBSET A /\ (\A k \in C : m[k] = v[k]) /\ Beaten(A, C, v, n)
      BY <1>5, <3>2 DEF Beaten
    <3>4. IsTop(K, A, v, n) /\ K \subseteq C
      <4>1. IsFiniteSet(A) /\ n \in Nat /\ \A k \in A : v[k] \in Nat
        BY <1>4
      <4>2. DOMAIN m = C /\ K \in Leading(m, n)
        BY <3>1, <3>2
      <4> QED
        BY <3>3, <4>1, <4>2, TopOfSome
    <3> QED
      BY <2>2, <3>2, <3>4 DEF IsTop
  <2> QED
    BY <2>1, <2>2
<1>8. DOMAIN p = K /\ \A k \in K : p[k] = m[k]
  BY <1>6 DEF Restricted
<1>9. \A k \in K : p[k] = Total(k)
  BY <1>4, <1>5, <1>7, <1>8
<1>10. \A k \in K, j \in A \ K : Precedes(Total(k), Total(j))
  BY <1>4, <1>7
<1>11. /\ DOMAIN printed' \subseteq AllRecords
       /\ Cardinality(DOMAIN printed') =
             IF rec_limit = 0 THEN Cardinality(AllRecords) ELSE Min({rec_limit, Cardinality(AllRecords)})
       /\ \A k \in DOMAIN printed' : printed'[k] = Total(k)
       /\ \A k \in DOMAIN printed', j \in AllRecords \ DOMAIN printed' : Precedes(Total(k), Total(j))
  BY <1>3, <1>7, <1>8, <1>9, <1>10
<1> QED
  BY <1>1, <1>2, <1>11 DEF TopRecordsPrinted, Precedes

\* Nothing else changes what has been printed.
LEMMA PrintedStep ==
    ASSUME BatchInv, BoundInv, DescendingTput, TopRecordsPrinted, [Next]_vars
    PROVE  TopRecordsPrinted'
<1>1. CASE PrintBatch
  BY <1>1, PrintsTop
<1>2. CASE UNCHANGED argVars /\ printed' = printed /\ (mpc' = "done" => mpc = "done")
  <2>1. mode' = mode /\ rec_limit' = rec_limit /\ direction' = direction /\ mem' = mem
    BY <1>2 DEF argVars
  <2>2. AllRecords' = AllRecords /\ \A k : Total(k)' = Total(k)
    BY <2>1, SumsKept DEF AllRecords
  <2> QED
    BY <1>2, <2>1, <2>2 DEF TopRecordsPrinted, Precedes
<1>3. CASE \E t \in Threads : ThreadStep(t)
  <2>1. UNCHANGED argVars /\ UNCHANGED masterVars
    BY <1>3 DEF ThreadStep, SendSorted, SendAll, Phase1, Bcast2, Phase2, Bcast3, EnterPhase3, Phase3,
                FreeBuff
  <2> QED
    BY <1>2, <2>1 DEF masterVars
<1>4. CASE \E t \in Threads : Recv(t)
  BY <1>2, <1>4 DEF Recv
<1>5. CASE StartPhase2
  BY <1>2, <1>5 DEF StartPhase2
<1>6. CASE StartPhase3
  BY <1>2, <1>6 DEF StartPhase3
<1>7. CASE UNCHANGED vars
  BY <1>2, <1>7 DEF vars, masterVars
<1> QED
  BY <1>1, <1>3, <1>4, <1>5, <1>6, <1>7 DEF Next, MasterStep, Finished

\* Nothing is claimed or printed in an initial state.
LEMMA BoundInit ==
    ASSUME Init
    PROVE  BoundInv /\ TopRecordsPrinted
<1>1. threshold = NotSet /\ candidates = NotSet
  BY DEF Init
<1>2. mode \in {"sort", "aggr", "tput"}
  <2>1. PICK q \in Queries : mode = q.mode
    BY DEF Init
  <2> QED
    BY <2>1, InputAssumption
<1>3. mpc \notin {"recv2", "done"}
  BY <1>2 DEF Init
<1> QED
  BY <1>1, <1>3 DEF BoundInv, BottomIsBound, TopRecordsPrinted

\* The claims on which TPUT rests (comments of tput_phase_1_find_bottom and of
\* the phases in master.c): the bottom of phase 1 is reached by rec_limit keys,
\* and every key that phase 2 leaves out is beaten by rec_limit candidates.
THEOREM TputSound ==
    ASSUME DescendingTput, NEW top \in Nat, ThresholdFits(top)
    PROVE  Spec => []TputClaims
<1>1. Init => BoundInv
  BY BoundInit
<1>2. BatchInv /\ BoundInv /\ [Next]_vars => BoundInv'
  BY BoundStep
<1>3. BatchInv /\ BoundInv => TputClaims
  BY ClaimsFollow
<1> QED
  BY <1>1, <1>2, <1>3, BatchHolds, PTL DEF Spec

\* print_batch prints the first rec_limit records of the whole result with their
\* values over all threads, for sorting, aggregation and TPUT, however records
\* are spread over threads and in whatever order messages arrive.
THEOREM TopPrinted ==
    ASSUME DescendingTput, NEW top \in Nat, ThresholdFits(top)
    PROVE  Spec => []TopRecordsPrinted
<1>1. Init => BoundInv /\ TopRecordsPrinted
  BY BoundInit
<1>2. BatchInv /\ BoundInv /\ [Next]_vars => BoundInv'
  BY BoundStep
<1>3. BatchInv /\ BoundInv /\ TopRecordsPrinted /\ [Next]_vars => TopRecordsPrinted'
  BY PrintedStep
<1> QED
  BY <1>1, <1>2, <1>3, BatchHolds, PTL DEF Spec

----------------------------------------------------------------------------
(* Values that a double holds exactly.                                     *)

\* The quotient rounded up, n times, is less than n above the number.
LEMMA CeilDivBound ==
    ASSUME NEW b \in Nat, NEW n \in Nat, n # 0
    PROVE  CeilDiv(b, n) \in Nat /\ n * CeilDiv(b, n) < b + n
<1>1. PICK a, q, r : a = b + n - 1 /\ q = a \div n /\ r = a % n
  OBVIOUS
<1>2. a \in Nat
  BY <1>1
<1>3. q \in Nat /\ r \in Nat /\ a = n * q + r
  BY <1>1, <1>2
<1>4. n * q <= a
  BY <1>2, <1>3
<1>5. n * q < b + n
  BY <1>1, <1>3, <1>4
<1> QED
  BY <1>1, <1>3, <1>5 DEF CeilDiv

\* What fits into the mantissa is converted to a double as it is.
LEMMA SmallIsExact ==
    ASSUME NEW a \in Nat, a < 2 ^ Mantissa
    PROVE  Ulp(a) = 1 /\ ToDouble(a) = a
<1>1. Ulp(a) = 1
  BY DEF Ulp
<1>2. a \div 1 = a /\ a % 1 = 0
  OBVIOUS
<1>3. RoundHalfEven(a, 1) = a
  BY <1>2 DEF RoundHalfEven
<1> QED
  BY <1>1, <1>3 DEF ToDouble

\* The threshold of a small bottom is its share, rounded up.
LEMMA SmallThreshold ==
    ASSUME NEW b \in Nat, b < 2 ^ Mantissa
    PROVE  Threshold(b) = CeilDiv(b, Cardinality(Threads))
<1>1. PICK n : n = Cardinality(Threads)
  OBVIOUS
<1>2. n \in Nat /\ n # 0
  BY <1>1, ThreadsAssumption, FS_CardinalityType, FS_EmptySet
<1>3. b \div n \in Nat /\ b \div n <= b
  BY <1>2
<1>4. b \div n < 2 ^ Mantissa
  BY <1>3, InputAssumption
<1>5. ToDouble(b) = b /\ Ulp(b \div n) = 1
  BY <1>3, <1>4, SmallIsExact
<1> QED
  BY <1>1, <1>5 DEF Threshold

\* ceil((double)phase_1_bottom / slave_threads_cnt) is never too large when totals
\* fit into the mantissa of a double, that is, below 2^53.
THEOREM SmallTotalsFit ==
    ASSUME NEW top \in Nat, \A m \in Memories : \A k \in DOMAIN m : m[k] <= top,
           Cardinality(Threads) * top < 2 ^ Mantissa
    PROVE  ThresholdFits(top)
<1>1. PICK n, c : n = Cardinality(Threads) /\ c = n * top
  OBVIOUS
<1>2. n \in Nat /\ n # 0
  BY <1>1, ThreadsAssumption, FS_CardinalityType, FS_EmptySet
<1>3. c \in Nat /\ c < 2 ^ Mantissa
  BY <1>1, <1>2
<1>4. ASSUME NEW b \in 0..c PROVE Threshold(b) \in Nat /\ n * Threshold(b) < b + n
  <2>1. b \in Nat /\ b < 2 ^ Mantissa
    BY <1>3, InputAssumption
  <2>2. Threshold(b) = CeilDiv(b, n)
    BY <1>1, <2>1, SmallThreshold
  <2> QED
    BY <1>2, <2>1, <2>2, CeilDivBound
<1> QED
  BY <1>1, <1>4 DEF ThresholdFits

\* Hence print_batch prints the whole Top-N of every query whose totals are below
\* 2^53, provided that TPUT is not asked for an ascending order.
THEOREM SmallTopPrinted ==
    ASSUME DescendingTput, NEW top \in Nat,
           \A m \in Memories : \A k \in DOMAIN m : m[k] <= top,
           Cardinality(Threads) * top < 2 ^ Mantissa
    PROVE  Spec => []TopRecordsPrinted
<1>1. ThresholdFits(top)
  BY SmallTotalsFit
<1> QED
  BY <1>1, TopPrinted

=============================================================================
