-------------------------- MODULE BfIndex_proofs ---------------------------
(***************************************************************************)
(* Proofs about BfIndex: for every filter that Indexable allows no file    *)
(* with a matching record is skipped, whatever the threads do to the       *)
(* static variables they share, and an index is in use where the addresses *)
(* stay within the limit.                                                  *)
(*                                                                         *)
(* The first part is about filters and trees alone: a tree built by Prune  *)
(* from the results for the leaves contains what the filter asks for,      *)
(* unless a disjunction lost one operand.  BfInv then says that a thread's *)
(* results are such a tree, and that an operand lost by an error is        *)
(* recorded in global_ecode for good, or never lost.                       *)
(***************************************************************************)
EXTENDS BfIndex, SumTheorems, SequenceTheorems

----------------------------------------------------------------------------
(* The value of a filter or a tree.                                        *)

NodeValue(nodes, leaf, v, i) ==
    CASE nodes[i].type = "and" -> v[nodes[i].left] /\ v[nodes[i].right]
      [] nodes[i].type = "or" -> v[nodes[i].left] \/ v[nodes[i].right]
      [] OTHER -> leaf[i]

\* Operators come after their operands.
Ordered(nodes) ==
    /\ Len(nodes) \in Nat
    /\ \A i \in 1..Len(nodes) : IsOper(nodes[i]) =>
          nodes[i].left \in 1..(i - 1) /\ nodes[i].right \in 1..(i - 1)

\* The value of a node is a truth value.
LEMMA NodeValueType ==
    ASSUME NEW nodes, NEW n \in Nat, NEW leaf \in [1..n -> BOOLEAN], NEW v, NEW i \in 1..n
    PROVE  NodeValue(nodes, leaf, v, i) \in BOOLEAN
  BY DEF NodeValue

\* The value of a node depends on the nodes before it only.
LEMMA NodeValueLocal ==
    ASSUME NEW nodes, Ordered(nodes), NEW leaf, NEW i \in 1..Len(nodes), NEW v, NEW w,
           \A j \in 1..(i - 1) : v[j] = w[j]
    PROVE  NodeValue(nodes, leaf, v, i) = NodeValue(nodes, leaf, w, i)
<1>1. CASE nodes[i].type = "and"
  <2>1. v[nodes[i].left] = w[nodes[i].left] /\ v[nodes[i].right] = w[nodes[i].right]
    BY <1>1 DEF Ordered, IsOper
  <2> QED
    BY <1>1, <2>1 DEF NodeValue
<1>2. CASE nodes[i].type = "or"
  <2>1. v[nodes[i].left] = w[nodes[i].left] /\ v[nodes[i].right] = w[nodes[i].right]
    BY <1>2 DEF Ordered, IsOper
  <2> QED
    BY <1>2, <2>1 DEF NodeValue
<1>3. CASE nodes[i].type # "and" /\ nodes[i].type # "or"
  BY <1>3 DEF NodeValue
<1> QED
  BY <1>1, <1>2, <1>3

\* There is a function that satisfies the equations of Value.
LEMMA ValuesExist ==
    ASSUME NEW nodes, Ordered(nodes), NEW leaf \in [1..Len(nodes) -> BOOLEAN]
    PROVE  \E v \in [1..Len(nodes) -> BOOLEAN] :
              \A i \in 1..Len(nodes) : v[i] = NodeValue(nodes, leaf, v, i)
<1> DEFINE n == Len(nodes)
           T == {k \in Nat : \E v \in [1..n -> BOOLEAN] :
                    \A i \in 1..n : i <= k => v[i] = NodeValue(nodes, leaf, v, i)}
<1>0. n \in Nat
  BY DEF Ordered
<1>1. 0 \in T
  <2>1. leaf \in [1..n -> BOOLEAN] /\ \A i \in 1..n : ~(i <= 0)
    BY <1>0
  <2> QED
    BY <2>1
<1>2. ASSUME NEW k \in Nat, k \in T PROVE k + 1 \in T
  <2>1. PICK v \in [1..n -> BOOLEAN] :
           \A i \in 1..n : i <= k => v[i] = NodeValue(nodes, leaf, v, i)
    BY <1>2
  <2> DEFINE w == [i \in 1..n |-> IF i = k + 1 THEN NodeValue(nodes, leaf, v, i) ELSE v[i]]
  <2>2. \A i \in 1..n : NodeValue(nodes, leaf, v, i) \in BOOLEAN
    BY <1>0, NodeValueType
  <2>3. w \in [1..n -> BOOLEAN]
    BY <2>2
  <2>4. ASSUME NEW i \in 1..n, i <= k + 1 PROVE w[i] = NodeValue(nodes, leaf, w, i)
    <3>1. \A j \in 1..(i - 1) : j \in 1..n /\ j # k + 1
      BY <1>0, <2>4
    <3>2. \A j \in 1..(i - 1) : w[j] = v[j]
      BY <3>1
    <3>3. NodeValue(nodes, leaf, w, i) = NodeValue(nodes, leaf, v, i)
      BY <3>2, NodeValueLocal
    <3>4. CASE i = k + 1
      BY <3>3, <3>4
    <3>5. CASE i # k + 1
      <4>1. i <= k
        BY <1>0, <2>4, <3>5
      <4> QED
        BY <2>1, <3>3, <3>5, <4>1
    <3> QED
      BY <3>4, <3>5
  <2> HIDE DEF w
  <2> QED
    BY <2>3, <2>4
<1> HIDE DEF T
<1>3. n \in T
  BY <1>0, <1>1, <1>2, NatInduct
<1> QED
  BY <1>0, <1>3 DEF T

\* Value is the value of the last node in functions that satisfy the equations.
LEMMA ValueMeans ==
    ASSUME NEW nodes, Ordered(nodes), Len(nodes) # 0, NEW leaf \in [1..Len(nodes) -> BOOLEAN]
    PROVE  \E v \in [1..Len(nodes) -> BOOLEAN] :
              /\ Value(nodes, leaf) = v[Len(nodes)]
              /\ \A i \in 1..Len(nodes) : v[i] = NodeValue(nodes, leaf, v, i)
<1> DEFINE Body(v) == [i \in 1..Len(nodes) |-> NodeValue(nodes, leaf, v, i)]
           V == CHOOSE v : v = Body(v)
<1>1. Value(nodes, leaf) = V[Len(nodes)]
  BY DEF Value, NodeValue
<1>2. PICK v \in [1..Len(nodes) -> BOOLEAN] :
         \A i \in 1..Len(nodes) : v[i] = NodeValue(nodes, leaf, v, i)
  BY ValuesExist
<1>3. v = Body(v)
  BY <1>2
<1>4. V = Body(V)
  BY <1>3
<1> HIDE DEF V
<1>5. \A i \in 1..Len(nodes) : NodeValue(nodes, leaf, V, i) \in BOOLEAN
  BY NodeValueType DEF Ordered
<1>6. V \in [1..Len(nodes) -> BOOLEAN]
  BY <1>4, <1>5
<1>7. \A i \in 1..Len(nodes) : V[i] = NodeValue(nodes, leaf, V, i)
  BY <1>4
<1> QED
  BY <1>1, <1>6, <1>7

----------------------------------------------------------------------------
(* Trees made of the results for the nodes of a filter.                    *)

\* What build_node returns for node j, given the results b for the nodes before it.
Result(f, b, j) ==
    IF IsOper(f[j]) THEN b[j] = Prune(b, f[j])
    ELSE b[j] = Null \/ (Plain(f[j]) /\ \E ip : f[j].net = {ip} /\ b[j] = Addr(ip))

Results(f, b) ==
    /\ IsFilter(f)
    /\ Len(b) \in 0..Len(f)
    /\ \A j \in 1..Len(b) : Result(f, b, j)

\* A result is nothing, an address, or an operator with two operands.
Shape(b, j) ==
    \/ b[j] = Null
    \/ \E ip : b[j] = Addr(ip)
    \/ /\ IsOper(b[j])
       /\ b[j].left \in 1..(j - 1) /\ b[j].right \in 1..(j - 1)
       /\ b[b[j].left] # Null /\ b[b[j].right] # Null

\* A filter is ordered as Value requires.
LEMMA FilterOrdered ==
    ASSUME NEW f, IsFilter(f)
    PROVE  Len(f) \in Nat /\ Len(f) # 0 /\ DOMAIN f = 1..Len(f) /\ Ordered(f)
<1>1. f \in Seq({f[i] : i \in DOMAIN f}) /\ f # <<>>
  BY DEF IsFilter
<1>2. Len(f) \in Nat /\ DOMAIN f = 1..Len(f) /\ Len(f) # 0
  BY <1>1, LenProperties, EmptySeq
<1> QED
  BY <1>2 DEF IsFilter, Ordered

\* The type tells the kinds of results apart.
LEMMA ShapeType ==
    ASSUME NEW b, NEW j, Shape(b, j)
    PROVE  /\ b[j].type = "null" <=> b[j] = Null
           /\ b[j].type = "addr" <=> \E ip : b[j] = Addr(ip)
           /\ IsOper(b[j]) <=> b[j] # Null /\ ~\E ip : b[j] = Addr(ip)
<1>1. Null.type = "null" /\ \A ip : Addr(ip).type = "addr"
  BY DEF Null, Addr
<1>2. CASE b[j] = Null
  BY <1>1, <1>2 DEF IsOper
<1>3. CASE \E ip : b[j] = Addr(ip)
  <2>1. b[j].type = "addr" /\ b[j] # Null
    BY <1>1, <1>3
  <2> QED
    BY <1>3, <2>1 DEF IsOper
<1>4. CASE IsOper(b[j])
  <2>1. b[j].type # "null" /\ b[j].type # "addr"
    BY <1>4 DEF IsOper
  <2> QED
    BY <1>1, <1>4, <2>1
<1> QED
  BY <1>2, <1>3, <1>4 DEF Shape

\* The cases of prune_oper_subtree.
LEMMA PruneCases ==
    ASSUME NEW b, NEW node, Shape(b, node.left), Shape(b, node.right)
    PROVE  \/ b[node.left] = Null /\ Prune(b, node) = b[node.right]
           \/ /\ b[node.left] # Null /\ Prune(b, node) = b[node.left]
              /\ b[node.right] = Null \/ b[node.right] = b[node.left]
           \/ b[node.left] # Null /\ b[node.right] # Null /\ Prune(b, node) = node
<1>1. /\ b[node.left].type = "null" <=> b[node.left] = Null
      /\ b[node.right].type = "null" <=> b[node.right] = Null
  BY ShapeType
<1> QED
  BY <1>1 DEF Prune

\* A result that stands for an operator, with its operands.
LEMMA OperandsBefore ==
    ASSUME NEW f, NEW b, Results(f, b), NEW j \in 1..Len(b), IsOper(f[j])
    PROVE  /\ j \in Nat /\ f[j].left \in 1..(j - 1) /\ f[j].right \in 1..(j - 1)
           /\ f[j].left \in 1..Len(b) /\ f[j].right \in 1..Len(b)
           /\ b[j] = Prune(b, f[j])
<1>1. /\ Ordered(f) /\ j \in 1..Len(f) /\ Result(f, b, j)
      /\ Len(b) \in Nat
  BY FilterOrdered DEF Results
<1> QED
  BY <1>1 DEF Ordered, Result

\* Every result has a shape.
LEMMA ResultsShaped ==
    ASSUME NEW f, NEW b, Results(f, b)
    PROVE  \A j \in 1..Len(b) : Shape(b, j)
<1> DEFINE C == {j \in 1..Len(b) : ~Shape(b, j)}
<1>0. Len(b) \in Nat
  BY FilterOrdered DEF Results
<1> SUFFICES ASSUME C # {} PROVE FALSE
  OBVIOUS
<1>a. C \subseteq Nat
  BY <1>0
<1>1. PICK j \in C : \A k \in C : j <= k
  <2> HIDE DEF C
  <2> QED
    BY <1>a, LeastNat
<1>2. j \in 1..Len(b) /\ Result(f, b, j)
  BY DEF Results
<1>3. \A k \in 1..(j - 1) : Shape(b, k)
  BY <1>0, <1>1, <1>2
<1>4. CASE ~IsOper(f[j])
  BY <1>2, <1>4 DEF Result, Shape
<1>5. CASE IsOper(f[j])
  <2> DEFINE l == f[j].left
             r == f[j].right
  <2>1. l \in 1..(j - 1) /\ r \in 1..(j - 1) /\ b[j] = Prune(b, f[j])
    BY <1>2, <1>5, OperandsBefore
  <2>2. Shape(b, l) /\ Shape(b, r)
    BY <1>3, <2>1
  <2>3. \A k \in {l, r} : b[j] = b[k] => Shape(b, j)
    <3> SUFFICES ASSUME NEW k \in {l, r}, b[j] = b[k] PROVE Shape(b, j)
      OBVIOUS
    <3>1. Shape(b, k) /\ 1..(k - 1) \subseteq 1..(j - 1)
      BY <1>0, <1>2, <2>1, <2>2
    <3>2. CASE IsOper(b[k]) /\ b[k].left \in 1..(k - 1) /\ b[k].right \in 1..(k - 1)
      <4>1. /\ b[j].left \in 1..(j - 1) /\ b[j].right \in 1..(j - 1)
        BY <3>1, <3>2
      <4>2. b[j] = Null \/ (b[b[j].left] # Null /\ b[b[j].right] # Null) \/ \E ip : b[j] = Addr(ip)
        BY <3>1 DEF Shape
      <4> QED
        BY <3>2, <4>1, <4>2 DEF Shape
    <3> QED
      BY <3>1, <3>2 DEF Shape
  <2>4. b[j] = f[j] /\ b[l] # Null /\ b[r] # Null => Shape(b, j)
    BY <1>5, <2>1 DEF Shape
  <2> QED
    BY <2>1, <2>2, <2>3, <2>4, PruneCases
<1> QED
  BY <1>4, <1>5

\* Prune leaves nothing exactly when both operands are nothing.
LEMMA PruneNull ==
    ASSUME NEW f, NEW b, Results(f, b), NEW j \in 1..Len(b), IsOper(f[j])
    PROVE  b[j] = Null <=> b[f[j].left] = Null /\ b[f[j].right] = Null
<1>1. Shape(b, f[j].left) /\ Shape(b, f[j].right) /\ b[j] = Prune(b, f[j])
  BY OperandsBefore, ResultsShaped
<1>2. f[j] # Null
  BY DEF IsOper, Null
<1> QED
  BY <1>1, <1>2, PruneCases

\* Where every plain address becomes a node, the nodes that are not empty are those
\* that need one.
LEMMA NeededNodes ==
    ASSUME NEW f, NEW b, Results(f, b), NEW Need, Needing(f, Need),
           \A j \in 1..Len(b) : ~IsOper(f[j]) => (b[j] # Null <=> Plain(f[j]))
    PROVE  \A j \in 1..Len(b) : b[j] # Null <=> j \in Need
<1> DEFINE C == {j \in 1..Len(b) : ~(b[j] # Null <=> j \in Need)}
<1>0. Len(b) \in Nat /\ 1..Len(b) \subseteq DOMAIN f
  BY FilterOrdered DEF Results
<1> SUFFICES ASSUME C # {} PROVE FALSE
  OBVIOUS
<1>a. C \subseteq Nat
  BY <1>0
<1>1. PICK j \in C : \A k \in C : j <= k
  <2> HIDE DEF C
  <2> QED
    BY <1>a, LeastNat
<1>2. j \in 1..Len(b)
  OBVIOUS
<1>3. \A k \in 1..(j - 1) : b[k] # Null <=> k \in Need
  BY <1>0, <1>1, <1>2
<1>4. j \in Need <=> IF IsOper(f[j]) THEN f[j].left \in Need \/ f[j].right \in Need
                     ELSE Plain(f[j])
  BY <1>0, <1>2 DEF Needing
<1>5. CASE ~IsOper(f[j])
  BY <1>2, <1>4, <1>5
<1>6. CASE IsOper(f[j])
  <2>1. f[j].left \in 1..(j - 1) /\ f[j].right \in 1..(j - 1)
    BY <1>2, <1>6, OperandsBefore
  <2>2. b[j] = Null <=> b[f[j].left] = Null /\ b[f[j].right] = Null
    BY <1>2, <1>6, PruneNull
  <2> QED
    BY <1>3, <1>4, <1>6, <2>1, <2>2
<1> QED
  BY <1>5, <1>6

\* A disjunction has two operands that are nothing, or none.
Balanced(f, b) ==
    \A j \in 1..Len(b) :
        f[j].type = "or" => (b[f[j].left] = Null <=> b[f[j].right] = Null)

\* v are the values of all nodes.
Values(nodes, leaf, v) == \A j \in 1..Len(nodes) : v[j] = NodeValue(nodes, leaf, v, j)

\* p are the values of the leaves of a filter for a record, q those of a tree for the
\* addresses stored in an index.
FilterLeaves(f, r, p) == \A j \in 1..Len(f) : p[j] <=> LeafMatches(f[j], r)
TreeLeaves(b, stored, q) ==
    \A j \in 1..Len(b) : q[j] <=> b[j].type = "addr" /\ b[j].addr \in stored

\* Equal nodes of a tree have equal values.
LEMMA SameNodeSameValue ==
    ASSUME NEW b, NEW stored,
           NEW q, TreeLeaves(b, stored, q), NEW w, Values(b, q, w),
           NEW j \in 1..Len(b), NEW k \in 1..Len(b), b[j] = b[k]
    PROVE  w[j] <=> w[k]
<1>1. w[j] = NodeValue(b, q, w, j) /\ w[k] = NodeValue(b, q, w, k)
  BY DEF Values
<1>2. q[j] <=> q[k]
  BY DEF TreeLeaves
<1> QED
  BY <1>1, <1>2 DEF NodeValue

\* In a balanced tree a node that is left stands for what the filter asks of it: the
\* addresses of a record that satisfies the filter node are in the tree node.
LEMMA TreeKeepsMatches ==
    ASSUME NEW f, NEW b, Results(f, b), Balanced(f, b), Len(b) = Len(f),
           NEW r, NEW stored, r.src \in stored, r.dst \in stored,
           NEW p, FilterLeaves(f, r, p), NEW v, Values(f, p, v),
           NEW q, TreeLeaves(b, stored, q), NEW w, Values(b, q, w)
    PROVE  \A j \in 1..Len(b) : b[j] # Null /\ v[j] => w[j]
<1> DEFINE C == {j \in 1..Len(b) : ~(b[j] # Null /\ v[j] => w[j])}
<1>0. Len(b) \in Nat
  BY FilterOrdered DEF Results
<1> SUFFICES ASSUME C # {} PROVE FALSE
  OBVIOUS
<1>a. C \subseteq Nat
  BY <1>0
<1>1. PICK j \in C : \A k \in C : j <= k
  <2> HIDE DEF C
  <2> QED
    BY <1>a, LeastNat
<1>2. j \in 1..Len(b) /\ Result(f, b, j) /\ b[j] # Null /\ v[j] /\ ~w[j]
  BY DEF Results
<1>3. \A k \in 1..(j - 1) : b[k] # Null /\ v[k] => w[k]
  BY <1>0, <1>1, <1>2
<1>4. CASE ~IsOper(f[j])
  <2>1. PICK ip : Plain(f[j]) /\ f[j].net = {ip} /\ b[j] = Addr(ip)
    BY <1>2, <1>4 DEF Result
  <2>2. f[j].field \in {"src", "dst"} /\ f[j].type = "addr" /\ f[j].oper = "eq"
    BY <1>2, <2>1, FilterOrdered DEF Results, IsFilter, Plain
  <2>3. v[j] = p[j] /\ (p[j] <=> LeafMatches(f[j], r))
    BY <1>2, <1>4 DEF NodeValue, IsOper, Values, FilterLeaves
  <2>4. r[f[j].field] = ip
    BY <1>2, <2>1, <2>2, <2>3 DEF LeafMatches
  <2>5. ip \in stored
    BY <2>2, <2>4
  <2>6. b[j].type = "addr" /\ b[j].addr = ip
    BY <2>1 DEF Addr
  <2>7. w[j] = q[j] /\ q[j]
    BY <1>2, <2>5, <2>6 DEF NodeValue, Values, TreeLeaves
  <2> QED
    BY <1>2, <2>7
<1>5. CASE IsOper(f[j])
  <2> DEFINE l == f[j].left
             m == f[j].right
  <2>1. /\ l \in 1..(j - 1) /\ m \in 1..(j - 1) /\ b[j] = Prune(b, f[j])
        /\ l \in 1..Len(b) /\ m \in 1..Len(b)
    BY <1>2, <1>5, OperandsBefore
  <2>2. Shape(b, l) /\ Shape(b, m)
    BY <2>1, ResultsShaped
  <2>3. \A k \in {l, m} : b[j] = b[k] => (w[j] <=> w[k])
    <3> SUFFICES ASSUME NEW k \in {l, m}, b[j] = b[k] PROVE w[j] <=> w[k]
      OBVIOUS
    <3>1. k \in 1..Len(b) /\ j \in 1..Len(b)
      BY <1>2, <2>1
    <3> QED
      BY <3>1, SameNodeSameValue
  <2>6. \/ b[l] = Null /\ b[j] = b[m]
        \/ b[l] # Null /\ b[j] = b[l] /\ (b[m] = Null \/ b[m] = b[l])
        \/ b[l] # Null /\ b[m] # Null /\ b[j] = f[j]
    BY <2>1, <2>2, PruneCases
  <2>4. CASE f[j].type = "and"
    <3>1. v[l] /\ v[m]
      BY <1>2, <2>4 DEF NodeValue, Values
    <3>2. (b[l] # Null => w[l]) /\ (b[m] # Null => w[m])
      BY <1>3, <2>1, <3>1
    <3>3. b[j] = f[j] => (w[j] <=> w[l] /\ w[m])
      BY <1>2, <2>4 DEF NodeValue, Values
    <3>4. CASE b[l] = Null /\ b[j] = b[m]
      BY <1>2, <2>3, <3>2, <3>4
    <3>5. CASE b[l] # Null /\ b[j] = b[l]
      BY <1>2, <2>3, <3>2, <3>5
    <3>6. CASE b[l] # Null /\ b[m] # Null /\ b[j] = f[j]
      BY <1>2, <3>2, <3>3, <3>6
    <3> QED
      BY <2>1, <2>6, <3>4, <3>5, <3>6
  <2>5. CASE f[j].type = "or"
    <3>1. v[l] \/ v[m]
      BY <1>2, <2>5 DEF NodeValue, Values
    <3>2. (b[l] # Null /\ v[l] => w[l]) /\ (b[m] # Null /\ v[m] => w[m])
      BY <1>3, <2>1
    <3>3. b[j] = f[j] => (w[j] <=> w[l] \/ w[m])
      BY <1>2, <2>5 DEF NodeValue, Values
    <3>4. b[l] = Null <=> b[m] = Null
      BY <1>2, <2>5 DEF Balanced
    <3>5. b[l] = b[m] => (w[l] <=> w[m])
      BY <2>1, SameNodeSameValue
    <3>6. CASE b[l] = Null /\ b[j] = b[m]
      BY <1>2, <3>4, <3>6
    <3>7. CASE b[l] # Null /\ b[j] = b[l] /\ b[m] = b[l]
      BY <1>2, <2>3, <3>1, <3>2, <3>5, <3>7
    <3>8. CASE b[l] # Null /\ b[m] # Null /\ b[j] = f[j]
      BY <1>2, <3>1, <3>2, <3>3, <3>8
    <3> QED
      BY <2>6, <3>4, <3>6, <3>7, <3>8
  <2> QED
    BY <1>5, <2>4, <2>5 DEF IsOper
<1> QED
  BY <1>4, <1>5

\* The tree of the last node is in the index of every file with a matching record.
LEMMA MatchesContained ==
    ASSUME NEW f, NEW b, Results(f, b), Balanced(f, b), Len(b) = Len(f), b[Len(b)] # Null,
           NEW file, NEW r \in file, Matches(f, r)
    PROVE  TreeContains(b, Stored(file))
<1> DEFINE stored == Stored(file)
           p == [i \in 1..Len(f) |-> LeafMatches(f[i], r)]
           q == [i \in 1..Len(b) |-> b[i].type = "addr" /\ b[i].addr \in stored]
<1>1. r.src \in stored /\ r.dst \in stored
  BY DEF Stored
<1>2. Len(f) \in Nat /\ Len(f) # 0 /\ Ordered(f)
  BY FilterOrdered DEF Results
<1>3. Ordered(b)
  <2> SUFFICES ASSUME NEW i \in 1..Len(b), IsOper(b[i])
               PROVE  b[i].left \in 1..(i - 1) /\ b[i].right \in 1..(i - 1)
    BY <1>2 DEF Ordered
  <2>1. Shape(b, i)
    BY ResultsShaped
  <2>2. b[i] # Null /\ ~\E ip : b[i] = Addr(ip)
    BY <2>1, ShapeType
  <2> QED
    BY <2>1, <2>2 DEF Shape
<1>4. p \in [1..Len(f) -> BOOLEAN] /\ q \in [1..Len(b) -> BOOLEAN]
  <2>1. \A i \in 1..Len(f) : LeafMatches(f[i], r) \in BOOLEAN
    BY DEF LeafMatches
  <2>2. \A i \in 1..Len(b) : (b[i].type = "addr" /\ b[i].addr \in stored) \in BOOLEAN
    OBVIOUS
  <2> QED
    BY <2>1, <2>2
<1>5. PICK v \in [1..Len(f) -> BOOLEAN] :
         Value(f, p) = v[Len(f)] /\ Values(f, p, v)
  <2> HIDE DEF p
  <2> QED
    BY <1>2, <1>4, ValueMeans DEF Values
<1>6. PICK w \in [1..Len(b) -> BOOLEAN] :
         Value(b, q) = w[Len(b)] /\ Values(b, q, w)
  <2> HIDE DEF q
  <2> QED
    BY <1>2, <1>3, <1>4, ValueMeans DEF Values
<1>7. \A j \in 1..Len(b) : b[j] # Null /\ v[j] => w[j]
  <2>1. FilterLeaves(f, r, p) /\ TreeLeaves(b, stored, q)
    BY DEF FilterLeaves, TreeLeaves
  <2> HIDE DEF p, q, stored
  <2> QED
    BY <1>1, <1>5, <1>6, <2>1, TreeKeepsMatches
<1>8. v[Len(b)] /\ Len(b) \in 1..Len(b)
  <2>1. Value(f, p)
    BY DEF Matches
  <2> HIDE DEF p
  <2> QED
    BY <1>2, <1>5, <2>1
<1>9. w[Len(b)]
  BY <1>7, <1>8
<1> QED
  BY <1>6, <1>9 DEF TreeContains

\* Where every leaf has a node, no operator is without.
LEMMA FullTreeBalanced ==
    ASSUME NEW f, NEW b, Results(f, b),
           \A j \in 1..Len(b) : ~IsOper(f[j]) => b[j] # Null,
           Len(b) = Len(f)
    PROVE  Balanced(f, b)
<1>1. DOMAIN f = 1..Len(b)
  BY FilterOrdered DEF Results
<1>2. \A j \in 1..Len(b) : ~IsOper(f[j]) => Plain(f[j])
  BY DEF Results, Result
<1>3. Needing(f, DOMAIN f)
  <2> SUFFICES ASSUME NEW i \in DOMAIN f
               PROVE  IF IsOper(f[i]) THEN f[i].left \in DOMAIN f \/ f[i].right \in DOMAIN f
                      ELSE Plain(f[i])
    BY DEF Needing
  <2>1. IsOper(f[i]) => f[i].left \in DOMAIN f
    BY <1>1, OperandsBefore
  <2> QED
    BY <1>1, <1>2, <2>1
<1>4. \A j \in 1..Len(b) : b[j] # Null
  BY <1>1, <1>2, <1>3, NeededNodes
<1>5. \A j \in 1..Len(b) : IsOper(f[j]) => f[j].left \in 1..Len(b) /\ f[j].right \in 1..Len(b)
  BY OperandsBefore
<1> QED
  BY <1>4, <1>5 DEF Balanced, IsOper

\* Where a leaf has a node, the root has one.
LEMMA RootFound ==
    ASSUME NEW f, NEW b, Results(f, b), Len(b) = Len(f), NEW i \in 1..Len(b), b[i] # Null
    PROVE  b[Len(b)] # Null
<1> DEFINE n == Len(b)
           C == {m \in Nat : n - m \in 1..n /\ b[n - m] # Null}
<1>0. n \in Nat /\ DOMAIN f = 1..n
  BY FilterOrdered DEF Results
<1>1. n - i \in C
  <2>1. n - i \in Nat /\ n - (n - i) = i
    BY <1>0
  <2> QED
    BY <2>1
<1>2. PICK m \in C : \A k \in C : m <= k
  <2> HIDE DEF C
  <2>1. C \subseteq Nat
    BY DEF C
  <2> QED
    BY <1>1, <2>1, LeastNat
<1>3. CASE m = 0
  BY <1>0, <1>2, <1>3
<1>4. CASE m # 0
  <2>1. n - m \in 1..(Len(f) - 1)
    BY <1>0, <1>2, <1>4
  <2>2. PICK j \in 1..n : IsOper(f[j]) /\ n - m \in {f[j].left, f[j].right}
    BY <1>0, <2>1 DEF Results, IsFilter
  <2>3. n - m \in 1..(j - 1)
    <3>1. f[j].left \in 1..(j - 1) /\ f[j].right \in 1..(j - 1)
      BY <2>2, OperandsBefore
    <3> QED
      BY <2>2, <3>1
  <2>4. b[j] # Null
    BY <1>2, <2>2, PruneNull
  <2>5. n - j \in Nat /\ n - (n - j) = j /\ n - j < m
    BY <1>0, <1>2, <2>2, <2>3
  <2>6. n - j \in C
    BY <2>2, <2>4, <2>5
  <2> QED
    BY <1>2, <2>5, <2>6
<1> QED
  BY <1>3, <1>4

\* One more result.
LEMMA OneMoreResult ==
    ASSUME NEW f, NEW b, NEW S, b \in Seq(S), Results(f, b), Len(b) < Len(f), NEW e,
           IF IsOper(f[Len(b) + 1]) THEN e = Prune(b, f[Len(b) + 1])
           ELSE e = Null \/ (/\ Plain(f[Len(b) + 1])
                            /\ \E ip : f[Len(b) + 1].net = {ip} /\ e = Addr(ip))
    PROVE  /\ Append(b, e) \in Seq(S \cup {e})
           /\ Len(Append(b, e)) = Len(b) + 1
           /\ \A j \in 1..Len(b) : Append(b, e)[j] = b[j]
           /\ Append(b, e)[Len(b) + 1] = e
           /\ Results(f, Append(b, e))
<1> DEFINE n == Len(b)
           c == Append(b, e)
<1>1. b \in Seq(S \cup {e}) /\ n \in Nat
  BY LenProperties
<1>2. /\ c \in Seq(S \cup {e}) /\ Len(c) = n + 1
      /\ \A j \in 1..n : c[j] = b[j]
      /\ c[n + 1] = e
  BY <1>1, AppendProperties
<1> HIDE DEF c
<1>3. ASSUME NEW j \in 1..(n + 1) PROVE Result(f, c, j)
  <2>1. CASE ~IsOper(f[j])
    <3>1. CASE j = n + 1
      BY <1>2, <2>1, <3>1 DEF Result
    <3>2. CASE j # n + 1
      <4>1. j \in 1..n
        BY <1>1, <3>2
      <4> QED
        BY <1>2, <2>1, <4>1 DEF Result, Results
    <3> QED
      BY <3>1, <3>2
  <2>2. CASE IsOper(f[j])
    <3>1. f[j].left \in 1..(j - 1) /\ f[j].right \in 1..(j - 1)
      BY <1>1, <2>2, FilterOrdered DEF Results, Ordered
    <3>2. f[j].left \in 1..n /\ f[j].right \in 1..n
      BY <1>1, <3>1
    <3>3. Prune(c, f[j]) = Prune(b, f[j])
      BY <1>2, <3>2 DEF Prune
    <3>4. CASE j = n + 1
      BY <1>2, <2>2, <3>3, <3>4 DEF Result
    <3>5. CASE j # n + 1
      <4>1. j \in 1..n
        BY <1>1, <3>5
      <4> QED
        BY <1>2, <2>2, <3>3, <4>1 DEF Result, Results
    <3> QED
      BY <3>4, <3>5
  <2> QED
    BY <2>1, <2>2
<1>4. n + 1 \in 0..Len(f)
  BY <1>1, FilterOrdered DEF Results
<1>5. Results(f, c)
  BY <1>2, <1>3, <1>4 DEF Results
<1> QED
  BY <1>2, <1>5 DEF c

----------------------------------------------------------------------------
(* The invariant.                                                          *)

\* Nothing resets the error code.
NothingOther(f) == \A i \in DOMAIN f : f[i].type # "other"

\* The addresses among the nodes a thread has visited.
Seen(f, n) == {i \in Addresses(f) : i <= n}
Counts == [t \in Threads |-> Cardinality(Seen(filter, Len(built[t])))]
Counted == SumOver(Counts, Threads)

\* Where threads are, and what they have built so far.
TreeInv(t) ==
    /\ pc[t] \in {"build", "store", "files"}
    /\ \E S : built[t] \in Seq(S)
    /\ Results(filter, built[t])
    /\ pc[t] = "store" => More(t) /\ Node(t).type = "addr" /\ Node(t).oper = "eq"
    /\ pc[t] = "files" => Len(built[t]) = Len(filter)

\* An operand is lost only if that is recorded, or not at all.
LostInv(t) ==
    /\ (NothingOther(filter) /\ \E j \in 1..Len(built[t]) : ~IsOper(filter[j]) /\ built[t][j] = Null)
          => global_ecode # "ok"
    /\ WithinLimit(filter) =>
          \A j \in 1..Len(built[t]) : Plain(filter[j]) => built[t][j] # Null

\* The tree in use, and the file skipped.
UseInv(t) ==
    /\ bfindex_root[t] # NoTree =>
          /\ pc[t] = "files"
          /\ bfindex_root[t] = built[t]
          /\ built[t][Len(built[t])] # Null
          /\ NothingOther(filter) =>
                \A j \in 1..Len(built[t]) : ~IsOper(filter[j]) => built[t][j] # Null
    /\ skipped[t] # NoFile =>
          bfindex_root[t] # NoTree /\ ~TreeContains(bfindex_root[t], Stored(skipped[t]))

\* Lost increments only make the count smaller.
CountInv ==
    /\ ip_cnt \in Nat /\ loaded \in [Threads -> Nat]
    /\ ip_cnt <= Counted
    /\ \A t \in Threads : pc[t] = "store" => loaded[t] <= Counted

\* The condition of IndexInUse.
Usable(f) ==
    /\ \A i \in Addresses(f) : Plain(f[i])
    /\ Addresses(f) # {}
    /\ WithinLimit(f)

UsableInv ==
    Usable(filter) =>
        /\ global_ecode = "ok"
        /\ \A t \in Threads : pc[t] = "files" => bfindex_root[t] # NoTree

BfInv ==
    /\ filter \in Filters
    /\ pc \in [Threads -> {"build", "store", "files"}]
    /\ DOMAIN built = Threads /\ DOMAIN bfindex_root = Threads /\ DOMAIN skipped = Threads
    /\ \A t \in Threads : TreeInv(t) /\ LostInv(t) /\ UseInv(t)
    /\ CountInv
    /\ UsableInv

\* The checked properties follow.
LEMMA NoMatchSkippedFollows ==
    ASSUME BfInv, Indexable(filter)
    PROVE  NoMatchSkipped
<1> SUFFICES ASSUME NEW t \in Threads, skipped[t] # NoFile, NEW r \in skipped[t],
                    Matches(filter, r)
             PROVE  FALSE
  BY DEF NoMatchSkipped
<1> DEFINE b == built[t]
<1>1. TreeInv(t) /\ LostInv(t) /\ UseInv(t)
  BY DEF BfInv
<1>2. /\ bfindex_root[t] = b /\ b[Len(b)] # Null /\ Len(b) = Len(filter)
      /\ Results(filter, b)
      /\ ~TreeContains(b, Stored(skipped[t]))
  BY <1>1 DEF TreeInv, UseInv
<1>3. Balanced(filter, b)
  <2>1. CASE NothingOther(filter)
    <3>1. \A j \in 1..Len(b) : ~IsOper(filter[j]) => b[j] # Null
      BY <1>1, <2>1 DEF UseInv
    <3> QED
      BY <1>2, <3>1, FullTreeBalanced
  <2>2. CASE ~NothingOther(filter)
    <3>1. WithinLimit(filter)
      BY <2>2 DEF Indexable, NothingOther
    <3>2. PICK Need \in SUBSET DOMAIN filter :
             /\ Needing(filter, Need)
             /\ \A i \in DOMAIN filter : filter[i].type = "or" =>
                   (filter[i].left \in Need <=> filter[i].right \in Need)
      BY <2>2 DEF Indexable, NothingOther
    <3>3. \A j \in 1..Len(b) : ~IsOper(filter[j]) => (b[j] # Null <=> Plain(filter[j]))
      BY <1>1, <1>2, <3>1 DEF LostInv, Results, Result
    <3>4. \A j \in 1..Len(b) : b[j] # Null <=> j \in Need
      BY <1>2, <3>2, <3>3, NeededNodes
    <3>5. DOMAIN filter = 1..Len(b)
      BY <1>2, FilterOrdered DEF Results
    <3>6. \A j \in 1..Len(b) : IsOper(filter[j]) =>
             filter[j].left \in 1..Len(b) /\ filter[j].right \in 1..Len(b)
      BY <1>2, OperandsBefore
    <3> QED
      BY <3>2, <3>4, <3>5, <3>6 DEF Balanced, IsOper
  <2> QED
    BY <2>1, <2>2
<1>4. TreeContains(b, Stored(skipped[t]))
  BY <1>2, <1>3, MatchesContained
<1> QED
  BY <1>2, <1>4

\* An index that can be used is.
LEMMA IndexInUseFollows == ASSUME BfInv PROVE IndexInUse
  BY DEF BfInv, UsableInv, Usable, IndexInUse

----------------------------------------------------------------------------
(* The count of addresses.                                                 *)

\* The visited addresses are finitely many, and one more when one more is visited.
LEMMA SeenCount ==
    ASSUME NEW f, IsFilter(f), NEW n \in 0..Len(f)
    PROVE  /\ IsFiniteSet(Addresses(f)) /\ Cardinality(Addresses(f)) \in Nat
           /\ Cardinality(Seen(f, n)) \in Nat
           /\ Cardinality(Seen(f, n)) <= Cardinality(Addresses(f))
           /\ n < Len(f) =>
                 Cardinality(Seen(f, n + 1)) =
                    Cardinality(Seen(f, n)) + (IF f[n + 1].type = "addr" THEN 1 ELSE 0)
<1>1. Len(f) \in Nat /\ DOMAIN f = 1..Len(f)
  BY FilterOrdered
<1>2. IsFiniteSet(1..Len(f)) /\ Addresses(f) \subseteq 1..Len(f)
  BY <1>1, FS_Interval DEF Addresses
<1>3. IsFiniteSet(Addresses(f))
  BY <1>2, FS_Subset
<1>4. Seen(f, n) \subseteq Addresses(f)
  BY DEF Seen
<1>5. IsFiniteSet(Seen(f, n)) /\ Cardinality(Seen(f, n)) <= Cardinality(Addresses(f))
  BY <1>3, <1>4, FS_Subset
<1>6. Cardinality(Seen(f, n)) \in Nat /\ Cardinality(Addresses(f)) \in Nat
  BY <1>3, <1>5, FS_CardinalityType
<1>7. ASSUME n < Len(f)
      PROVE  Cardinality(Seen(f, n + 1)) =
                Cardinality(Seen(f, n)) + (IF f[n + 1].type = "addr" THEN 1 ELSE 0)
  <2>1. CASE f[n + 1].type = "addr"
    <3>1. n + 1 \in Addresses(f) /\ n + 1 \notin Seen(f, n)
      BY <1>1, <1>7, <2>1 DEF Addresses, Seen
    <3>2. Seen(f, n + 1) = Seen(f, n) \cup {n + 1}
      BY <1>1, <1>2, <3>1 DEF Seen
    <3> QED
      BY <1>5, <2>1, <3>1, <3>2, FS_AddElement
  <2>2. CASE f[n + 1].type # "addr"
    <3>1. Seen(f, n + 1) = Seen(f, n)
      BY <1>1, <1>2, <2>2 DEF Seen, Addresses
    <3> QED
      BY <1>6, <2>2, <3>1
  <2> QED
    BY <2>1, <2>2
<1> QED
  BY <1>3, <1>5, <1>6, <1>7

\* A thread that is about to store the count has one address left to see: the count
\* stays within the limit.
LEMMA CountWithinLimit ==
    ASSUME BfInv, WithinLimit(filter), NEW t \in Threads, pc[t] = "store"
    PROVE  ~Limited(t)
<1> DEFINE c == Counts
           N == Cardinality(Addresses(filter))
           n == Len(built[t])
           g == [u \in Threads |-> IF u = t THEN c[u] + 1 ELSE c[u]]
<1>1. IsFiniteSet(Threads) /\ IsFilter(filter) /\ Cardinality(Threads) \in Nat /\ MaxIps \in Nat
  BY BfAssumption, FS_CardinalityType DEF BfInv
<1>2. \A u \in Threads : Len(built[u]) \in 0..Len(filter) /\ TreeInv(u)
  BY DEF BfInv, TreeInv, Results
<1>3. N \in Nat /\ \A u \in Threads : c[u] \in Nat /\ c[u] <= N
  BY <1>1, <1>2, SeenCount DEF Counts
<1>4. n < Len(filter) /\ filter[n + 1].type = "addr"
  BY <1>2 DEF TreeInv, More, Node
<1>5. c[t] + 1 <= N
  <2>1. Cardinality(Seen(filter, n + 1)) = c[t] + 1
    BY <1>1, <1>2, <1>4, SeenCount DEF Counts
  <2>2. n + 1 \in 0..Len(filter)
    BY <1>1, <1>2, <1>4, FilterOrdered
  <2> QED
    BY <1>1, <2>1, <2>2, SeenCount
<1>6. \A u \in Threads : g[u] \in Int /\ g[u] <= N
  BY <1>3, <1>5
<1>7. g[t] = c[t] + 1 /\ \A u \in Threads : c[u] \in Int /\ (u # t => g[u] = c[u])
  BY <1>3
<1> HIDE DEF g, c, N
<1>8. SumOver(g, Threads) - SumOver(c, Threads) = g[t] - c[t]
  BY <1>1, <1>6, <1>7, SumUpdate
<1>9. SumOver(g, Threads) <= Cardinality(Threads) * N
  BY <1>1, <1>3, <1>6, SumBound
<1>10. SumOver(g, Threads) \in Int /\ SumOver(c, Threads) \in Int
  BY <1>1, <1>6, <1>7, SumType
<1>11. loaded[t] \in Nat /\ loaded[t] <= SumOver(c, Threads)
  BY DEF BfInv, CountInv, Counted, c
<1>12. Cardinality(Threads) * N <= MaxIps /\ Cardinality(Threads) * N \in Int
  BY <1>1, <1>3 DEF WithinLimit, N
<1>13. SumOver(g, Threads) = SumOver(c, Threads) + 1
  BY <1>3, <1>7, <1>8, <1>10
<1> QED
  BY <1>1, <1>9, <1>10, <1>11, <1>12, <1>13 DEF Limited

\* One more result of thread t, and what it does to the count.
LEMMA ReturnStep ==
    ASSUME BfInv, NEW t \in Threads, NEW e, filter' = filter, Return(t, e), More(t),
           IF IsOper(Node(t)) THEN e = Prune(built[t], Node(t))
           ELSE e = Null \/ (Plain(Node(t)) /\ \E ip : Node(t).net = {ip} /\ e = Addr(ip))
    PROVE  /\ DOMAIN built' = Threads
           /\ \A u \in Threads \ {t} : built'[u] = built[u]
           /\ \E S : built'[t] \in Seq(S)
           /\ Len(built[t]) \in Nat /\ Len(built'[t]) = Len(built[t]) + 1
           /\ \A j \in 1..Len(built[t]) : built'[t][j] = built[t][j]
           /\ built'[t][Len(built[t]) + 1] = e
           /\ Results(filter', built'[t])
           /\ Counted \in Int
           /\ Counted' = Counted + (IF Node(t).type = "addr" THEN 1 ELSE 0)
<1> DEFINE n == Len(built[t])
<1>0. /\ TreeInv(t) /\ IsFilter(filter) /\ DOMAIN built = Threads /\ IsFiniteSet(Threads)
      /\ \A u \in Threads : Len(built[u]) \in 0..Len(filter)
  BY BfAssumption DEF BfInv, TreeInv, Results
<1>1. /\ DOMAIN built' = Threads
      /\ \A u \in Threads \ {t} : built'[u] = built[u]
      /\ built'[t] = Append(built[t], e)
  BY <1>0 DEF Return
<1>2. PICK S : built[t] \in Seq(S)
  BY <1>0 DEF TreeInv
<1>3. Results(filter, built[t]) /\ n < Len(filter) /\ n \in Nat
  BY <1>0, <1>2, LenProperties DEF TreeInv, More
<1>4. /\ built'[t] \in Seq(S \cup {e})
      /\ Len(built'[t]) = n + 1
      /\ \A j \in 1..n : built'[t][j] = built[t][j]
      /\ built'[t][n + 1] = e
      /\ Results(filter, built'[t])
  <2>1. IF IsOper(filter[n + 1]) THEN e = Prune(built[t], filter[n + 1])
        ELSE e = Null \/ (Plain(filter[n + 1]) /\ \E ip : filter[n + 1].net = {ip} /\ e = Addr(ip))
    BY DEF Node
  <2>2. /\ Append(built[t], e) \in Seq(S \cup {e})
        /\ Len(Append(built[t], e)) = n + 1
        /\ \A j \in 1..n : Append(built[t], e)[j] = built[t][j]
        /\ Append(built[t], e)[n + 1] = e
        /\ Results(filter, Append(built[t], e))
    BY <1>2, <1>3, <2>1, OneMoreResult
  <2> QED
    BY <1>1, <2>2
<1>5. /\ \A u \in Threads : Counts[u] \in Int
      /\ \A u \in Threads \ {t} : Counts'[u] = Counts[u]
      /\ Counts'[t] = Counts[t] + (IF Node(t).type = "addr" THEN 1 ELSE 0)
  <2>1. \A u \in Threads : Counts[u] \in Int
    BY <1>0, SeenCount DEF Counts
  <2>2. \A u \in Threads \ {t} : Counts'[u] = Counts[u]
    BY <1>1 DEF Counts
  <2>3. Counts'[t] = Cardinality(Seen(filter, n + 1))
    BY <1>4 DEF Counts
  <2>4. Cardinality(Seen(filter, n + 1)) = Counts[t] + (IF filter[n + 1].type = "addr" THEN 1 ELSE 0)
    BY <1>0, <1>3, SeenCount DEF Counts
  <2> QED
    BY <2>1, <2>2, <2>3, <2>4 DEF Node
<1>6. Counted \in Int /\ Counted' \in Int /\ Counted' - Counted = Counts'[t] - Counts[t]
  <2>1. \A u \in Threads :
           Counts[u] \in Int /\ Counts'[u] \in Int /\ (u # t => Counts'[u] = Counts[u])
    BY <1>5
  <2>2. PICK c, d : c = Counts /\ d = Counts'
    OBVIOUS
  <2>3. \A u \in Threads : c[u] \in Int /\ d[u] \in Int /\ (u # t => d[u] = c[u])
    BY <2>1, <2>2
  <2>4. SumOver(c, Threads) \in Int /\ SumOver(d, Threads) \in Int
    BY <1>0, <2>3, SumType
  <2>5. SumOver(d, Threads) - SumOver(c, Threads) = d[t] - c[t]
    BY <1>0, <2>3, SumUpdate
  <2> QED
    BY <2>2, <2>4, <2>5 DEF Counted
<1>7. Counted' = Counted + (IF Node(t).type = "addr" THEN 1 ELSE 0)
  BY <1>5, <1>6
<1> QED
  BY <1>1, <1>4, <1>3, <1>6, <1>7

\* What has to be shown of a step that returns a result: nothing of the other threads,
\* and of this one only what became of its operand.
LEMMA ReturnKeeps ==
    ASSUME BfInv, NEW t \in Threads, NEW e, Return(t, e), More(t), pc[t] \in {"build", "store"},
           IF IsOper(Node(t)) THEN e = Prune(built[t], Node(t))
           ELSE e = Null \/ (Plain(Node(t)) /\ \E ip : Node(t).net = {ip} /\ e = Addr(ip)),
           pc' = [pc EXCEPT ![t] = "build"],
           UNCHANGED <<filter, loaded, bfindex_root, skipped>>,
           NothingOther(filter) /\ (global_ecode # "ok" \/ (~IsOper(Node(t)) /\ e = Null))
              => global_ecode' # "ok",
           WithinLimit(filter) /\ Plain(Node(t)) => e # Null,
           ip_cnt' \in Nat, ip_cnt' <= Counted',
           Usable(filter) => global_ecode' = "ok"
    PROVE  BfInv'
<1> DEFINE n == Len(built[t])
<1>0. /\ DOMAIN built' = Threads
      /\ \A u \in Threads \ {t} : built'[u] = built[u]
      /\ \E S : built'[t] \in Seq(S)
      /\ n \in Nat /\ Len(built'[t]) = n + 1
      /\ \A j \in 1..n : built'[t][j] = built[t][j]
      /\ built'[t][n + 1] = e
      /\ Results(filter', built'[t])
      /\ Counted \in Int
      /\ Counted' = Counted + (IF Node(t).type = "addr" THEN 1 ELSE 0)
  <2>1. filter' = filter
    OBVIOUS
  <2> QED
    BY <2>1, ReturnStep
<1>1. Node(t) = filter[n + 1]
  BY DEF Node
<1>2. pc' \in [Threads -> {"build", "store", "files"}] /\ filter' \in Filters
      /\ DOMAIN bfindex_root' = Threads /\ DOMAIN skipped' = Threads
      /\ pc'[t] = "build" /\ \A u \in Threads \ {t} : pc'[u] = pc[u]
  BY DEF BfInv
<1>3. ASSUME NEW u \in Threads PROVE TreeInv(u)'
  <2>1. CASE u = t
    BY <1>0, <1>2, <2>1 DEF TreeInv
  <2>2. CASE u # t
    <3>1. TreeInv(u) /\ built'[u] = built[u] /\ pc'[u] = pc[u] /\ filter' = filter
      BY <1>0, <1>2, <2>2 DEF BfInv
    <3> QED
      BY <3>1 DEF TreeInv, More, Node
  <2> QED
    BY <2>1, <2>2
<1>4. ASSUME NEW u \in Threads PROVE LostInv(u)'
  <2>0. LostInv(u) /\ filter' = filter
    BY DEF BfInv
  <2>1. CASE u = t
    <3>1. \A j \in 1..(n + 1) : j \in 1..n \/ j = n + 1
      BY <1>0
    <3>2. ASSUME NothingOther(filter), NEW j \in 1..(n + 1), ~IsOper(filter[j]), built'[t][j] = Null
          PROVE  global_ecode' # "ok"
      <4>1. CASE j \in 1..n
        BY <1>0, <2>0, <2>1, <3>2, <4>1 DEF LostInv
      <4>2. CASE j = n + 1
        BY <1>0, <1>1, <3>2, <4>2
      <4> QED
        BY <3>1, <4>1, <4>2
    <3>3. ASSUME WithinLimit(filter), NEW j \in 1..(n + 1), Plain(filter[j])
          PROVE  built'[t][j] # Null
      <4>1. CASE j \in 1..n
        BY <1>0, <2>0, <2>1, <3>3, <4>1 DEF LostInv
      <4>2. CASE j = n + 1
        BY <1>0, <1>1, <3>3, <4>2
      <4> QED
        BY <3>1, <4>1, <4>2
    <3>4. WithinLimit(filter') <=> WithinLimit(filter)
      BY <2>0
    <3> QED
      BY <1>0, <2>0, <2>1, <3>2, <3>3, <3>4 DEF LostInv
  <2>2. CASE u # t
    <3>1. built'[u] = built[u]
      BY <1>0, <2>2
    <3>2. NothingOther(filter) /\ global_ecode # "ok" => global_ecode' # "ok"
      OBVIOUS
    <3> QED
      BY <2>0, <3>1, <3>2 DEF LostInv
  <2> QED
    BY <2>1, <2>2
<1>5. ASSUME NEW u \in Threads PROVE UseInv(u)'
  <2>0. UseInv(u) /\ filter' = filter /\ bfindex_root' = bfindex_root /\ skipped' = skipped
    BY DEF BfInv
  <2>1. CASE u = t
    <3>1. bfindex_root[t] = NoTree
      BY <2>0, <2>1 DEF UseInv
    <3> QED
      BY <2>0, <2>1, <3>1 DEF UseInv
  <2>2. CASE u # t
    <3>1. built'[u] = built[u] /\ pc'[u] = pc[u]
      BY <1>0, <1>2, <2>2
    <3> QED
      BY <2>0, <3>1 DEF UseInv
  <2> QED
    BY <2>1, <2>2
<1>6. CountInv'
  <2>1. CountInv /\ loaded' = loaded /\ Counted \in Int /\ Counted' \in Int /\ Counted <= Counted'
    BY <1>0 DEF BfInv
  <2>2. ASSUME NEW u \in Threads, pc'[u] = "store" PROVE loaded[u] <= Counted'
    <3>1. pc[u] = "store"
      BY <1>2, <2>2
    <3>2. loaded[u] \in Nat /\ loaded[u] <= Counted
      BY <2>1, <3>1 DEF CountInv
    <3> QED
      BY <2>1, <3>2
  <2> QED
    BY <2>1, <2>2 DEF CountInv
<1>7. UsableInv'
  <2>1. /\ UsableInv /\ filter' = filter /\ bfindex_root' = bfindex_root
        /\ \A u \in Threads : pc'[u] = "files" => pc[u] = "files"
    BY <1>2 DEF BfInv
  <2> QED
    BY <2>1 DEF UsableInv
<1> QED
  BY <1>0, <1>2, <1>3, <1>4, <1>5, <1>6, <1>7 DEF BfInv

----------------------------------------------------------------------------
(* The steps.                                                              *)

\* A sum of counts is a count.
LEMMA CountedType == ASSUME BfInv PROVE Counted \in Int
<1>1. /\ IsFiniteSet(Threads) /\ IsFilter(filter)
      /\ \A u \in Threads : Len(built[u]) \in 0..Len(filter)
  BY BfAssumption DEF BfInv, TreeInv, Results
<1>2. \A u \in Threads : Counts[u] \in Int
  BY <1>1, SeenCount DEF Counts
<1>3. PICK c : c = Counts
  OBVIOUS
<1> QED
  BY <1>1, <1>2, <1>3, SumType DEF Counted

\* The count before a result is not more than after it.
LEMMA CountGrows ==
    ASSUME BfInv, ip_cnt' = ip_cnt, Counted' \in Int, Counted <= Counted'
    PROVE  ip_cnt' \in Nat /\ ip_cnt' <= Counted'
<1>1. Counted \in Int /\ ip_cnt \in Nat /\ ip_cnt <= Counted
  BY CountedType DEF BfInv, CountInv
<1> QED
  BY <1>1

\* Before anything is built the count is zero and nothing is recorded.
LEMMA BfInit == Init => BfInv
<1> SUFFICES ASSUME Init PROVE BfInv
  OBVIOUS
<1>0. IsFilter(filter) /\ IsFiniteSet(Threads)
  BY BfAssumption DEF Init
<1>1. \A t \in Threads : built[t] = <<>> /\ pc[t] = "build" /\ bfindex_root[t] = NoTree /\ skipped[t] = NoFile
  BY DEF Init
<1>2. <<>> \in Seq({}) /\ Len(<<>>) = 0
  BY EmptySeq
<1>3. Results(filter, <<>>)
  BY <1>0, <1>2, FilterOrdered DEF Results
<1>4. ASSUME NEW t \in Threads PROVE TreeInv(t) /\ LostInv(t) /\ UseInv(t)
  <2>1. \E S : built[t] \in Seq(S)
    BY <1>1, <1>2
  <2>2. Len(built[t]) = 0 /\ 1..Len(built[t]) = {}
    BY <1>1, <1>2
  <2>3. TreeInv(t)
    BY <1>1, <1>3, <2>1 DEF TreeInv
  <2>4. LostInv(t)
    BY <2>2 DEF LostInv
  <2>5. UseInv(t)
    BY <1>1 DEF UseInv
  <2> QED
    BY <2>3, <2>4, <2>5
<1>5. CountInv
  <2>1. \A t \in Threads : Counts[t] \in Nat
    <3>1. Len(filter) \in Nat
      BY <1>0, FilterOrdered
    <3> QED
      BY <1>0, <1>1, <1>2, <3>1, SeenCount DEF Counts
  <2>2. PICK c : c = Counts
    OBVIOUS
  <2>3. SumOver(c, Threads) \in Nat
    BY <1>0, <2>1, <2>2, SumNat
  <2> QED
    BY <1>1, <2>2, <2>3 DEF Init, CountInv, Counted
<1>6. UsableInv
  BY <1>1 DEF Init, UsableInv
<1> QED
  BY <1>4, <1>5, <1>6 DEF Init, BfInv

\* No error is raised for the plain addresses of a filter that is usable.
LEMMA UsableNoError ==
    ASSUME BfInv, Usable(filter), NEW t \in Threads, More(t), Node(t).type = "addr"
    PROVE  Plain(Node(t)) /\ global_ecode = "ok"
<1>1. Len(built[t]) + 1 \in DOMAIN filter
  BY FilterOrdered DEF BfInv, TreeInv, Results, More
<1> QED
  BY <1>1 DEF Usable, Addresses, Node, BfInv, UsableInv

\* SkipNode: the error code is reset, so there is another node than NothingOther allows.
LEMMA SkipNodeStep == ASSUME BfInv, NEW t \in Threads, SkipNode(t) PROVE BfInv'
<1>1. /\ Return(t, Null) /\ More(t) /\ pc[t] = "build" /\ pc' = pc /\ ip_cnt' = ip_cnt
      /\ Node(t).type = "other" /\ global_ecode' = "ok" /\ filter' = filter
      /\ UNCHANGED <<filter, loaded, bfindex_root, skipped>>
  BY DEF SkipNode
<1>2. ~IsOper(Node(t)) /\ ~Plain(Node(t)) /\ Node(t).type # "addr"
  BY <1>1 DEF IsOper, Plain
<1>3. Counted' = Counted /\ Counted \in Int
  BY <1>1, <1>2, ReturnStep
<1>4. ~NothingOther(filter)
  <2>1. Len(built[t]) + 1 \in DOMAIN filter
    BY <1>1, FilterOrdered DEF BfInv, TreeInv, Results, More
  <2> QED
    BY <1>1, <2>1 DEF NothingOther, Node
<1>5. ip_cnt' \in Nat /\ ip_cnt' <= Counted'
  BY <1>1, <1>3, CountGrows
<1>6. pc' = [pc EXCEPT ![t] = "build"]
  BY <1>1 DEF BfInv
<1>7. NothingOther(filter) /\ (global_ecode # "ok" \/ (~IsOper(Node(t)) /\ Null = Null))
         => global_ecode' # "ok"
  BY <1>4
<1> QED
  BY <1>1, <1>2, <1>5, <1>6, <1>7, ReturnKeeps

\* OperNode: an operator is pruned, and no address is seen.
LEMMA OperNodeStep == ASSUME BfInv, NEW t \in Threads, OperNode(t) PROVE BfInv'
<1> DEFINE e == Prune(built[t], Node(t))
<1>1. /\ Return(t, e) /\ More(t) /\ pc[t] = "build" /\ pc' = pc /\ ip_cnt' = ip_cnt
      /\ IsOper(Node(t)) /\ global_ecode' = global_ecode /\ filter' = filter
      /\ UNCHANGED <<filter, loaded, bfindex_root, skipped>>
  BY DEF OperNode
<1>2. ~Plain(Node(t)) /\ Node(t).type # "addr"
  BY <1>1 DEF IsOper, Plain
<1> HIDE DEF e
<1>a. IsOper(Node(t)) => e = Prune(built[t], Node(t))
  BY DEF e
<1>3. Counted' = Counted /\ Counted \in Int
  BY <1>1, <1>a, <1>2, ReturnStep
<1>5. ip_cnt' \in Nat /\ ip_cnt' <= Counted'
  BY <1>1, <1>3, CountGrows
<1>6. pc' = [pc EXCEPT ![t] = "build"]
  BY <1>1 DEF BfInv
<1>7. Usable(filter) => global_ecode' = "ok"
  BY <1>1 DEF BfInv, UsableInv
<1> QED
  BY <1>1, <1>2, <1>a, <1>5, <1>6, <1>7, ReturnKeeps

\* NotEqual: the operand lost is recorded, and the address counts as seen.
LEMMA NotEqualStep == ASSUME BfInv, NEW t \in Threads, NotEqual(t) PROVE BfInv'
<1>1. /\ Return(t, Null) /\ More(t) /\ pc[t] = "build" /\ pc' = pc /\ ip_cnt' = ip_cnt
      /\ Node(t).type = "addr" /\ Node(t).oper # "eq" /\ global_ecode' = "no_eq" /\ filter' = filter
      /\ UNCHANGED <<filter, loaded, bfindex_root, skipped>>
  BY DEF NotEqual, Raise
<1>2. ~Plain(Node(t)) /\ ~IsOper(Node(t))
  BY <1>1 DEF IsOper, Plain
<1>3. Counted' = Counted + 1 /\ Counted \in Int
  BY <1>1, <1>2, ReturnStep
<1>5. ip_cnt' \in Nat /\ ip_cnt' <= Counted'
  BY <1>1, <1>3, CountGrows
<1>6. pc' = [pc EXCEPT ![t] = "build"]
  BY <1>1 DEF BfInv
<1>7. ~Usable(filter)
  BY <1>1, <1>2, UsableNoError
<1> QED
  BY <1>1, <1>2, <1>5, <1>6, <1>7, ReturnKeeps

\* LoadCount: the value loaded is not more than the addresses seen.
LEMMA LoadCountStep == ASSUME BfInv, NEW t \in Threads, LoadCount(t) PROVE BfInv'
<1>1. /\ More(t) /\ pc[t] = "build" /\ Node(t).type = "addr" /\ Node(t).oper = "eq"
      /\ pc' = [pc EXCEPT ![t] = "store"] /\ loaded' = [loaded EXCEPT ![t] = ip_cnt]
      /\ filter' = filter /\ built' = built /\ ip_cnt' = ip_cnt /\ global_ecode' = global_ecode
      /\ bfindex_root' = bfindex_root /\ skipped' = skipped
  BY DEF LoadCount, GoTo
<1>2. /\ pc' \in [Threads -> {"build", "store", "files"}]
      /\ pc'[t] = "store" /\ \A u \in Threads \ {t} : pc'[u] = pc[u]
  BY <1>1 DEF BfInv
<1>3. ASSUME NEW u \in Threads PROVE TreeInv(u)' /\ LostInv(u)' /\ UseInv(u)'
  <2>0. TreeInv(u) /\ LostInv(u) /\ UseInv(u)
    BY DEF BfInv
  <2>1. TreeInv(u)'
    BY <1>1, <1>2, <2>0 DEF TreeInv, More, Node
  <2>2. LostInv(u)'
    BY <1>1, <2>0 DEF LostInv
  <2>3. UseInv(u)'
    BY <1>1, <1>2, <2>0 DEF UseInv
  <2> QED
    BY <2>1, <2>2, <2>3
<1>4. CountInv'
  <2>1. CountInv /\ Counted' = Counted
    BY <1>1 DEF BfInv, Counted, Counts
  <2>2. loaded' \in [Threads -> Nat]
    BY <1>1, <2>1 DEF CountInv
  <2>3. ASSUME NEW u \in Threads, pc'[u] = "store" PROVE loaded'[u] <= Counted'
    BY <1>1, <1>2, <2>1, <2>3 DEF CountInv
  <2> QED
    BY <1>1, <2>1, <2>2, <2>3 DEF CountInv
<1>5. UsableInv'
  BY <1>1, <1>2 DEF BfInv, UsableInv
<1> QED
  BY <1>1, <1>2, <1>3, <1>4, <1>5 DEF BfInv

\* AddrNode: the count stored is at most that of the addresses seen, this one included.
LEMMA AddrNodeStep == ASSUME BfInv, NEW t \in Threads, AddrNode(t) PROVE BfInv'
<1>1. /\ pc[t] = "store" /\ ip_cnt' = loaded[t] + 1 /\ pc' = [pc EXCEPT ![t] = "build"]
      /\ filter' = filter /\ UNCHANGED <<filter, loaded, bfindex_root, skipped>>
  BY DEF AddrNode, GoTo
<1>2. More(t) /\ Node(t).type = "addr" /\ Node(t).oper = "eq" /\ ~IsOper(Node(t))
  BY <1>1 DEF BfInv, TreeInv, IsOper
<1>3. \A e : Return(t, e) /\ (e = Null \/ (Plain(Node(t)) /\ \E ip : Node(t).net = {ip} /\ e = Addr(ip)))
             => ip_cnt' \in Nat /\ ip_cnt' <= Counted'
  <2> SUFFICES ASSUME NEW e, Return(t, e),
                      e = Null \/ (Plain(Node(t)) /\ \E ip : Node(t).net = {ip} /\ e = Addr(ip))
               PROVE  ip_cnt' \in Nat /\ ip_cnt' <= Counted'
    OBVIOUS
  <2>1. Counted' = Counted + 1 /\ Counted \in Int
    BY <1>1, <1>2, ReturnStep
  <2>2. loaded[t] \in Nat /\ loaded[t] <= Counted
    BY <1>1 DEF BfInv, CountInv
  <2> QED
    BY <1>1, <2>1, <2>2
<1>4. WithinLimit(filter) => ~Limited(t)
  BY <1>1, CountWithinLimit
<1>5. Usable(filter) => WithinLimit(filter) /\ Plain(Node(t)) /\ global_ecode = "ok"
  BY <1>2, UsableNoError DEF Usable
<1>6. ASSUME NEW code, code # "ok", Raise(t, code), Limited(t) \/ ~OneAddress(Node(t)) PROVE BfInv'
  <2>1. Return(t, Null) /\ global_ecode' # "ok"
    BY <1>6 DEF Raise
  <2>2. ~(WithinLimit(filter) /\ Plain(Node(t)))
    BY <1>4, <1>6 DEF Plain
  <2>3. ip_cnt' \in Nat /\ ip_cnt' <= Counted'
    BY <1>3, <2>1
  <2>4. ~Usable(filter)
    BY <1>5, <2>2
  <2> QED
    BY <1>1, <1>2, <2>1, <2>2, <2>3, <2>4, ReturnKeeps
<1>7. ASSUME NEW ip \in Node(t).net, OneAddress(Node(t)), Return(t, Addr(ip)), global_ecode' = global_ecode
      PROVE  BfInv'
  <2>1. Plain(Node(t)) /\ Node(t).net = {ip}
    BY <1>2, <1>7 DEF Plain, OneAddress
  <2> DEFINE e == Addr(ip)
  <2>2. e # Null
    BY DEF Addr, Null
  <2>3. Return(t, e) /\ \E x : Node(t).net = {x} /\ e = Addr(x)
    BY <1>7, <2>1
  <2> HIDE DEF e
  <2>4. ip_cnt' \in Nat /\ ip_cnt' <= Counted'
    BY <1>3, <2>1, <2>3
  <2>5. Usable(filter) => global_ecode' = "ok"
    BY <1>5, <1>7
  <2> QED
    BY <1>1, <1>2, <1>7, <2>1, <2>2, <2>3, <2>4, <2>5, ReturnKeeps
<1>8. \/ Limited(t) /\ Raise(t, "limit")
      \/ ~OneAddress(Node(t)) /\ Raise(t, "mask")
      \/ OneAddress(Node(t)) /\ global_ecode' = global_ecode
         /\ \E ip \in Node(t).net : Return(t, Addr(ip))
  BY DEF AddrNode
<1> QED
  BY <1>6, <1>7, <1>8

\* UseTree: with an error recorded no tree is used.
LEMMA UseTreeStep == ASSUME BfInv, NEW t \in Threads, UseTree(t) PROVE BfInv'
<1> DEFINE b == built[t]
<1>1. /\ pc[t] = "build" /\ ~More(t) /\ pc' = [pc EXCEPT ![t] = "files"]
      /\ bfindex_root' = [bfindex_root EXCEPT ![t] =
                             IF b[Len(b)] # Null /\ global_ecode = "ok" THEN b ELSE NoTree]
      /\ filter' = filter /\ built' = built /\ ip_cnt' = ip_cnt /\ global_ecode' = global_ecode
      /\ loaded' = loaded /\ skipped' = skipped
  BY DEF UseTree, GoTo
<1>2. /\ pc' \in [Threads -> {"build", "store", "files"}] /\ DOMAIN bfindex_root' = Threads
      /\ pc'[t] = "files" /\ \A u \in Threads \ {t} : pc'[u] = pc[u]
      /\ bfindex_root'[t] = IF b[Len(b)] # Null /\ global_ecode = "ok" THEN b ELSE NoTree
      /\ \A u \in Threads \ {t} : bfindex_root'[u] = bfindex_root[u]
  BY <1>1 DEF BfInv
<1>3. TreeInv(t) /\ LostInv(t) /\ UseInv(t) /\ IsFilter(filter)
  BY DEF BfInv, TreeInv, Results
<1>4. Len(b) = Len(filter)
  <2>1. Len(b) \in 0..Len(filter) /\ Len(filter) \in Nat
    BY <1>3, FilterOrdered DEF TreeInv, Results
  <2> QED
    BY <1>1, <2>1 DEF More
<1>5. skipped[t] = NoFile
  BY <1>1, <1>3 DEF UseInv
<1>6. ASSUME NEW u \in Threads PROVE TreeInv(u)' /\ LostInv(u)' /\ UseInv(u)'
  <2>0. TreeInv(u) /\ LostInv(u) /\ UseInv(u)
    BY DEF BfInv
  <2>1. TreeInv(u)'
    BY <1>1, <1>2, <1>4, <2>0 DEF TreeInv, More, Node
  <2>2. LostInv(u)'
    BY <1>1, <2>0 DEF LostInv
  <2>3. UseInv(u)'
    <3>1. CASE u = t
      BY <1>1, <1>2, <1>3, <1>5, <3>1 DEF UseInv, LostInv
    <3>2. CASE u # t
      BY <1>1, <1>2, <2>0, <3>2 DEF UseInv
    <3> QED
      BY <3>1, <3>2
  <2> QED
    BY <2>1, <2>2, <2>3
<1>7. CountInv'
  <2>1. CountInv /\ Counted' = Counted
    BY <1>1 DEF BfInv, Counted, Counts
  <2>2. \A u \in Threads : pc'[u] = "store" => pc[u] = "store"
    BY <1>2
  <2> QED
    BY <1>1, <2>1, <2>2 DEF CountInv
<1>8. UsableInv'
  <2> SUFFICES ASSUME Usable(filter)
               PROVE  /\ global_ecode = "ok"
                      /\ \A u \in Threads : pc'[u] = "files" => bfindex_root'[u] # NoTree
    BY <1>1 DEF UsableInv
  <2>1. global_ecode = "ok" /\ \A u \in Threads : pc[u] = "files" => bfindex_root[u] # NoTree
    BY DEF BfInv, UsableInv
  <2>2. PICK i \in Addresses(filter) : Plain(filter[i])
    BY DEF Usable
  <2>3. i \in 1..Len(b)
    BY <1>3, <1>4, <2>2, FilterOrdered DEF Addresses
  <2>4. b[i] # Null
    BY <1>3, <2>2, <2>3 DEF LostInv, Usable
  <2>5. b[Len(b)] # Null
    BY <1>3, <1>4, <2>3, <2>4, RootFound DEF TreeInv
  <2>6. b # NoTree
    BY <2>3, EmptySeq DEF NoTree
  <2> QED
    BY <1>2, <2>1, <2>5, <2>6
<1> QED
  BY <1>1, <1>2, <1>6, <1>7, <1>8 DEF BfInv

\* ProcessFile: a file is skipped when its index does not contain the tree.
LEMMA ProcessFileStep == ASSUME BfInv, NEW t \in Threads, ProcessFile(t) PROVE BfInv'
<1>1. PICK file \in Files, loadable \in BOOLEAN :
         skipped' = [skipped EXCEPT ![t] =
            IF bfindex_root[t] # NoTree /\ ~BfindexContains(bfindex_root[t], file, loadable)
            THEN file ELSE NoFile]
  BY DEF ProcessFile
<1>2. /\ filter' = filter /\ built' = built /\ ip_cnt' = ip_cnt /\ global_ecode' = global_ecode
      /\ loaded' = loaded /\ pc' = pc /\ bfindex_root' = bfindex_root
  BY DEF ProcessFile
<1>3. ASSUME NEW u \in Threads PROVE TreeInv(u)' /\ LostInv(u)' /\ UseInv(u)'
  <2>0. TreeInv(u) /\ LostInv(u) /\ UseInv(u)
    BY DEF BfInv
  <2>1. TreeInv(u)'
    BY <1>2, <2>0 DEF TreeInv, More, Node
  <2>2. LostInv(u)'
    BY <1>2, <2>0 DEF LostInv
  <2>3. skipped'[u] # NoFile =>
           bfindex_root[u] # NoTree /\ ~TreeContains(bfindex_root[u], Stored(skipped'[u]))
    <3>1. CASE u = t
      <4>1. ASSUME skipped'[t] # NoFile
            PROVE  /\ bfindex_root[t] # NoTree /\ skipped'[t] = file
                   /\ ~BfindexContains(bfindex_root[t], file, loadable)
        BY <1>1, <4>1 DEF BfInv
      <4> QED
        BY <3>1, <4>1 DEF BfindexContains
    <3>2. CASE u # t
      <4>1. skipped'[u] = skipped[u]
        BY <1>1, <3>2 DEF BfInv
      <4> QED
        BY <2>0, <4>1 DEF UseInv
    <3> QED
      BY <3>1, <3>2
  <2>4. UseInv(u)'
    BY <1>2, <2>0, <2>3 DEF UseInv
  <2> QED
    BY <2>1, <2>2, <2>4
<1>4. CountInv' /\ UsableInv'
  <2>1. CountInv /\ UsableInv /\ Counted' = Counted
    BY <1>2 DEF BfInv, Counted, Counts
  <2> QED
    BY <1>2, <2>1 DEF CountInv, UsableInv
<1> QED
  BY <1>1, <1>2, <1>3, <1>4 DEF BfInv

\* A step that changes nothing.
LEMMA BfUnchanged == ASSUME BfInv, UNCHANGED vars PROVE BfInv'
<1>1. /\ filter' = filter /\ built' = built /\ ip_cnt' = ip_cnt /\ global_ecode' = global_ecode
      /\ loaded' = loaded /\ pc' = pc /\ bfindex_root' = bfindex_root /\ skipped' = skipped
  BY DEF vars, threadVars
<1>2. \A u \in Threads : TreeInv(u)' /\ LostInv(u)' /\ UseInv(u)'
  BY <1>1 DEF BfInv, TreeInv, More, Node, LostInv, UseInv
<1>3. CountInv' /\ UsableInv'
  BY <1>1 DEF BfInv, CountInv, UsableInv, Counted, Counts
<1> QED
  BY <1>1, <1>2, <1>3 DEF BfInv

\* The invariant holds in every behaviour.
THEOREM BfInvariant == Spec => []BfInv
<1>1. ASSUME BfInv, [Next]_vars PROVE BfInv'
  <2>1. ASSUME NEW t \in Threads,
               \/ SkipNode(t) \/ OperNode(t) \/ NotEqual(t) \/ LoadCount(t) \/ AddrNode(t)
               \/ UseTree(t) \/ ProcessFile(t)
        PROVE  BfInv'
    BY <1>1, <2>1, SkipNodeStep, OperNodeStep, NotEqualStep, LoadCountStep, AddrNodeStep,
       UseTreeStep, ProcessFileStep
  <2> QED
    BY <1>1, <2>1, BfUnchanged DEF Next
<1> QED
  BY <1>1, BfInit, PTL DEF Spec

\* "filter would not match any flow record" of a skipped file (bfindex.h): whenever
\* the filters are Indexable, whatever the threads do to ip_cnt and global_ecode.
THEOREM FilesSkippedRightly ==
    ASSUME \A f \in Filters : Indexable(f)
    PROVE  Spec => []NoMatchSkipped
<1>1. BfInv => NoMatchSkipped
  BY NoMatchSkippedFollows DEF BfInv
<1> QED
  BY <1>1, BfInvariant, PTL

\* Lost increments and resets by other threads never turn off an index.
THEOREM IndexUsed == Spec => []IndexInUse
<1> QED
  BY BfInvariant, IndexInUseFollows, PTL

============================================================================
