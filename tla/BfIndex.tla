------------------------------ MODULE BfIndex ------------------------------
(***************************************************************************)
(* Bloom filter indexes: every worker thread of a slave derives from the   *)
(* record filter a tree of the IP addresses it asks for (bfindex_init),    *)
(* and skips a flow file when the index of the file says that the          *)
(* addresses the tree requires are not in it (bfindex_contains).           *)
(*                                                                         *)
(* The threads build their trees at the same time, and the construction    *)
(* keeps its error code and its count of addresses in static variables     *)
(* that all of them share.  The increment of the count is a data race, so  *)
(* its load and its store are separate steps.                              *)
(*                                                                         *)
(* A filter is the sequence of its nodes in the order in which build_node  *)
(* returns from them: an operator "and" or "or" comes after its operands    *)
(* and points to them, and the root is the last.  Leaves of type "addr"    *)
(* compare the field src or dst with a network, a set of addresses; leaves *)
(* of type "other" (other comparisons, negations with all that is below    *)
(* them) match any set of records.  Trees of addresses look the same.      *)
(* A failing malloc is not modelled.                                       *)
(***************************************************************************)
EXTENDS Naturals, Sequences, FiniteSets

CONSTANTS
    Threads,     \* worker threads of one slave
    Filters,     \* possible filters
    FlowRecs,    \* possible flow records, with fields src and dst
    MaxRecs,     \* number of records in a flow file at most
    MaxIps,      \* MAX_IP_ADDRESES
    NoFile

\* Operator nodes, those of type FF_TYPE_UNSUPPORTED with FF_OP_AND or FF_OP_OR.
IsOper(node) == node.type \in {"and", "or"}

\* A sequence of nodes that belong together as said above.
IsFilter(f) ==
    /\ f \in Seq({f[i] : i \in DOMAIN f})
    /\ f # <<>>
    /\ \A i \in DOMAIN f :
          /\ f[i].type \in {"addr", "other", "and", "or"}
          /\ f[i].type = "addr" => f[i].field \in {"src", "dst"}
          /\ IsOper(f[i]) => {f[i].left, f[i].right} \subseteq 1..(i - 1)
    /\ \A i \in 1..(Len(f) - 1) :
          \E j \in DOMAIN f : IsOper(f[j]) /\ i \in {f[j].left, f[j].right}

ASSUME BfAssumption ==
    /\ IsFiniteSet(Threads)
    /\ MaxIps \in Nat /\ MaxRecs \in Nat
    /\ \A f \in Filters : IsFilter(f)

VARIABLES
    filter,                \* fixed once chosen
    ip_cnt, global_ecode,  \* static variables of bfindex.c
    pc,                    \* control of every thread
    loaded,                \* the value of ip_cnt a thread has loaded
    built,                 \* results for the filter nodes visited so far
    bfindex_root,          \* the tree in use
    skipped                \* the last flow file skipped on its account

threadVars == <<pc, loaded, built, bfindex_root, skipped>>
vars       == <<filter, ip_cnt, global_ecode, threadVars>>

----------------------------------------------------------------------------
(* Filters and indexes.                                                    *)

\* The value of the last node, given the values of the leaves.
Value(nodes, leaf) ==
    LET value[i \in 1..Len(nodes)] ==
            CASE nodes[i].type = "and" -> value[nodes[i].left] /\ value[nodes[i].right]
              [] nodes[i].type = "or" -> value[nodes[i].left] \/ value[nodes[i].right]
              [] OTHER -> leaf[i]
    IN  value[Len(nodes)]

LeafMatches(node, r) ==
    \/ node.type = "addr" /\ (node.oper = "eq" <=> r[node.field] \in node.net)
    \/ node.type = "other" /\ r \in node.matches

\* Does the record satisfy the filter?
Matches(f, r) == Value(f, [i \in 1..Len(f) |-> LeafMatches(f[i], r)])

Files == {S \in SUBSET FlowRecs : Cardinality(S) <= MaxRecs}

\* The addresses the index of a file answers for: those in the file (further
\* ones, false positives, can only keep the file).
Stored(file) == {r.src : r \in file} \cup {r.dst : r \in file}

----------------------------------------------------------------------------
(* Trees.                                                                  *)

Null == [type |-> "null"]
Addr(ip) == [type |-> "addr", addr |-> ip]

NoTree == <<>>

\* Mistake: two addresses are taken for the same one.
PruneAddresses(nodes, node) ==
    LET left == nodes[node.left]
        right == nodes[node.right]
    IN  CASE left.type = "null" -> right
          [] right.type = "null" -> left
          [] left.type = "addr" /\ right.type = "addr" -> left
          [] OTHER -> node

\* prune_oper_subtree: what stands for the operator node in the tree.
Prune(nodes, node) ==
    LET left == nodes[node.left]
        right == nodes[node.right]
    IN  CASE left.type = "null" -> right
          [] right.type = "null" -> left
          [] left.type = "addr" /\ left = right -> left
          [] OTHER -> node

\* bfindex_tree_contains
TreeContains(tree, stored) ==
    Value(tree, [i \in 1..Len(tree) |-> tree[i].type = "addr" /\ tree[i].addr \in stored])

\* bfindex_contains: an index that cannot be loaded rules nothing out.
BfindexContains(tree, file, loadable) == loadable => TreeContains(tree, Stored(file))

----------------------------------------------------------------------------

Init ==
    /\ filter \in Filters
    /\ ip_cnt = 0
    /\ global_ecode = "ok"
    /\ pc = [t \in Threads |-> "build"]
    /\ loaded = [t \in Threads |-> 0]
    /\ built = [t \in Threads |-> <<>>]
    /\ bfindex_root = [t \in Threads |-> NoTree]
    /\ skipped = [t \in Threads |-> NoFile]

GoTo(t, label) == pc' = [pc EXCEPT ![t] = label]

\* The filter node thread t visits.
Node(t) == filter[Len(built[t]) + 1]

More(t) == Len(built[t]) < Len(filter)

Return(t, node) == built' = [built EXCEPT ![t] = Append(@, node)]

Raise(t, code) == global_ecode' = code /\ Return(t, Null)

\* build_node on a node that is neither an address nor a logical operator: it
\* is left out, and the error code is reset.
SkipNode(t) ==
    /\ pc[t] = "build"
    /\ More(t)
    /\ Node(t).type = "other"
    /\ global_ecode' = "ok"
    /\ Return(t, Null)
    /\ UNCHANGED <<filter, ip_cnt, pc, loaded, bfindex_root, skipped>>

\* build_oper_node, after its operands.
OperNode(t) ==
    /\ pc[t] = "build"
    /\ More(t)
    /\ IsOper(Node(t))
    /\ Return(t, Prune(built[t], Node(t)))
    /\ UNCHANGED <<filter, ip_cnt, global_ecode, pc, loaded, bfindex_root, skipped>>

\* build_addr_node with another operator than equality.
NotEqual(t) ==
    /\ pc[t] = "build"
    /\ More(t)
    /\ Node(t).type = "addr"
    /\ Node(t).oper # "eq"
    /\ Raise(t, "no_eq")
    /\ UNCHANGED <<filter, ip_cnt, pc, loaded, bfindex_root, skipped>>

\* build_addr_node: the count of addresses is loaded.
LoadCount(t) ==
    /\ pc[t] = "build"
    /\ More(t)
    /\ Node(t).type = "addr"
    /\ Node(t).oper = "eq"
    /\ loaded' = [loaded EXCEPT ![t] = ip_cnt]
    /\ GoTo(t, "store")
    /\ UNCHANGED <<filter, ip_cnt, global_ecode, built, bfindex_root, skipped>>

\* Mistake: the limit itself is taken for one address too many.
LimitedTooEarly(t) == loaded[t] + 1 >= MaxIps

\* ++ip_cnt > MAX_IP_ADDRESES
Limited(t) == loaded[t] + 1 > MaxIps

\* The network is an address (using_mask is false).
OneAddress(node) == \E ip \in node.net : node.net = {ip}

\* The count is stored, and the address becomes a node unless there are too
\* many of them or the address is a network.
AddrNode(t) ==
    /\ pc[t] = "store"
    /\ ip_cnt' = loaded[t] + 1
    /\ GoTo(t, "build")
    /\ \/ /\ Limited(t)
          /\ Raise(t, "limit")
       \/ /\ ~Limited(t)
          /\ ~OneAddress(Node(t))
          /\ Raise(t, "mask")
       \/ /\ ~Limited(t)
          /\ OneAddress(Node(t))
          /\ \E ip \in Node(t).net : Return(t, Addr(ip))
          /\ UNCHANGED global_ecode
    /\ UNCHANGED <<filter, loaded, bfindex_root, skipped>>

\* bfindex_init: the tree is used unless it is empty or an error is recorded.
UseTree(t) ==
    /\ pc[t] = "build"
    /\ ~More(t)
    /\ bfindex_root' = [bfindex_root EXCEPT ![t] =
                          IF built[t][Len(built[t])] # Null /\ global_ecode = "ok"
                          THEN built[t] ELSE NoTree]
    /\ GoTo(t, "files")
    /\ UNCHANGED <<filter, ip_cnt, global_ecode, loaded, built, skipped>>

\* process_file_mt: a file is skipped if there is a tree and its index does not
\* contain the tree; it is read otherwise.
ProcessFile(t) ==
    /\ pc[t] = "files"
    /\ \E file \in Files, loadable \in BOOLEAN :
          skipped' = [skipped EXCEPT ![t] =
             IF bfindex_root[t] # NoTree /\ ~BfindexContains(bfindex_root[t], file, loadable)
             THEN file ELSE NoFile]
    /\ UNCHANGED <<filter, ip_cnt, global_ecode, pc, loaded, built, bfindex_root>>

Next ==
    \E t \in Threads :
        \/ SkipNode(t) \/ OperNode(t) \/ NotEqual(t) \/ LoadCount(t) \/ AddrNode(t)
        \/ UseTree(t) \/ ProcessFile(t)

Spec == Init /\ [][Next]_vars

----------------------------------------------------------------------------
(* Properties                                                              *)

\* A flow file is skipped by bfindex_contains only when "filter would not
\* match any flow record" of it.
NoMatchSkipped ==
    \A t \in Threads : skipped[t] # NoFile =>
        \A r \in skipped[t] : ~Matches(filter, r)

Addresses(f) == {i \in DOMAIN f : f[i].type = "addr"}

Plain(node) == node.type = "addr" /\ node.oper = "eq" /\ OneAddress(node)

\* The trees of all threads together stay within the limit.
WithinLimit(f) == Cardinality(Threads) * Cardinality(Addresses(f)) <= MaxIps

\* As long as the trees stay within the limit, every thread uses an index for a
\* filter of plain addresses: increments that get lost and resets by other threads
\* never turn it off.
IndexInUse ==
    (/\ \A i \in Addresses(filter) : Plain(filter[i])
     /\ Addresses(filter) # {}
     /\ WithinLimit(filter)) =>
        \A t \in Threads : pc[t] = "files" => bfindex_root[t] # NoTree

----------------------------------------------------------------------------
(* Filters for which bfindex_contains can be trusted.                      *)

\* Need is the set of the nodes whose tree is not empty.
Needing(f, Need) ==
    \A i \in DOMAIN f :
        i \in Need <=> IF IsOper(f[i]) THEN f[i].left \in Need \/ f[i].right \in Need
                       ELSE Plain(f[i])

\* Either nothing resets the error code, or there are not too many addresses and
\* no disjunction loses one of its operands only.
Indexable(f) ==
    \/ \A i \in DOMAIN f : f[i].type # "other"
    \/ /\ WithinLimit(f)
       /\ \E Need \in SUBSET DOMAIN f :
             /\ Needing(f, Need)
             /\ \A i \in DOMAIN f :
                   f[i].type = "or" => (f[i].left \in Need <=> f[i].right \in Need)

============================================================================
