---------------------------- MODULE MCBatchQuery ----------------------------
(***************************************************************************)
(* Small instances of BatchQuery: all ways to spread a few keys with small *)
(* values over two threads of one slave, and chosen ones over three        *)
(* threads of two slaves.                                                  *)
(***************************************************************************)
EXTENDS BatchQuery, TLC

CONSTANTS s1, s2, t1, t2, t3, a, b, c

OneSlave == {s1}
TwoThreads == {t1, t2}
BothOnS1 == [t \in TwoThreads |-> s1]

TwoSlaves == {s1, s2}
ThreeThreads == {t1, t2, t3}
TwoAndOne == [t \in ThreeThreads |-> IF t = t3 THEN s2 ELSE s1]

AllMemories(K, V) == UNION {[D -> V] : D \in SUBSET K}

\* Two threads: three keys with values up to three.
PairMemories == AllMemories({a, b, c}, 1..3)

\* Three threads: memories that disagree about the best key, with absent keys,
\* zeros, ties, and one whose records all lie above the others' thresholds.
SpreadMemories ==
    {Empty, (a :> 3), (b :> 0), (a :> 2) @@ (b :> 1), (b :> 2) @@ (c :> 2),
     (a :> 0) @@ (c :> 4), (a :> 1) @@ (b :> 3) @@ (c :> 2)}

QueriesOf(modes, directions, limits) ==
    [mode : modes, direction : directions, rec_limit : limits]

\* TPUT in the direction in which its pruning argument holds, and the other
\* modes in both directions.
ExactQueries ==
    QueriesOf({"tput"}, {"desc"}, 1..2) \cup QueriesOf({"sort", "aggr"}, {"asc", "desc"}, 0..2)

\* The conditions for the exactness of TPUT hold in its instances.
ASSUME ExactConditions == Queries = ExactQueries => DescendingTput /\ ThresholdFits(4)

AscendingTput == QueriesOf({"tput"}, {"asc"}, {1})

============================================================================
