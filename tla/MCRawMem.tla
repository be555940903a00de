------------------------------ MODULE MCRawMem ------------------------------
(***************************************************************************)
(* Small instances of RawMem.  A header takes two units and a buffer       *)
(* eight: two records of length two fill a buffer exactly, one of length   *)
(* five leaves one unit, less than a header needs, and one of length six   *)
(* fills a buffer alone.                                                   *)
(***************************************************************************)
EXTENDS RawMem, TLC

CONSTANTS s1, t1, t2

OneSlave == {s1}
TwoThreads == {t1, t2}
BothOnS1 == [t \in TwoThreads |-> s1]

Pair(a, b) == (t1 :> a) @@ (t2 :> b)

\* A full memory beside an empty one and beside a small one.
TwoMemories == {Pair(3, 0), Pair(3, 1)}
Cnts == {Pair(0, 0), Pair(2, 1)}
Positions == {Pair(<<>>, <<>>), Pair(<<3, 1>>, <<>>)}

============================================================================
