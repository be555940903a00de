---------------------------- MODULE MCListQuery ----------------------------
(***************************************************************************)
(* A small instance of ListQuery.  One record fills a buffer, so that      *)
(* files of three matching records go through full buffers, switches of    *)
(* buffers and a rest.                                                     *)
(***************************************************************************)
EXTENDS ListQuery, TLC

CONSTANTS s1, t1, t2

Good(recs) == [state |-> "ok", recs |-> recs, eof |-> TRUE]
Bad(recs) == [state |-> "ok", recs |-> recs, eof |-> FALSE]
Unopenable == [state |-> "unopenable", recs |-> <<>>, eof |-> TRUE]
Pruned == [state |-> "pruned", recs |-> <<FALSE>>, eof |-> TRUE]

T == TRUE
F == FALSE

\* One slave, two threads that race for the limit.
OneSlave == {s1}
TwoThreads == {t1, t2}
BothOnS1 == [t \in TwoThreads |-> s1]
RacingFiles ==
    {[s \in OneSlave |-> fs] : fs \in
        {<<Good(<<T, T, T>>), Good(<<T, T>>)>>,
         <<Good(<<T, F, T>>), Bad(<<T, T>>), Unopenable>>,
         <<Pruned, Good(<<T>>), Good(<<T, T>>)>>}}

============================================================================
