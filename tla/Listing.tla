------------------------------ MODULE Listing ------------------------------
(***************************************************************************)
(* What a listing query promises its user: the flow records that match,    *)
(* each at most once and in no particular order, all of them when there is *)
(* no record limit and limit of them, or all if there are fewer, when      *)
(* there is one; and the query ends.                                       *)
(***************************************************************************)
EXTENDS Naturals, FiniteSets

VARIABLES
    expected,  \* the records that match the query
    limit,     \* the record limit, 0 for none
    printed,   \* the records printed so far
    done

vars == <<expected, limit, printed, done>>

Quota ==
    IF limit = 0 \/ Cardinality(expected) < limit
    THEN Cardinality(expected) ELSE limit

Init == printed = {} /\ done = FALSE

PrintRecord ==
    /\ ~done
    /\ Cardinality(printed) < Quota
    /\ \E r \in expected \ printed : printed' = printed \cup {r}
    /\ UNCHANGED <<expected, limit, done>>

Finish ==
    /\ ~done
    /\ Cardinality(printed) = Quota
    /\ done' = TRUE
    /\ UNCHANGED <<expected, limit, printed>>

Next == PrintRecord \/ Finish

Safety == Init /\ [][Next]_vars

Spec == Safety /\ WF_vars(Next)

============================================================================
