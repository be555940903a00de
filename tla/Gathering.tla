----------------------------- MODULE Gathering -----------------------------
(***************************************************************************)
(* What one query promises about the records the worker threads hand to    *)
(* the master in batches: in every round the master's memory fills up with *)
(* exactly the records due in that round, each once; only when all are     *)
(* there does the next round start, with an empty memory; and after the    *)
(* last round the gathering ends.                                          *)
(***************************************************************************)
EXTENDS Naturals, Sequences, Bags

VARIABLES
    due,       \* due[i]: the set of records due in round i
    round,     \* the round under way
    gathered,  \* the bag of records received in it
    done

vars == <<due, round, gathered, done>>

Complete == gathered = SetToBag(due[round])

Init == round = 1 /\ gathered = EmptyBag /\ done = FALSE

Collect ==
    /\ ~done
    /\ \E r \in due[round] \ BagToSet(gathered) :
          gathered' = gathered (+) SetToBag({r})
    /\ UNCHANGED <<due, round, done>>

NextRound ==
    /\ Complete
    /\ round < Len(due)
    /\ round' = round + 1
    /\ gathered' = EmptyBag
    /\ UNCHANGED <<due, done>>

Finish ==
    /\ ~done
    /\ Complete
    /\ round = Len(due)
    /\ done' = TRUE
    /\ UNCHANGED <<due, round, gathered>>

Next == Collect \/ NextRound \/ Finish

Safety == Init /\ [][Next]_vars

Spec == Safety /\ WF_vars(Next)

============================================================================
