------------------------------ MODULE MCExecutor ------------------------------
(* Instances of the executor for TLC.                                       *)
EXTENDS ExecutorProperties, TLC

CONSTANTS t1, t2, c1, first, second

OneCall  == [t \in Tasks |-> c1]
\* bound of the liveness run: a history makes one of the two requests, which
\* of them is free
OneRequest == \E t \in Tasks : row[t].state = "absent"
\* and a second process overlaps with the first to recover a managed run it
\* holds: it claims nothing and meets neither a cancellation nor a panic
SecondRecovers ==
    disp[second] # "down" =>
        /\ disp[first] # "down" /\ ~locked /\ row[t2].state \notin {"absent", "queued", "cancel_requested"}
        /\ \A k \in Tokens : run[t2][k].by = second => run[t2][k].at = "adopted"
=============================================================================
