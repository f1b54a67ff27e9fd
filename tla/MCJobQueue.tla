----------------------------- MODULE MCJobQueue -----------------------------
(* A small instance of JobQueue for TLC: one job, two single-lane processes that
   compete for it and recover it from one another. *)
EXTENDS JobQueue, TLC

CONSTANTS j1, p1, p2, l1, l2

OneJob == {j1}
TwoProcs == {p1, p2}
TwoLanes == {l1, l2}
LanePerProc == l1 :> p1 @@ l2 :> p2
AllOfOne == [l \in TwoLanes |-> OneJob]
RankOne == [j \in OneJob |-> 1]
OneRetry == [j \in OneJob |-> 1]
=============================================================================
