----------------------------- MODULE MCForever ------------------------------
(* A small instance of the scheduler without an end of time. *)
EXTENDS Forever, TLC

CONSTANTS w1, j1, j2, b1, l1

OneWorker == {w1}
OwnId == [w \in Worker |-> w]
TwoJobs == {j1, j2}
OneLane == {l1}
OneBatch == {b1}
SameBatch == j1 :> b1 @@ j2 :> b1
SameLane == j1 :> l1 @@ j2 :> l1
PoolCapacity == l1 :> 2

(* One job that is retried once, and more urgent, beside one that is not. *)
RetryOne == j1 :> 2 @@ j2 :> 1
FirstUrgent == j1 :> 1 @@ j2 :> 0
AtOnce == [b \in Batch |-> 0]
LongBackoff == <<2, 3>>
=============================================================================
