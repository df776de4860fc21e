----------------------------- MODULE MCScheduler ----------------------------
(* Small instances of the scheduler for TLC. *)
EXTENDS SchedulerProperties, TLC

CONSTANTS w1, w2, id, j1, j2, b1, b2, l1, l2

OneWorker == {w1}
TwoWorkers == {w1, w2}

(* Every process has an identity of its own, as config.go asks; or all     *)
(* have the same, which nothing prevents.                                  *)
OwnId == [w \in Worker |-> w]
OneId == {id}
SharedId == [w \in Worker |-> id]
TwoJobs == {j1, j2}
OneLane == {l1}
TwoLanes == {l1, l2}
OneBatch == {b1}
TwoBatches == {b1, b2}

(* Both jobs in one batch, or one in each. *)
SameBatch == j1 :> b1 @@ j2 :> b1
OwnBatch == j1 :> b1 @@ j2 :> b2
SameLane == j1 :> l1 @@ j2 :> l1
OwnLane == j1 :> l1 @@ j2 :> l2

SerialCapacity == l1 :> 1
PoolCapacity == l1 :> 2
LanesCapacity == l1 :> 1 @@ l2 :> 1

(* One job that is retried once, beside one that is not. *)
RetryOne == j1 :> 2 @@ j2 :> 1
EqualPriority == j1 :> 0 @@ j2 :> 0

AtOnce == [b \in Batch |-> 0]
SecondDelayed == b1 :> 0 @@ b2 :> 3

(* The backoff after the 1st and 2nd failed attempt, in clock units: like  *)
(* BackoffFor it is positive and grows.                                    *)
ShortBackoff == <<1, 2>>
LongBackoff == <<2, 3>>

Symmetry == Permutations(Worker)
=============================================================================
