--------------------------- MODULE LifecycleProofs --------------------------
(***************************************************************************)
(* Proof that the scheduler implements Lifecycle: the initial state maps   *)
(* to an initial state, and every step to one move of the life of jobs and *)
(* batches, or to none.  Each action that reaches the jobs or the batches  *)
(* table has a lemma that names the move it is.                            *)
(***************************************************************************)
EXTENDS SchedulerProofs

(* A job that is not there was never started. *)
AbsentUntried == \A j \in Job : jobs[j].state = "absent" => jobs[j].attempt = 0

LEMMA AbsentUntriedStep ==
  ASSUME TableInv, AbsentUntried, [Next]_vars
  PROVE  AbsentUntried'
<1>1. ASSUME NEW j \in Job, jobs'[j].state = "absent" PROVE jobs'[j].attempt = 0
  <2>1. JobTransition(j)
    BY JobStep DEF TableInv
  <2>2. jobs'[j] = jobs[j]
    BY <1>1, <2>1 DEF JobTransition
  <2> QED
    BY <1>1, <2>2 DEF AbsentUntried
<1> QED
  BY <1>1 DEF AbsentUntried

LEMMA AbsentUntriedAlways == Spec => []AbsentUntried
<1>1. Init => AbsentUntried
  BY DEF Init, NoRow, AbsentUntried
<1> QED
  BY <1>1, AbsentUntriedStep, TablesConsistent, PTL DEF Spec

-----------------------------------------------------------------------------
(* Submitting a batch dispatches it (submit_batch.go). *)
LEMMA SubmitDispatches ==
  ASSUME TableInv, AbsentUntried, NEW b \in Batch, SubmitBatch(b)
  PROVE  Life!Dispatch(b)
<1>1. PICK now \in 1..clock :
        jobs' = [j \in Job |-> IF BatchOf[j] = b THEN NewJob(NotBefore[b], now) ELSE jobs[j]]
  BY DEF SubmitBatch
<1>2. NotBefore[b] \in Nat /\ now \in Nat
  BY <1>1, SchedulerAssumption DEF TableInv, TypeOK
<1>3. ASSUME NEW j \in Job
      PROVE  /\ jobs'[j].state = IF BatchOf[j] = b THEN "pending" ELSE jobs[j].state
             /\ jobs'[j].attempt = jobs[j].attempt
  <2>1. CASE BatchOf[j] = b
    <3>1. jobs[j].state = "absent"
      BY <2>1 DEF SubmitBatch, TableInv, JobsComeWithBatch
    <3>2. jobs[j].attempt = 0
      BY <3>1 DEF AbsentUntried
    <3> QED
      BY <1>1, <1>2, <2>1, <3>2, NewJobRow
  <2>2. CASE BatchOf[j] # b
    BY <1>1, <2>2
  <2> QED
    BY <2>1, <2>2
<1>4. stateOf' = [j \in Job |-> IF BatchOf[j] = b THEN "pending" ELSE stateOf[j]]
  BY <1>3 DEF stateOf
<1>5. triesOf' = triesOf
  BY <1>3 DEF triesOf
<1> QED
  BY <1>4, <1>5 DEF SubmitBatch, Life!Dispatch

(* Canceling a batch settles its jobs (cancel_batch.go). *)
LEMMA CancelCancels ==
  ASSUME TableInv, NEW b \in Batch, CancelBatch(b)
  PROVE  Life!Cancel(b)
<1> jobs \in [Job -> Row]
  BY DEF TableInv, TypeOK
<1>1. ASSUME NEW j \in Job
      PROVE  /\ jobs'[j].state = IF BatchOf[j] = b /\ ~Life!Settled(j)
                                 THEN "canceled" ELSE jobs[j].state
             /\ jobs'[j].attempt = jobs[j].attempt
  <2>1. jobs[j] \in Row /\ stateOf[j] = jobs[j].state
    BY DEF stateOf
  <2>2. CASE BatchOf[j] = b /\ jobs[j].state \in {"pending", "running"}
    <3>1. jobs'[j] = Cancel(jobs[j])
      BY <2>2 DEF CancelBatch, CancelByBatch
    <3>2. jobs'[j].state = "canceled" /\ jobs'[j].attempt = jobs[j].attempt
      BY <2>1, <2>2, <3>1 DEF Cancel, ClearLease, IsTerminal, TerminalState, Row
    <3>3. ~Life!Settled(j)
      BY <2>1, <2>2 DEF Life!Settled
    <3> QED
      BY <2>2, <3>2, <3>3
  <2>3. CASE ~(BatchOf[j] = b /\ jobs[j].state \in {"pending", "running"})
    <3>1. jobs'[j] = jobs[j]
      BY <2>3 DEF CancelBatch, CancelByBatch
    <3>2. BatchOf[j] = b => jobs[j].state # "absent"
      BY DEF CancelBatch, TableInv, JobsComeWithBatch
    <3>3. BatchOf[j] = b => Life!Settled(j)
      BY <2>1, <2>3, <3>2 DEF Life!Settled, Row, JobState, TerminalState
    <3> QED
      BY <3>1, <3>3
  <2> QED
    BY <2>2, <2>3
<1>2. stateOf' = [j \in Job |-> IF BatchOf[j] = b /\ ~Life!Settled(j)
                                THEN "canceled" ELSE stateOf[j]]
  BY <1>1 DEF stateOf
<1>3. triesOf' = triesOf
  BY <1>1 DEF triesOf
<1> QED
  BY <1>2, <1>3 DEF CancelBatch, Life!Cancel

(* A claim starts a job (job_repo.go Claim). *)
LEMMA ClaimStarts ==
  ASSUME TableInv, NEW s \in Slot, ClaimJob(s)
  PROVE  \E j \in Job : Life!Start(j)
<1> jobs \in [Job -> Row] /\ slot[s].now \in Nat
  BY DEF TableInv, TypeOK, SlotState
<1>1. PICK j \in NextClaim(Serves(s), slot[s].now) :
        jobs' = [jobs EXCEPT ![j] = Claim(jobs[j], OwnerId(s), slot[s].now)]
  BY DEF ClaimJob
<1>2. j \in Job /\ jobs[j].state = "pending" /\ OwnerId(s) \in WorkerId
  BY SlotParts DEF NextClaim, Claimable
<1>3. jobs'[j].state = "running" /\ jobs'[j].attempt = jobs[j].attempt + 1
  BY <1>1, <1>2, ClaimRow
<1>4. stateOf' = [stateOf EXCEPT ![j] = "running"]
  BY <1>1, <1>2, <1>3 DEF stateOf
<1>5. triesOf' = [triesOf EXCEPT ![j] = @ + 1]
  BY <1>1, <1>2, <1>3 DEF triesOf
<1>6. stateOf[j] = "pending" /\ triesOf[j] < MaxAttempts[j]
  BY <1>2 DEF stateOf, triesOf, TableInv, AttemptBudget
<1> QED
  BY <1>2, <1>4, <1>5, <1>6 DEF ClaimJob, Life!Start

(* An accepted success finishes a job (process_job.go settleSuccess). *)
LEMMA SuccessFinishes ==
  ASSUME TableInv, NEW s \in Slot, SettleSuccess(s)
  PROVE  \E j \in Job : Life!Finish(j)
<1> DEFINE j == slot[s].job
<1> jobs \in [Job -> Row]
  BY DEF TableInv, TypeOK
<1>1. j \in Job /\ jobs[j].state = "running" /\ jobs' = [jobs EXCEPT ![j] = Succeed(jobs[j])]
  BY DEF SettleSuccess, HeldBy, TableInv, SlotsHaveJobs, Occupied
<1>2. jobs'[j].state = "succeeded" /\ jobs'[j].attempt = jobs[j].attempt
  BY <1>1 DEF Succeed, ClearLease, Row
<1> HIDE DEF j
<1>3. stateOf' = [stateOf EXCEPT ![j] = "succeeded"]
  BY <1>1, <1>2 DEF stateOf
<1>4. triesOf' = triesOf
  BY <1>1, <1>2 DEF triesOf
<1>5. stateOf[j] = "running"
  BY <1>1 DEF stateOf
<1> QED
  BY <1>1, <1>3, <1>4, <1>5 DEF SettleSuccess, Life!Finish

(* Running jobs to which Fail is applied miss a try. *)
LEMMA FailMisses ==
  ASSUME TableInv, NEW S \in SUBSET Job, NEW now \in Nat, UNCHANGED batch,
         \A j \in S : jobs[j].state = "running",
         jobs' = [j \in Job |-> IF j \in S THEN Fail(jobs[j], MaxAttempts[j], now) ELSE jobs[j]]
  PROVE  Life!Miss(S)
<1> jobs \in [Job -> Row]
  BY DEF TableInv, TypeOK
<1>1. ASSUME NEW j \in Job
      PROVE  /\ jobs'[j].state = IF j \notin S THEN jobs[j].state
                                 ELSE IF jobs[j].attempt < MaxAttempts[j]
                                      THEN "pending" ELSE "dead"
             /\ jobs'[j].attempt = jobs[j].attempt
  <2>1. CASE j \in S
    <3>1. jobs[j] \in Row /\ jobs[j].attempt \in 1..MaxAttempts[j]
      BY <2>1 DEF TableInv, AttemptBudget
    <3> QED
      BY <2>1, <3>1, FailRow
  <2>2. CASE j \notin S
    BY <2>2
  <2> QED
    BY <2>1, <2>2
<1>2. stateOf' = [j \in Job |-> IF j \notin S THEN stateOf[j]
                                ELSE IF triesOf[j] < MaxAttempts[j] THEN "pending" ELSE "dead"]
  BY <1>1 DEF stateOf, triesOf
<1>3. triesOf' = triesOf
  BY <1>1 DEF triesOf
<1>4. \A j \in S : stateOf[j] = "running"
  BY DEF stateOf
<1> QED
  BY <1>2, <1>3, <1>4 DEF Life!Miss

(* An accepted failure is a missed try (process_job.go settleFailure). *)
LEMMA FailureMisses ==
  ASSUME TableInv, NEW s \in Slot, SettleFailure(s)
  PROVE  \E S \in SUBSET Job : Life!Miss(S)
<1> DEFINE j == slot[s].job
<1> jobs \in [Job -> Row]
  BY DEF TableInv, TypeOK
<1>1. /\ j \in Job /\ jobs[j].state = "running"
      /\ jobs' = [jobs EXCEPT ![j] = Fail(jobs[j], MaxAttempts[j], slot[s].now)]
      /\ slot[s].now \in Nat
  BY DEF SettleFailure, HeldBy, TableInv, TypeOK, SlotsHaveJobs, Occupied, SlotState
<1> HIDE DEF j
<1>2. jobs' = [i \in Job |-> IF i \in {j} THEN Fail(jobs[i], MaxAttempts[i], slot[s].now)
                             ELSE jobs[i]]
  BY <1>1
<1>3. Life!Miss({j})
  BY <1>1, <1>2, FailMisses DEF SettleFailure
<1> QED
  BY <1>1, <1>3

(* A round of the reaper misses a try of each job it takes back            *)
(* (reap_expired.go).                                                      *)
LEMMA ReapMisses ==
  ASSUME TableInv, NEW w \in Worker, ReapExpired(w)
  PROVE  \E S \in SUBSET Job : Life!Miss(S)
<1>1. PICK stale \in ReclaimExpired(keeper[w].now, ReapLimit) :
        jobs' = [j \in Job |-> IF j \in stale
                               THEN Fail(jobs[j], MaxAttempts[j], keeper[w].now) ELSE jobs[j]]
  BY DEF ReapExpired
<1>2. stale \in SUBSET Job /\ \A j \in stale : jobs[j].state = "running"
  BY ReclaimedAreExpired DEF CanReclaim
<1>3. keeper[w].now \in Nat
  BY DEF TableInv, TypeOK, KeeperState
<1> QED
  BY <1>1, <1>2, <1>3, FailMisses DEF ReapExpired

(* A closing round closes settled batches (close_batches.go). *)
LEMMA ClosingCloses ==
  ASSUME TableInv, NEW w \in Worker, CloseCompletedBatches(w)
  PROVE  \E S \in SUBSET Batch : Life!Close(S)
<1> jobs \in [Job -> Row]
  BY DEF TableInv, TypeOK
<1>1. PICK done \in ListCompletable(CloseLimit) :
        batch' = [b \in Batch |-> IF b \in done THEN "done" ELSE batch[b]]
  BY DEF CloseCompletedBatches
<1>2. /\ done \in SUBSET Batch
      /\ \A b \in done : batch[b] = "open"
      /\ \A j \in Job : BatchOf[j] \in done => jobs[j].state \notin {"pending", "running"}
  BY DEF ListCompletable, Limited
<1>3. ASSUME NEW j \in Job, BatchOf[j] \in done PROVE Life!Settled(j)
  <2>1. jobs[j].state # "absent"
    BY <1>2, <1>3 DEF TableInv, JobsComeWithBatch
  <2>2. jobs[j].state \in TerminalState
    BY <1>2, <1>3, <2>1 DEF Row, JobState
  <2> QED
    BY <2>2 DEF Life!Settled, stateOf, TerminalState
<1>4. UNCHANGED <<stateOf, triesOf>>
  BY DEF CloseCompletedBatches, stateOf, triesOf
<1> QED
  BY <1>1, <1>2, <1>3, <1>4 DEF Life!Close

-----------------------------------------------------------------------------
LEMMA LifeInit ==
  ASSUME Init
  PROVE  Life!Init
BY DEF Init, Life!Init, stateOf, triesOf, NoRow

LEMMA LifeStep ==
  ASSUME TableInv, AbsentUntried, [Next]_vars
  PROVE  [Life!Next]_(Life!vars)
<1>1. ASSUME NEW b \in Batch, SubmitBatch(b) PROVE Life!Next
  BY <1>1, SubmitDispatches DEF Life!Next
<1>2. ASSUME NEW b \in Batch, CancelBatch(b) PROVE Life!Next
  BY <1>2, CancelCancels DEF Life!Next
<1>3. ASSUME NEW s \in Slot, ClaimJob(s) PROVE Life!Next
  BY <1>3, ClaimStarts DEF Life!Next
<1>4. ASSUME NEW s \in Slot, SettleSuccess(s) PROVE Life!Next
  BY <1>4, SuccessFinishes DEF Life!Next
<1>5. ASSUME NEW s \in Slot, SettleFailure(s) PROVE Life!Next
  BY <1>5, FailureMisses DEF Life!Next
<1>6. ASSUME NEW w \in Worker, ReapExpired(w) PROVE Life!Next
  BY <1>6, ReapMisses DEF Life!Next
<1>7. ASSUME NEW w \in Worker, CloseCompletedBatches(w) PROVE Life!Next
  BY <1>7, ClosingCloses DEF Life!Next
<1>8. CASE UNCHANGED <<jobs, batch>>
  BY <1>8 DEF Life!vars, stateOf, triesOf
<1> QED
  BY <1>1, <1>2, <1>3, <1>4, <1>5, <1>6, <1>7, <1>8
  DEF Next, vars, Poll, ClaimNothing, ExecutorReturns, DiscardResult, SlotTxFails, KeeperTick,
      KeeperTxFails, Crash, Signal, Exit, Restart, Tick

(* The scheduler implements the life of jobs and batches: to whoever       *)
(* dispatches a batch, leases, crashes, late results, reaping and stale    *)
(* clock readings show only as the moves of Lifecycle.                     *)
THEOREM LifecycleImplemented == Spec => ImplementsLifecycle
BY LifeInit, LifeStep, TablesConsistent, AbsentUntriedAlways, PTL
DEF Spec, ImplementsLifecycle, Life!Spec
=============================================================================
