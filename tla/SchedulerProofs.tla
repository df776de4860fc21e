--------------------------- MODULE SchedulerProofs --------------------------
(***************************************************************************)
(* Proofs that the scheduler keeps its tables consistent for every set of  *)
(* jobs, batches, lanes and workers, every capacity and every timing.      *)
(*                                                                         *)
(* TableInv is inductive.  Its parts are treated one lemma at a time, each *)
(* with one step per action that can disturb the part.                     *)
(***************************************************************************)
EXTENDS SchedulerProperties, FiniteSetTheorems, TLAPS

-----------------------------------------------------------------------------
(* Lemmas about the operators of the model. *)

(* A slot belongs to a process, serves a lane (pool.go Run) and goes by    *)
(* the identity of its process.                                            *)
LEMMA SlotParts ==
  ASSUME NEW s \in Slot
  PROVE  Host(s) \in Worker /\ Serves(s) \in Lane /\ OwnerId(s) \in WorkerId
BY IdentityAssumption DEF Slot, Host, Serves, OwnerId

(* Recording events keeps the trail a sequence of events for each subject. *)
LEMMA RecordType ==
  ASSUME trail \in [Job \cup Batch -> Seq(EventType)],
         NEW ev,
         \A x \in DOMAIN ev : ev[x] \in EventType
  PROVE  Record(ev) \in [Job \cup Batch -> Seq(EventType)]
BY DEF Record

(* A new job and a claimed one are rows (job.go NewJob, job_repo.go Claim). *)
LEMMA NewJobRow ==
  ASSUME NEW notBefore \in Nat, NEW now \in Nat
  PROVE  NewJob(notBefore, now) \in Row /\ NewJob(notBefore, now).state = "pending"
                                       /\ NewJob(notBefore, now).attempt = 0
BY DEF NewJob, Row, JobState

LEMMA ClaimRow ==
  ASSUME NEW row \in Row, NEW owner \in WorkerId, NEW now \in Nat
  PROVE  LET new == Claim(row, owner, now)
         IN /\ new \in Row
            /\ new.state = "running" /\ new.attempt = row.attempt + 1
            /\ new.leaseOwner = owner /\ new.leaseExpires = now + LeaseFor
<1>1. now + LeaseFor \in Nat /\ row.attempt + 1 \in Nat
  BY TopologyAssumption DEF Row
<1> QED
  BY <1>1 DEF Claim, Row, JobState

(* An idle slot and an idle keeper have their types. *)
LEMMA IdleTypes == IdleSlot \in SlotState /\ IdleKeeper \in KeeperState
BY DEF IdleSlot, SlotState, SlotPc, IdleKeeper, KeeperState

(* A failed attempt of a job within its budget leaves a row in pending,    *)
(* with a try left, or in dead (job.go Fail).                              *)
LEMMA FailRow ==
  ASSUME NEW j \in Job, NEW row \in Row, NEW now \in Nat,
         row.attempt \in 1..MaxAttempts[j]
  PROVE  LET new == Fail(row, MaxAttempts[j], now)
         IN /\ new \in Row
            /\ new.attempt = row.attempt
            /\ IF row.attempt < MaxAttempts[j]
               THEN new.state = "pending" /\ new.availableAt = now + Backoff[row.attempt]
               ELSE new.state = "dead"
<1>1. MaxAttempts[j] \in Nat /\ Backoff[row.attempt] \in Nat
  BY AttemptAssumption
<1>2. ClearLease(row) \in Row /\ ClearLease(row).attempt = row.attempt
  BY DEF ClearLease, Row
<1>3. now + Backoff[row.attempt] \in Nat
  BY <1>1
<1> QED
  BY <1>1, <1>2, <1>3 DEF Fail, WillRetry, Row, JobState, TerminalState

(* Succeeding and canceling yield rows. *)
LEMMA OutcomeRow ==
  ASSUME NEW row \in Row
  PROVE  Succeed(row) \in Row /\ Cancel(row) \in Row
BY DEF Succeed, Cancel, ClearLease, IsTerminal, Row, JobState, TerminalState

(* The reaper selects expired running rows only (job_repo.go               *)
(* ReclaimExpired).                                                        *)
LEMMA ReclaimedAreExpired ==
  ASSUME NEW now, NEW limit, NEW stale \in ReclaimExpired(now, limit)
  PROVE  stale \subseteq Job /\ \A j \in stale : CanReclaim(jobs[j], now)
BY DEF ReclaimExpired, Limited

-----------------------------------------------------------------------------
(* Type correctness. *)

LEMMA TypeStep ==
  ASSUME TypeOK, SlotsHaveJobs, AttemptBudget, [Next]_vars
  PROVE  TypeOK'
<1> USE SchedulerAssumption, TopologyAssumption, NoWorkerAssumption DEF TypeOK
<1>1. ASSUME NEW b \in Batch, SubmitBatch(b) PROVE TypeOK'
  <2>1. PICK now \in 1..clock :
          jobs' = [j \in Job |-> IF BatchOf[j] = b THEN NewJob(NotBefore[b], now) ELSE jobs[j]]
    BY <1>1 DEF SubmitBatch
  <2>2. NewJob(NotBefore[b], now) \in Row
    BY <2>1, NewJobRow
  <2>3. jobs' \in [Job -> Row]
    BY <2>1, <2>2
  <2>4. trail' \in [Job \cup Batch -> Seq(EventType)]
    BY <1>1, RecordType DEF SubmitBatch, EventType, BatchEvent
  <2> QED
    BY <1>1, <2>3, <2>4 DEF SubmitBatch, BatchState
<1>2. ASSUME NEW b \in Batch, CancelBatch(b) PROVE TypeOK'
  <2>1. jobs' \in [Job -> Row]
    BY <1>2, OutcomeRow DEF CancelBatch, CancelByBatch
  <2>2. trail' \in [Job \cup Batch -> Seq(EventType)]
    BY <1>2, RecordType DEF CancelBatch, EventType, BatchEvent
  <2> QED
    BY <1>2, <2>1, <2>2 DEF CancelBatch, BatchState
<1>3. ASSUME NEW s \in Slot, Poll(s) PROVE TypeOK'
  BY <1>3 DEF Poll, IdleSlot, SlotState, SlotPc
<1>4. ASSUME NEW s \in Slot, ClaimJob(s) PROVE TypeOK'
  <2>1. PICK j \in NextClaim(Serves(s), slot[s].now) :
          LET row == Claim(jobs[j], OwnerId(s), slot[s].now)
          IN /\ jobs' = [jobs EXCEPT ![j] = row]
             /\ trail' = Record([x \in {j} |-> "job.claimed"])
             /\ slot' = [slot EXCEPT ![s] = [pc |-> "run", job |-> j, attempt |-> row.attempt,
                                             until |-> row.leaseExpires, now |-> 0]]
    BY <1>4 DEF ClaimJob
  <2>2. j \in Job /\ OwnerId(s) \in WorkerId /\ slot[s].now \in Nat
    BY SlotParts DEF NextClaim, Claimable, SlotState
  <2>3. Claim(jobs[j], OwnerId(s), slot[s].now) \in Row
    BY <2>2, ClaimRow
  <2>4. jobs' \in [Job -> Row]
    BY <2>1, <2>2, <2>3
  <2>5. trail' \in [Job \cup Batch -> Seq(EventType)]
    BY <2>1, RecordType DEF EventType, JobEvent
  <2>6. slot' \in [Slot -> SlotState]
    BY <2>1, <2>2, <2>3 DEF SlotState, SlotPc, Row
  <2> QED
    BY <1>4, <2>4, <2>5, <2>6 DEF ClaimJob
<1>5. ASSUME NEW s \in Slot, ClaimNothing(s) PROVE TypeOK'
  BY <1>5, IdleTypes DEF ClaimNothing
<1>6. ASSUME NEW s \in Slot, NEW outcome \in {"ok", "err"}, ExecutorReturns(s, outcome)
      PROVE TypeOK'
  <2>1. slot[s] \in SlotState /\ outcome \in SlotPc /\ clock \in Nat
    BY DEF SlotPc
  <2>2. [slot[s] EXCEPT !.pc = outcome, !.now = clock] \in SlotState
    BY <2>1 DEF SlotState
  <2> QED
    BY <1>6, <2>2 DEF ExecutorReturns
<1>7. ASSUME NEW s \in Slot, SettleSuccess(s) PROVE TypeOK'
  <2>1. jobs' \in [Job -> Row]
    BY <1>7, OutcomeRow DEF SettleSuccess
  <2>2. trail' \in [Job \cup Batch -> Seq(EventType)]
    BY <1>7, RecordType DEF SettleSuccess, EventType, JobEvent
  <2>3. slot' \in [Slot -> SlotState]
    BY <1>7 DEF SettleSuccess, SlotState, SlotPc, IdleSlot
  <2> QED
    BY <1>7, <2>1, <2>2, <2>3 DEF SettleSuccess
<1>8. ASSUME NEW s \in Slot, SettleFailure(s) PROVE TypeOK'
  <2>1. slot[s].job \in Job /\ slot[s].now \in Nat
    BY <1>8 DEF SettleFailure, SlotsHaveJobs, Occupied, SlotState
  <2>2. jobs[slot[s].job].attempt \in 1..MaxAttempts[slot[s].job]
    BY <1>8, <2>1 DEF SettleFailure, HeldBy, AttemptBudget
  <2>3. Fail(jobs[slot[s].job], MaxAttempts[slot[s].job], slot[s].now) \in Row
    BY <2>1, <2>2, FailRow
  <2>4. jobs' \in [Job -> Row]
    BY <1>8, <2>1, <2>3 DEF SettleFailure
  <2>5. trail' \in [Job \cup Batch -> Seq(EventType)]
    BY <1>8, RecordType DEF SettleFailure, EventType, JobEvent
  <2>6. slot' \in [Slot -> SlotState]
    BY <1>8 DEF SettleFailure, SlotState, SlotPc, IdleSlot
  <2> QED
    BY <1>8, <2>4, <2>5, <2>6 DEF SettleFailure
<1>9. ASSUME NEW s \in Slot, DiscardResult(s) \/ SlotTxFails(s) PROVE TypeOK'
  <2>1. CASE DiscardResult(s)
    BY <2>1, IdleTypes DEF DiscardResult
  <2>2. CASE SlotTxFails(s)
    BY <2>2, IdleTypes DEF SlotTxFails
  <2> QED
    BY <1>9, <2>1, <2>2
<1>10. ASSUME NEW w \in Worker, KeeperTick(w) \/ KeeperTxFails(w) PROVE TypeOK'
  <2>1. CASE KeeperTick(w)
    BY <2>1 DEF KeeperTick, KeeperState
  <2>2. CASE KeeperTxFails(w)
    <3>1. [pc |-> "close", now |-> 0] \in KeeperState
      BY DEF KeeperState
    <3>2. \E k \in KeeperState : keeper' = [keeper EXCEPT ![w] = k]
      BY <2>2, <3>1, IdleTypes DEF KeeperTxFails
    <3> QED
      BY <2>2, <3>2 DEF KeeperTxFails
  <2> QED
    BY <1>10, <2>1, <2>2
<1>11. ASSUME NEW w \in Worker, ReapExpired(w) PROVE TypeOK'
  <2>1. PICK stale \in ReclaimExpired(keeper[w].now, ReapLimit) :
          /\ jobs' = [j \in Job |-> IF j \in stale
                                    THEN Fail(jobs[j], MaxAttempts[j], keeper[w].now) ELSE jobs[j]]
          /\ trail' = Record([j \in stale |-> ReapEvent(j)])
    BY <1>11 DEF ReapExpired
  <2>2. ASSUME NEW j \in stale
        PROVE  j \in Job /\ Fail(jobs[j], MaxAttempts[j], keeper[w].now) \in Row
    <3>1. j \in Job /\ jobs[j].state = "running"
      BY <2>1, <2>2, ReclaimedAreExpired DEF CanReclaim
    <3>2. jobs[j].attempt \in 1..MaxAttempts[j] /\ keeper[w].now \in Nat
      BY <3>1 DEF AttemptBudget, KeeperState
    <3> QED
      BY <3>1, <3>2, FailRow
  <2>3. jobs' \in [Job -> Row]
    BY <2>1, <2>2
  <2>4. trail' \in [Job \cup Batch -> Seq(EventType)]
    BY <2>1, RecordType DEF ReapEvent, EventType, JobEvent
  <2>5. keeper' \in [Worker -> KeeperState]
    BY <1>11 DEF ReapExpired, KeeperState
  <2> QED
    BY <1>11, <2>3, <2>4, <2>5 DEF ReapExpired
<1>12. ASSUME NEW w \in Worker, CloseCompletedBatches(w) PROVE TypeOK'
  <2>1. PICK done \in ListCompletable(CloseLimit) :
          /\ batch' = [b \in Batch |-> IF b \in done THEN "done" ELSE batch[b]]
          /\ trail' = Record([b \in done |-> "batch.completed"])
    BY <1>12 DEF CloseCompletedBatches
  <2>2. trail' \in [Job \cup Batch -> Seq(EventType)]
    BY <2>1, RecordType DEF EventType, BatchEvent
  <2>3. batch' \in [Batch -> BatchState]
    BY <2>1 DEF BatchState
  <2> QED
    BY <1>12, <2>2, <2>3, IdleTypes DEF CloseCompletedBatches
<1>13. ASSUME NEW w \in Worker, Crash(w) PROVE TypeOK'
  BY <1>13 DEF Crash, SlotState, SlotPc, IdleSlot, KeeperState, IdleKeeper
<1>14. ASSUME NEW w \in Worker, Signal(w) \/ Exit(w) \/ Restart(w) PROVE TypeOK'
  BY <1>14 DEF Signal, Exit, Restart
<1>15. CASE Tick
  BY <1>15 DEF Tick, TimeMayPass
<1>16. CASE UNCHANGED vars
  BY <1>16 DEF vars
<1> HIDE DEF TypeOK
<1> QED
  BY <1>1, <1>2, <1>3, <1>4, <1>5, <1>6, <1>7, <1>8, <1>9, <1>10, <1>11, <1>12, <1>13, <1>14,
     <1>15, <1>16 DEF Next

-----------------------------------------------------------------------------
(* What slots and keepers remember. *)

LEMMA SlotsHaveJobsStep ==
  ASSUME TypeOK, SlotsHaveJobs, [Next]_vars
  PROVE  SlotsHaveJobs'
<1> USE DEF SlotsHaveJobs, Occupied
<1> slot \in [Slot -> SlotState]
  BY DEF TypeOK
<1>1. ASSUME NEW s \in Slot, Poll(s) PROVE SlotsHaveJobs'
  BY <1>1 DEF Poll, IdleSlot
<1>2. ASSUME NEW s \in Slot, ClaimJob(s) PROVE SlotsHaveJobs'
  BY <1>2 DEF ClaimJob, NextClaim, Claimable
<1>3. ASSUME NEW s \in Slot, NEW outcome \in {"ok", "err"}, ExecutorReturns(s, outcome)
      PROVE SlotsHaveJobs'
  <2>1. slot'[s].job = slot[s].job
    BY <1>3 DEF ExecutorReturns, SlotState
  <2>2. slot[s].pc = "run" /\ \A t \in Slot : t # s => slot'[t] = slot[t]
    BY <1>3 DEF ExecutorReturns
  <2> QED
    BY <2>1, <2>2
<1>4. ASSUME NEW s \in Slot, slot' = [slot EXCEPT ![s] = IdleSlot] PROVE SlotsHaveJobs'
  BY <1>4 DEF IdleSlot
<1>5. ASSUME NEW w \in Worker, Crash(w) PROVE SlotsHaveJobs'
  BY <1>5 DEF Crash, IdleSlot
<1>6. CASE UNCHANGED slot
  BY <1>6
<1> QED
  BY <1>1, <1>2, <1>3, <1>4, <1>5, <1>6
  DEF Next, vars, SubmitBatch, CancelBatch, ClaimNothing, SettleSuccess, SettleFailure,
      DiscardResult, SlotTxFails, KeeperTick, ReapExpired, CloseCompletedBatches, KeeperTxFails,
      Signal, Exit, Restart, Tick

LEMMA ReadingsStep ==
  ASSUME TypeOK, ReadingsArePast, [Next]_vars
  PROVE  ReadingsArePast'
<1> USE DEF ReadingsArePast
<1> /\ slot \in [Slot -> SlotState] /\ keeper \in [Worker -> KeeperState] /\ clock \in Nat
    /\ \A s \in Slot : slot[s].now \in Nat
    /\ \A w \in Worker : keeper[w].now \in Nat
  BY DEF TypeOK, SlotState, KeeperState
<1>1. ASSUME NEW s \in Slot, Poll(s) PROVE ReadingsArePast'
  BY <1>1 DEF Poll, IdleSlot
<1>2. ASSUME NEW s \in Slot, ClaimJob(s) PROVE ReadingsArePast'
  BY <1>2 DEF ClaimJob
<1>3. ASSUME NEW s \in Slot, NEW outcome \in {"ok", "err"}, ExecutorReturns(s, outcome)
      PROVE ReadingsArePast'
  <2>1. slot'[s].now = clock
    BY <1>3 DEF ExecutorReturns, SlotState
  <2>2. /\ \A t \in Slot : t # s => slot'[t] = slot[t]
        /\ UNCHANGED <<clock, keeper>>
    BY <1>3 DEF ExecutorReturns
  <2> QED
    BY <2>1, <2>2
<1>4. ASSUME NEW s \in Slot, slot' = [slot EXCEPT ![s] = IdleSlot], UNCHANGED <<clock, keeper>>
      PROVE ReadingsArePast'
  BY <1>4 DEF IdleSlot
<1>5. ASSUME NEW w \in Worker, Crash(w) PROVE ReadingsArePast'
  BY <1>5 DEF Crash, IdleSlot, IdleKeeper
<1>6. ASSUME NEW w \in Worker, KeeperTick(w) \/ ReapExpired(w) \/ CloseCompletedBatches(w)
                               \/ KeeperTxFails(w)
      PROVE ReadingsArePast'
  <2>1. /\ \A v \in Worker : v # w => keeper'[v] = keeper[v]
        /\ keeper'[w].now = clock \/ keeper'[w].now = 0
        /\ UNCHANGED <<clock, slot>>
    BY <1>6 DEF KeeperTick, ReapExpired, CloseCompletedBatches, KeeperTxFails, IdleKeeper
  <2> QED
    BY <2>1
<1>7. CASE Tick
  BY <1>7 DEF Tick
<1>8. CASE UNCHANGED <<clock, slot, keeper>>
  BY <1>8
<1> QED
  BY <1>1, <1>2, <1>3, <1>4, <1>5, <1>6, <1>7, <1>8
  DEF Next, vars, SubmitBatch, CancelBatch, ClaimNothing, SettleSuccess, SettleFailure,
      DiscardResult, SlotTxFails, Signal, Exit, Restart

-----------------------------------------------------------------------------
(* What any step of the system may do to a job. *)

(* The moves a job can make: those of the diagram in job.go, with what     *)
(* they do to the attempt counter, and the only step that makes a job      *)
(* running.                                                                *)
JobTransition(j) ==
  LET old == jobs[j]
      new == jobs'[j]
  IN \/ new = old
     \/ /\ old.state = "absent" /\ new.state = "pending" /\ new.attempt = 0
        /\ SubmitBatch(BatchOf[j])
     \/ /\ old.state = "pending" /\ new.state = "running" /\ new.attempt = old.attempt + 1
        /\ \E s \in Slot : ClaimJob(s)
     \/ old.state = "running" /\ new.state = "succeeded" /\ new.attempt = old.attempt
     \/ /\ old.state = "running" /\ new.state = "pending" /\ new.attempt = old.attempt
        /\ old.attempt < MaxAttempts[j]
     \/ /\ old.state = "running" /\ new.state = "dead" /\ new.attempt = old.attempt
        /\ old.attempt >= MaxAttempts[j]
     \/ /\ old.state \in {"pending", "running"} /\ new.state = "canceled"
        /\ new.attempt = old.attempt
        /\ CancelBatch(BatchOf[j])

LEMMA FailedTransition ==
  ASSUME TypeOK, AttemptBudget, NEW j \in Job, jobs[j].state = "running", NEW now \in Nat,
         jobs'[j] = Fail(jobs[j], MaxAttempts[j], now)
  PROVE  JobTransition(j)
<1>1. jobs[j] \in Row /\ jobs[j].attempt \in 1..MaxAttempts[j] /\ MaxAttempts[j] \in Nat
  BY AttemptAssumption DEF TypeOK, AttemptBudget
<1> QED
  BY <1>1, FailRow DEF JobTransition

LEMMA JobStep ==
  ASSUME TypeOK, SlotsHaveJobs, JobsComeWithBatch, AttemptBudget, [Next]_vars, NEW j \in Job
  PROVE  JobTransition(j)
<1> /\ jobs \in [Job -> Row] /\ slot \in [Slot -> SlotState] /\ keeper \in [Worker -> KeeperState]
    /\ jobs[j] \in Row /\ clock \in Nat
  BY DEF TypeOK
<1>1. ASSUME NEW b \in Batch, SubmitBatch(b) PROVE JobTransition(j)
  <2>1. PICK now \in 1..clock :
          jobs' = [i \in Job |-> IF BatchOf[i] = b THEN NewJob(NotBefore[b], now) ELSE jobs[i]]
    BY <1>1 DEF SubmitBatch
  <2>2. CASE BatchOf[j] = b
    <3>1. jobs[j].state = "absent"
      BY <1>1, <2>2 DEF SubmitBatch, JobsComeWithBatch
    <3>2. jobs'[j].state = "pending" /\ jobs'[j].attempt = 0
      BY <2>1, <2>2, NewJobRow, SchedulerAssumption
    <3> QED
      BY <1>1, <2>2, <3>1, <3>2 DEF JobTransition
  <2>3. CASE BatchOf[j] # b
    BY <2>1, <2>3 DEF JobTransition
  <2> QED
    BY <2>2, <2>3
<1>2. ASSUME NEW b \in Batch, CancelBatch(b) PROVE JobTransition(j)
  <2>1. jobs' = CancelByBatch(b)
    BY <1>2 DEF CancelBatch
  <2>2. CASE BatchOf[j] = b /\ jobs[j].state \in {"pending", "running"}
    <3>1. jobs'[j] = Cancel(jobs[j])
      BY <2>1, <2>2 DEF CancelByBatch
    <3>2. jobs'[j].state = "canceled" /\ jobs'[j].attempt = jobs[j].attempt
      BY <2>2, <3>1 DEF Cancel, ClearLease, IsTerminal, TerminalState, Row
    <3> QED
      BY <1>2, <2>2, <3>2 DEF JobTransition
  <2>3. CASE ~(BatchOf[j] = b /\ jobs[j].state \in {"pending", "running"})
    BY <2>1, <2>3 DEF CancelByBatch, JobTransition
  <2> QED
    BY <2>2, <2>3
<1>3. ASSUME NEW s \in Slot, ClaimJob(s) PROVE JobTransition(j)
  <2>1. PICK i \in NextClaim(Serves(s), slot[s].now) :
          jobs' = [jobs EXCEPT ![i] = Claim(jobs[i], OwnerId(s), slot[s].now)]
    BY <1>3 DEF ClaimJob
  <2>2. i \in Job /\ jobs[i].state = "pending" /\ slot[s].now \in Nat /\ OwnerId(s) \in WorkerId
    BY SlotParts DEF NextClaim, Claimable, SlotState
  <2>3. CASE i = j
    <3>1. jobs'[j].state = "running" /\ jobs'[j].attempt = jobs[j].attempt + 1
      BY <2>1, <2>2, <2>3, ClaimRow
    <3> QED
      BY <1>3, <2>2, <2>3, <3>1 DEF JobTransition
  <2>4. CASE i # j
    BY <2>1, <2>4 DEF JobTransition
  <2> QED
    BY <2>3, <2>4
<1>4. ASSUME NEW s \in Slot, SettleSuccess(s) PROVE JobTransition(j)
  <2>1. CASE slot[s].job = j
    <3>1. jobs[j].state = "running" /\ jobs'[j] = Succeed(jobs[j])
      BY <1>4, <2>1 DEF SettleSuccess, HeldBy
    <3>2. jobs'[j].state = "succeeded" /\ jobs'[j].attempt = jobs[j].attempt
      BY <3>1 DEF Succeed, ClearLease, Row
    <3> QED
      BY <3>1, <3>2 DEF JobTransition
  <2>2. CASE slot[s].job # j
    BY <1>4, <2>2 DEF SettleSuccess, JobTransition
  <2> QED
    BY <2>1, <2>2
<1>5. ASSUME NEW s \in Slot, SettleFailure(s) PROVE JobTransition(j)
  <2>1. CASE slot[s].job = j
    <3>1. jobs[j].state = "running" /\ slot[s].now \in Nat
          /\ jobs'[j] = Fail(jobs[j], MaxAttempts[j], slot[s].now)
      BY <1>5, <2>1 DEF SettleFailure, HeldBy, SlotState
    <3> QED
      BY <3>1, FailedTransition
  <2>2. CASE slot[s].job # j
    BY <1>5, <2>2 DEF SettleFailure, JobTransition
  <2> QED
    BY <2>1, <2>2
<1>6. ASSUME NEW w \in Worker, ReapExpired(w) PROVE JobTransition(j)
  <2>1. PICK stale \in ReclaimExpired(keeper[w].now, ReapLimit) :
          jobs' = [i \in Job |-> IF i \in stale
                                 THEN Fail(jobs[i], MaxAttempts[i], keeper[w].now) ELSE jobs[i]]
    BY <1>6 DEF ReapExpired
  <2>2. CASE j \in stale
    <3>1. jobs[j].state = "running" /\ keeper[w].now \in Nat
      BY <2>2, ReclaimedAreExpired DEF CanReclaim, KeeperState
    <3> QED
      BY <2>1, <2>2, <3>1, FailedTransition
  <2>3. CASE j \notin stale
    BY <2>1, <2>3 DEF JobTransition
  <2> QED
    BY <2>2, <2>3
<1>7. CASE UNCHANGED jobs
  BY <1>7 DEF JobTransition
<1> QED
  BY <1>1, <1>2, <1>3, <1>4, <1>5, <1>6, <1>7
  DEF Next, vars, Poll, ClaimNothing, ExecutorReturns, DiscardResult, SlotTxFails, KeeperTick,
      CloseCompletedBatches, KeeperTxFails, Crash, Signal, Exit, Restart, Tick

LEMMA AttemptBudgetStep ==
  ASSUME TypeOK, TypeOK', AttemptBudget, \A j \in Job : JobTransition(j)
  PROVE  AttemptBudget'
<1> SUFFICES ASSUME NEW j \in Job
             PROVE  /\ jobs'[j].state = "pending" => jobs'[j].attempt < MaxAttempts[j]
                    /\ jobs'[j].state \in {"running", "succeeded"} =>
                         jobs'[j].attempt \in 1..MaxAttempts[j]
                    /\ jobs'[j].state = "dead" => jobs'[j].attempt = MaxAttempts[j]
  BY DEF AttemptBudget
<1>1. jobs[j].attempt \in Nat /\ jobs'[j].attempt \in Nat /\ MaxAttempts[j] \in Nat \ {0}
  BY AttemptAssumption DEF TypeOK, Row
<1>2. JobTransition(j)
  OBVIOUS
<1> QED
  BY <1>1, <1>2 DEF JobTransition, AttemptBudget

(* Only SubmitBatch takes a job or a batch out of "absent", and it takes   *)
(* the batch and all of its jobs.                                          *)
LEMMA JobsComeWithBatchStep ==
  ASSUME TypeOK, JobsComeWithBatch, \A j \in Job : JobTransition(j), [Next]_vars
  PROVE  JobsComeWithBatch'
<1> SUFFICES ASSUME NEW j \in Job
             PROVE  batch'[BatchOf[j]] = "absent" <=> jobs'[j].state = "absent"
  BY DEF JobsComeWithBatch
<1> /\ BatchOf[j] \in Batch /\ batch \in [Batch -> BatchState]
    /\ batch[BatchOf[j]] = "absent" <=> jobs[j].state = "absent"
  BY TopologyAssumption DEF TypeOK, JobsComeWithBatch
<1>1. CASE SubmitBatch(BatchOf[j])
  <2>1. PICK now \in 1..clock : jobs'[j] = NewJob(NotBefore[BatchOf[j]], now)
    BY <1>1 DEF SubmitBatch
  <2>2. NotBefore[BatchOf[j]] \in Nat /\ now \in Nat
    BY SchedulerAssumption DEF TypeOK
  <2>3. jobs'[j].state = "pending"
    BY <2>1, <2>2, NewJobRow
  <2>4. batch'[BatchOf[j]] = "open"
    BY <1>1 DEF SubmitBatch
  <2> QED
    BY <2>3, <2>4
<1>2. CASE ~SubmitBatch(BatchOf[j])
  <2>1. jobs'[j].state = "absent" <=> jobs[j].state = "absent"
    BY <1>2 DEF JobTransition
  <2>2. ASSUME NEW b \in Batch, SubmitBatch(b) \/ CancelBatch(b)
        PROVE batch'[BatchOf[j]] = "absent" <=> batch[BatchOf[j]] = "absent"
    BY <1>2, <2>2 DEF SubmitBatch, CancelBatch
  <2>3. ASSUME NEW w \in Worker, CloseCompletedBatches(w)
        PROVE batch'[BatchOf[j]] = "absent" <=> batch[BatchOf[j]] = "absent"
    BY <2>3 DEF CloseCompletedBatches, ListCompletable, Limited
  <2>4. CASE UNCHANGED batch
    BY <2>1, <2>4
  <2> QED
    BY <2>1, <2>2, <2>3, <2>4
    DEF Next, vars, Poll, ClaimJob, ClaimNothing, ExecutorReturns, SettleSuccess, SettleFailure,
        DiscardResult, SlotTxFails, KeeperTick, ReapExpired, KeeperTxFails, Crash, Signal, Exit,
        Restart, Tick
<1> QED
  BY <1>1, <1>2

(* Rows in a terminal state do not change. *)
LEMMA TerminalStep ==
  ASSUME NEW j \in Job, JobTransition(j), IsTerminal(jobs[j])
  PROVE  jobs'[j] = jobs[j]
BY DEF JobTransition, IsTerminal, TerminalState

LEMMA BatchSettledStep ==
  ASSUME TypeOK, TypeOK', JobsComeWithBatch, JobsComeWithBatch', BatchSettled,
         \A j \in Job : JobTransition(j), [Next]_vars
  PROVE  BatchSettled'
<1> SUFFICES ASSUME NEW j \in Job, batch'[BatchOf[j]] \in {"done", "canceled"}
             PROVE  IsTerminal(jobs'[j])
  BY DEF BatchSettled, IsTerminal
<1> /\ BatchOf[j] \in Batch /\ batch \in [Batch -> BatchState] /\ jobs \in [Job -> Row]
    /\ jobs'[j].state \in JobState /\ jobs[j].state \in JobState
  BY TopologyAssumption DEF TypeOK, Row
<1>1. CASE batch[BatchOf[j]] \in {"done", "canceled"}
  BY <1>1, TerminalStep DEF BatchSettled
<1>2. ASSUME NEW b \in Batch, CancelBatch(b), b = BatchOf[j] PROVE IsTerminal(jobs'[j])
  <2>1. jobs'[j] = IF jobs[j].state \in {"pending", "running"} THEN Cancel(jobs[j]) ELSE jobs[j]
    BY <1>2 DEF CancelBatch, CancelByBatch
  <2>2. jobs[j].state # "absent"
    BY <1>2 DEF CancelBatch, JobsComeWithBatch
  <2>3. Cancel(jobs[j]).state \in TerminalState
    BY DEF Cancel, ClearLease, IsTerminal, TerminalState, TypeOK, Row
  <2> QED
    BY <2>1, <2>2, <2>3 DEF IsTerminal, JobState
<1>3. ASSUME NEW w \in Worker, CloseCompletedBatches(w), batch'[BatchOf[j]] # batch[BatchOf[j]]
      PROVE  IsTerminal(jobs'[j])
  <2>1. batch[BatchOf[j]] = "open" /\ jobs[j].state \notin {"pending", "running"}
    BY <1>3 DEF CloseCompletedBatches, ListCompletable, Limited
  <2>2. jobs[j].state # "absent" /\ jobs'[j] = jobs[j]
    BY <1>3, <2>1 DEF JobsComeWithBatch, CloseCompletedBatches
  <2> QED
    BY <2>1, <2>2 DEF IsTerminal, JobState
<1>4. CASE batch'[BatchOf[j]] = batch[BatchOf[j]]
  BY <1>1, <1>4
<1>5. ASSUME NEW b \in Batch, SubmitBatch(b) \/ CancelBatch(b), b # BatchOf[j]
      PROVE batch'[BatchOf[j]] = batch[BatchOf[j]]
  BY <1>5 DEF SubmitBatch, CancelBatch
<1>6. ASSUME NEW b \in Batch, SubmitBatch(b), b = BatchOf[j] PROVE FALSE
  BY <1>6 DEF SubmitBatch
<1> QED
  BY <1>2, <1>3, <1>4, <1>5, <1>6
  DEF Next, vars, Poll, ClaimJob, ClaimNothing, ExecutorReturns, SettleSuccess, SettleFailure,
      DiscardResult, SlotTxFails, KeeperTick, ReapExpired, KeeperTxFails, Crash, Signal, Exit,
      Restart, Tick

-----------------------------------------------------------------------------
(* Lane capacity. *)

LEMMA BusyFinite ==
  ASSUME NEW l, NEW t
  PROVE  IsFiniteSet(Busy(l, t)) /\ Cardinality(Busy(l, t)) \in Nat
BY TopologyAssumption, FS_Subset, FS_CardinalityType DEF Busy

LEMMA AddOne ==
  ASSUME NEW S, NEW x, IsFiniteSet(S)
  PROVE  IsFiniteSet(S \cup {x}) /\ Cardinality(S \cup {x}) <= Cardinality(S) + 1
<1>1. Cardinality(S) \in Nat
  BY FS_CardinalityType
<1>2. /\ IsFiniteSet(S \cup {x})
      /\ Cardinality(S \cup {x}) = IF x \in S THEN Cardinality(S) ELSE Cardinality(S) + 1
  BY FS_AddElement
<1> QED
  BY <1>1, <1>2

(* Without a claim no lease becomes live: the live leases only shrink. *)
LEMMA BusyShrinks ==
  ASSUME TypeOK, TypeOK', \A j \in Job : JobTransition(j), ~\E s \in Slot : ClaimJob(s),
         clock <= clock', NEW l \in Lane
  PROVE  Busy(l, clock)' \subseteq Busy(l, clock)
<1> SUFFICES ASSUME NEW j \in Job, LaneOf[j] = l, jobs'[j].state = "running",
                    jobs'[j].leaseExpires > clock'
             PROVE  jobs[j].state = "running" /\ jobs[j].leaseExpires > clock
  BY DEF Busy
<1>1. jobs'[j] = jobs[j]
  BY DEF JobTransition
<1>2. clock \in Nat /\ clock' \in Nat /\ jobs[j].leaseExpires \in Nat
  BY DEF TypeOK, Row
<1> QED
  BY <1>1, <1>2

(* The clock stands still or moves on. *)
LEMMA ClockStep ==
  ASSUME [Next]_vars
  PROVE  clock' = clock \/ clock' = clock + 1
BY DEF Next, vars, SubmitBatch, CancelBatch, Poll, ClaimJob, ClaimNothing, ExecutorReturns,
    SettleSuccess, SettleFailure, DiscardResult, SlotTxFails, KeeperTick, ReapExpired,
    CloseCompletedBatches, KeeperTxFails, Crash, Signal, Exit, Restart, Tick

LEMMA LaneCapacityStep ==
  ASSUME TypeOK, TypeOK', ReadingsArePast, LaneCapacity, \A j \in Job : JobTransition(j),
         [Next]_vars
  PROVE  LaneCapacity'
<1> SUFFICES ASSUME NEW l \in Lane
             PROVE  Cardinality(Busy(l, clock)') <= Capacity[l]
  BY DEF LaneCapacity, Busy
<1> Capacity[l] \in Nat /\ clock \in Nat /\ jobs \in [Job -> Row]
  BY TopologyAssumption DEF TypeOK
<1>1. ASSUME NEW s \in Slot, ClaimJob(s) PROVE Cardinality(Busy(l, clock)') <= Capacity[l]
  <2>1. PICK j \in NextClaim(Serves(s), slot[s].now) :
          jobs' = [jobs EXCEPT ![j] = Claim(jobs[j], OwnerId(s), slot[s].now)]
    BY <1>1 DEF ClaimJob
  <2>2. j \in Job /\ LaneOf[j] = Serves(s)
    BY DEF NextClaim, Claimable
  <2>3. clock' = clock
    BY <1>1 DEF ClaimJob
  <2>4. CASE l = Serves(s)
    <3> DEFINE counted == Busy(l, slot[s].now)
    <3>1. slot[s].now <= clock /\ slot[s].now \in Nat
      BY DEF ReadingsArePast, TypeOK, SlotState
    <3>2. Busy(l, clock)' \subseteq counted \cup {j}
      <4>1. ASSUME NEW i \in Job, i # j, jobs'[i].leaseExpires > clock
            PROVE  jobs'[i] = jobs[i] /\ jobs[i].leaseExpires > slot[s].now
        BY <2>1, <3>1, <4>1 DEF Row
      <4> QED
        BY <2>3, <4>1 DEF Busy
    <3>3. Cardinality(counted) < Capacity[l]
      BY <1>1, <2>4 DEF ClaimJob, HasRoom
    <3>4. IsFiniteSet(counted) /\ Cardinality(counted) \in Nat
      BY BusyFinite
    <3>5. /\ IsFiniteSet(counted \cup {j})
          /\ Cardinality(counted \cup {j}) <= Cardinality(counted) + 1
      BY <3>4, AddOne
    <3>6. Cardinality(Busy(l, clock)') <= Cardinality(counted \cup {j})
      BY <3>2, <3>5, FS_Subset
    <3>7. IsFiniteSet(Busy(l, clock)') /\ Cardinality(Busy(l, clock)') \in Nat
          /\ Cardinality(counted \cup {j}) \in Nat
      BY <3>2, <3>5, FS_Subset, FS_CardinalityType
    <3> HIDE DEF counted
    <3> QED
      BY <3>3, <3>4, <3>5, <3>6, <3>7
  <2>5. CASE l # Serves(s)
    <3>1. Busy(l, clock)' = Busy(l, clock)
      BY <2>1, <2>2, <2>3, <2>5 DEF Busy
    <3> QED
      BY <3>1 DEF LaneCapacity
  <2> QED
    BY <2>4, <2>5
<1>2. CASE ~\E s \in Slot : ClaimJob(s)
  <2>1. clock' = clock \/ clock' = clock + 1
    BY ClockStep
  <2>2. Busy(l, clock)' \subseteq Busy(l, clock)
    BY <1>2, <2>1, BusyShrinks
  <2>3. IsFiniteSet(Busy(l, clock)) /\ Cardinality(Busy(l, clock)) \in Nat
    BY BusyFinite
  <2>4. /\ Cardinality(Busy(l, clock)') <= Cardinality(Busy(l, clock))
        /\ Cardinality(Busy(l, clock)') \in Nat
    BY <2>2, <2>3, FS_Subset, FS_CardinalityType
  <2>5. Cardinality(Busy(l, clock)) <= Capacity[l]
    BY DEF LaneCapacity
  <2> QED
    BY <2>3, <2>4, <2>5
<1> QED
  BY <1>1, <1>2

-----------------------------------------------------------------------------
(* The theorems. *)

LEMMA TableInit == Init => TableInv
<1> SUFFICES ASSUME Init PROVE TableInv
  OBVIOUS
<1> USE DEF Init
<1>1. NoRow \in Row /\ <<>> \in Seq(EventType)
  BY DEF NoRow, Row, JobState
<1>2. TypeOK
  BY <1>1, IdleTypes DEF TypeOK, BatchState
<1>3. \A l \in Lane : Busy(l, clock) = {}
  BY DEF Busy, NoRow
<1>4. LaneCapacity
  <2>1. Cardinality({}) = 0 /\ \A l \in Lane : 0 <= Capacity[l]
    BY FS_EmptySet, TopologyAssumption
  <2> QED
    BY <1>3, <2>1 DEF LaneCapacity
<1>5. AttemptBudget /\ JobsComeWithBatch /\ BatchSettled
  BY TopologyAssumption DEF AttemptBudget, JobsComeWithBatch, BatchSettled, NoRow
<1>6. SlotsHaveJobs /\ ReadingsArePast
  BY DEF SlotsHaveJobs, ReadingsArePast, Occupied, IdleSlot, IdleKeeper
<1> QED
  BY <1>2, <1>4, <1>5, <1>6 DEF TableInv

LEMMA TableStep == TableInv /\ [Next]_vars => TableInv' /\ \A j \in Job : JobTransition(j)
<1> SUFFICES ASSUME TableInv, [Next]_vars
             PROVE  TableInv' /\ \A j \in Job : JobTransition(j)
  OBVIOUS
<1> USE DEF TableInv
<1>1. TypeOK'
  BY TypeStep
<1>2. \A j \in Job : JobTransition(j)
  BY JobStep
<1>3. SlotsHaveJobs' /\ ReadingsArePast'
  BY SlotsHaveJobsStep, ReadingsStep
<1>4. JobsComeWithBatch'
  BY <1>2, JobsComeWithBatchStep
<1>5. AttemptBudget'
  BY <1>1, <1>2, AttemptBudgetStep
<1>6. LaneCapacity'
  BY <1>1, <1>2, LaneCapacityStep
<1>7. BatchSettled'
  BY <1>1, <1>2, <1>4, BatchSettledStep
<1> QED
  BY <1>1, <1>2, <1>3, <1>4, <1>5, <1>6, <1>7

(* The inductive invariant: the tables stay well-formed and consistent     *)
(* with one another whatever the processes, the store and the clock do.    *)
THEOREM TablesConsistent == Spec => []TableInv
BY TableInit, TableStep, PTL DEF Spec

(* Every variable keeps its type. *)
THEOREM TypeCorrect == Spec => []TypeOK
<1>1. TableInv => TypeOK
  BY DEF TableInv
<1> QED
  BY <1>1, TablesConsistent, PTL

(* Retries are bounded for every job, under every failure. *)
THEOREM RetriesBounded == Spec => []AttemptBudget
<1>1. TableInv => AttemptBudget
  BY DEF TableInv
<1> QED
  BY <1>1, TablesConsistent, PTL

(* The lane capacity is never exceeded by live leases, for any number of   *)
(* processes and any delay between a clock reading and its transaction.    *)
THEOREM CapacityKept == Spec => []LaneCapacity
<1>1. TableInv => LaneCapacity
  BY DEF TableInv
<1> QED
  BY <1>1, TablesConsistent, PTL

(* A closed batch has only finished jobs. *)
THEOREM ClosedBatchesSettled == Spec => []BatchSettled
<1>1. TableInv => BatchSettled
  BY DEF TableInv
<1> QED
  BY <1>1, TablesConsistent, PTL

(* Terminal states are final: no late result, reap or cancel moves a job   *)
(* out of one.                                                             *)
THEOREM TerminalStatesFinal == Spec => TerminalFinal
<1>1. ASSUME TableInv, [Next]_vars
      PROVE  [\A j \in Job : IsTerminal(jobs[j]) => jobs'[j] = jobs[j]]_vars
  BY <1>1, TableStep, TerminalStep
<1> QED
  BY <1>1, TablesConsistent, PTL DEF Spec, TerminalFinal

(* A job whose lease is live leaves "running" unfinished only in one way:  *)
(* a slot of the process that holds it reports a failure.                  *)
LEMMA ReclaimStep ==
  ASSUME TableInv, TypeOK', [Next]_vars,
         NEW j \in Job, jobs[j].state = "running", clock < jobs[j].leaseExpires,
         jobs'[j].state \in {"pending", "dead"}
  PROVE  \E s \in Slot : /\ slot[s].pc = "err" /\ slot'[s].pc = "idle"
                         /\ slot[s].job = j /\ OwnerId(s) = jobs[j].leaseOwner
<1> /\ jobs \in [Job -> Row] /\ slot \in [Slot -> SlotState] /\ keeper \in [Worker -> KeeperState]
    /\ clock \in Nat /\ jobs[j].leaseExpires \in Nat
  BY DEF TableInv, TypeOK, Row
<1>1. ASSUME NEW s \in Slot, SettleFailure(s), slot[s].job = j
      PROVE  /\ slot[s].pc = "err" /\ slot'[s].pc = "idle"
             /\ slot[s].job = j /\ OwnerId(s) = jobs[j].leaseOwner
  BY <1>1 DEF SettleFailure, HeldBy, IdleSlot
<1>2. ASSUME NEW w \in Worker, ReapExpired(w) PROVE FALSE
  <2>1. PICK stale \in ReclaimExpired(keeper[w].now, ReapLimit) :
          jobs' = [i \in Job |-> IF i \in stale
                                 THEN Fail(jobs[i], MaxAttempts[i], keeper[w].now) ELSE jobs[i]]
    BY <1>2 DEF ReapExpired
  <2>2. j \in stale
    BY <2>1
  <2>3. jobs[j].leaseExpires <= keeper[w].now
    BY <2>2, ReclaimedAreExpired DEF CanReclaim
  <2>4. keeper[w].now <= clock /\ keeper[w].now \in Nat
    BY DEF TableInv, ReadingsArePast, KeeperState
  <2> QED
    BY <2>3, <2>4
<1>3. ASSUME jobs'[j] = jobs[j] PROVE FALSE
  BY <1>3
<1>4. ASSUME NEW b \in Batch, SubmitBatch(b) PROVE FALSE
  <2>1. BatchOf[j] # b
    BY <1>4 DEF SubmitBatch, TableInv, JobsComeWithBatch
  <2> QED
    BY <1>3, <1>4, <2>1 DEF SubmitBatch
<1>5. ASSUME NEW b \in Batch, CancelBatch(b) PROVE FALSE
  <2>1. jobs'[j] = jobs[j] \/ jobs'[j] = Cancel(jobs[j])
    BY <1>5 DEF CancelBatch, CancelByBatch
  <2>2. Cancel(jobs[j]).state = "canceled"
    BY DEF Cancel, ClearLease, IsTerminal, TerminalState, Row
  <2> QED
    BY <1>3, <2>1, <2>2
<1>6. ASSUME NEW s \in Slot, ClaimJob(s) PROVE FALSE
  <2>1. \E i \in Job : i # j /\ jobs' = [jobs EXCEPT ![i] = Claim(jobs[i], OwnerId(s), slot[s].now)]
    BY <1>6 DEF ClaimJob, NextClaim, Claimable
  <2> QED
    BY <1>3, <2>1
<1>7. ASSUME NEW s \in Slot, SettleSuccess(s) PROVE FALSE
  <2>1. jobs'[j] = jobs[j] \/ jobs'[j] = Succeed(jobs[j])
    BY <1>7 DEF SettleSuccess
  <2>2. Succeed(jobs[j]).state = "succeeded"
    BY DEF Succeed, ClearLease, Row
  <2> QED
    BY <1>3, <2>1, <2>2
<1>8. ASSUME NEW s \in Slot, SettleFailure(s), slot[s].job # j PROVE FALSE
  BY <1>3, <1>8 DEF SettleFailure
<1> QED
  BY <1>1, <1>2, <1>3, <1>4, <1>5, <1>6, <1>7, <1>8
  DEF Next, vars, Poll, ClaimNothing, ExecutorReturns, DiscardResult, SlotTxFails, KeeperTick,
      CloseCompletedBatches, KeeperTxFails, Crash, Signal, Exit, Restart, Tick

(* The reaper waits for the lease, even with a clock reading that has gone *)
(* stale while its transaction waited.                                     *)
THEOREM LeasesRespected == Spec => NoPrematureReclaim
<1>1. ASSUME TableInv, [Next]_vars
      PROVE  [\A j \in Job :
                /\ jobs[j].state = "running"
                /\ clock < jobs[j].leaseExpires
                /\ jobs'[j].state \in {"pending", "dead"}
                => \E s \in Slot : /\ slot[s].pc = "err" /\ slot'[s].pc = "idle"
                                   /\ slot[s].job = j /\ OwnerId(s) = jobs[j].leaseOwner]_vars
  <2>1. TypeOK'
    BY <1>1, TableStep DEF TableInv
  <2> QED
    BY <1>1, <2>1, ReclaimStep
<1> QED
  BY <1>1, TablesConsistent, PTL DEF Spec, NoPrematureReclaim
=============================================================================
