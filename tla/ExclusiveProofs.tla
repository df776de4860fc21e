--------------------------- MODULE ExclusiveProofs --------------------------
(***************************************************************************)
(* Proofs about what runs: under the timing assumption Timely, a claim is  *)
(* good until its deadline, no two slots ever work on one job, and the     *)
(* executions under way respect the lane's capacity.                       *)
(*                                                                         *)
(* TimedInv is inductive beside TableInv.  A step either leaves the work   *)
(* of an occupied slot alone or is the claim that gave it its work, and a  *)
(* claim never picks the job of an occupied slot: were it pending, it      *)
(* would be available only after that slot has let go of it.               *)
(***************************************************************************)
EXTENDS SchedulerProofs

Invs == TableInv /\ TimedInv

(* Slot s was and stays occupied with the same attempt. *)
KeepsWork(s) ==
  /\ Occupied(s)
  /\ slot'[s].job = slot[s].job
  /\ slot'[s].attempt = slot[s].attempt
  /\ slot'[s].until = slot[s].until

LEMMA SlotTypes ==
  ASSUME TypeOK, NEW s \in Slot
  PROVE  /\ slot[s] \in SlotState
         /\ slot[s].attempt \in Nat /\ slot[s].until \in Nat /\ slot[s].now \in Nat
BY DEF TypeOK, SlotState

LEMMA TimelyFacts ==
  ASSUME Timely
  PROVE  /\ MaxStall \in Nat /\ LeaseFor \in Nat /\ MaxStall <= LeaseFor
         /\ \A j \in Job : \A a \in 1..MaxAttempts[j] : Backoff[a] \in Nat /\ MaxStall < Backoff[a]
BY SchedulerAssumption, TopologyAssumption, AttemptAssumption DEF Timely

LEMMA WorkStep ==
  ASSUME TypeOK, [Next]_vars, NEW t \in Slot, Occupied(t)'
  PROVE  KeepsWork(t) \/ ClaimJob(t)
<1> slot \in [Slot -> SlotState]
  BY DEF TypeOK
<1>1. ASSUME NEW s \in Slot, Poll(s) PROVE KeepsWork(t)
  BY <1>1 DEF Poll, IdleSlot, KeepsWork, Occupied
<1>2. ASSUME NEW s \in Slot, ClaimJob(s) PROVE KeepsWork(t) \/ ClaimJob(t)
  <2>1. CASE s = t
    BY <1>2, <2>1
  <2>2. CASE s # t
    BY <1>2, <2>2 DEF ClaimJob, KeepsWork, Occupied
  <2> QED
    BY <2>1, <2>2
<1>3. ASSUME NEW s \in Slot, NEW outcome \in {"ok", "err"}, ExecutorReturns(s, outcome)
      PROVE KeepsWork(t)
  <2>1. CASE s = t
    <3>1. slot'[t] = [slot[t] EXCEPT !.pc = outcome, !.now = clock] /\ slot[t].pc = "run"
      BY <1>3, <2>1 DEF ExecutorReturns
    <3> QED
      BY <3>1 DEF KeepsWork, Occupied, SlotState
  <2>2. CASE s # t
    BY <1>3, <2>2 DEF ExecutorReturns, KeepsWork, Occupied
  <2> QED
    BY <2>1, <2>2
<1>4. ASSUME NEW s \in Slot, slot' = [slot EXCEPT ![s] = IdleSlot] PROVE KeepsWork(t)
  BY <1>4 DEF IdleSlot, KeepsWork, Occupied
<1>5. ASSUME NEW w \in Worker, Crash(w) PROVE KeepsWork(t)
  BY <1>5 DEF Crash, IdleSlot, KeepsWork, Occupied
<1>6. CASE UNCHANGED slot
  BY <1>6 DEF KeepsWork, Occupied
<1> QED
  BY <1>1, <1>2, <1>3, <1>4, <1>5, <1>6
  DEF Next, vars, SubmitBatch, CancelBatch, ClaimNothing, SettleSuccess, SettleFailure,
      DiscardResult, SlotTxFails, KeeperTick, ReapExpired, CloseCompletedBatches, KeeperTxFails,
      Signal, Exit, Restart, Tick

(* Past its deadline by no more than MaxStall, a slot has let go. *)
LEMMA LetsGoInTime ==
  ASSUME Timely, Invs, NEW t \in Slot, Occupied(t)
  PROVE  clock <= slot[t].until + MaxStall
<1> /\ slot[t].until \in Nat /\ slot[t].now \in Nat /\ MaxStall \in Nat /\ clock \in Nat
  BY SlotTypes, TimelyFacts DEF Invs, TableInv, TypeOK
<1>1. SlotIsTimely(t)
  BY DEF Invs, TimedInv
<1> QED
  BY <1>1 DEF SlotIsTimely, Occupied

(* Claim never picks a job some slot is still occupied with. *)
LEMMA ClaimIsFree ==
  ASSUME Timely, Invs, NEW s \in Slot, NEW t \in Slot, Occupied(t),
         slot[t].job \in NextClaim(Serves(s), slot[s].now)
  PROVE  FALSE
<1> DEFINE row == jobs[slot[t].job]
<1>1. slot[t].job \in Job /\ row.state = "pending" /\ row.availableAt <= slot[s].now
  BY DEF NextClaim, Claimable
<1>2. row.availableAt > slot[t].until + MaxStall
  BY <1>1 DEF Invs, TimedInv, RowOfAttempt
<1>3. clock <= slot[t].until + MaxStall
  BY LetsGoInTime
<1>4. slot[s].now <= clock
  BY DEF Invs, TableInv, ReadingsArePast
<1>5. row.availableAt \in Nat /\ slot[t].until + MaxStall \in Nat /\ clock \in Nat
      /\ slot[s].now \in Nat
  BY <1>1, SlotTypes, TimelyFacts DEF Invs, TableInv, TypeOK, Row
<1> HIDE DEF row
<1> QED
  BY <1>1, <1>2, <1>3, <1>4, <1>5

LEMMA ExclusiveStep ==
  ASSUME Timely, Invs, [Next]_vars
  PROVE  ExclusiveExecution'
<1> SUFFICES ASSUME NEW s \in Slot, NEW t \in Slot, s # t, Occupied(s)', Occupied(t)'
             PROVE  slot'[s].job # slot'[t].job
  BY DEF ExclusiveExecution, Occupied
<1> TypeOK
  BY DEF Invs, TableInv
<1>1. ASSUME NEW u \in Slot, NEW v \in Slot, u # v, Occupied(v)', ClaimJob(u)
      PROVE  slot'[u].job # slot'[v].job
  <2>1. slot'[v] = slot[v]
    BY <1>1 DEF ClaimJob
  <2>2. slot'[u].job \in NextClaim(Serves(u), slot[u].now)
    BY <1>1 DEF ClaimJob, TypeOK
  <2>3. Occupied(v)
    BY <1>1, <2>1 DEF Occupied
  <2> QED
    BY <2>1, <2>2, <2>3, ClaimIsFree
<1>2. CASE KeepsWork(s) /\ KeepsWork(t)
  BY <1>2 DEF KeepsWork, Invs, TimedInv, ExclusiveExecution
<1> QED
  BY <1>1, <1>2, WorkStep

LEMMA TimelyStep ==
  ASSUME Timely, Invs, [Next]_vars, NEW t \in Slot
  PROVE  SlotIsTimely(t)'
<1> /\ slot \in [Slot -> SlotState] /\ SlotIsTimely(t) /\ clock \in Nat /\ MaxStall \in Nat
    /\ slot[t].now \in Nat /\ slot[t].until \in Nat
  BY SlotTypes, TimelyFacts DEF Invs, TableInv, TypeOK, TimedInv
<1>1. CASE Tick
  <2>1. /\ clock' = clock + 1 /\ slot' = slot
        /\ slot[t].pc = "run" => clock < slot[t].until
        /\ slot[t].pc \in {"claim", "ok", "err"} => clock < slot[t].now + MaxStall
    BY <1>1 DEF Tick, TimeMayPass, Timely
  <2> QED
    BY <2>1 DEF SlotIsTimely
<1>2. ASSUME Poll(t) PROVE SlotIsTimely(t)'
  <2>1. slot'[t].pc = "claim" /\ slot'[t].now = clock /\ clock' = clock
    BY <1>2 DEF Poll, IdleSlot
  <2> QED
    BY <2>1 DEF SlotIsTimely
<1>3. ASSUME ClaimJob(t) PROVE SlotIsTimely(t)'
  <2>1. PICK j \in NextClaim(Serves(t), slot[t].now) :
          slot' = [slot EXCEPT ![t] = [pc |-> "run", job |-> j,
                     attempt |-> Claim(jobs[j], OwnerId(t), slot[t].now).attempt,
                     until |-> Claim(jobs[j], OwnerId(t), slot[t].now).leaseExpires, now |-> 0]]
    BY <1>3 DEF ClaimJob
  <2>2. j \in Job /\ jobs[j] \in Row /\ OwnerId(t) \in WorkerId
    BY SlotParts DEF NextClaim, Claimable, Invs, TableInv, TypeOK
  <2>3. slot'[t].pc = "run" /\ slot'[t].until = slot[t].now + LeaseFor
    BY <2>1, <2>2, ClaimRow
  <2>4. clock <= slot[t].now + MaxStall /\ MaxStall <= LeaseFor /\ LeaseFor \in Nat
    BY <1>3, TimelyFacts DEF ClaimJob, SlotIsTimely
  <2>5. clock' = clock
    BY <1>3 DEF ClaimJob
  <2> QED
    BY <2>3, <2>4, <2>5 DEF SlotIsTimely
<1>4. ASSUME NEW outcome \in {"ok", "err"}, ExecutorReturns(t, outcome) PROVE SlotIsTimely(t)'
  <2>1. /\ slot'[t].pc = outcome /\ slot'[t].now = clock /\ slot'[t].until = slot[t].until
        /\ slot[t].pc = "run" /\ clock' = clock
    BY <1>4 DEF ExecutorReturns, SlotState
  <2> QED
    BY <2>1 DEF SlotIsTimely
<1>5. ASSUME slot'[t] = IdleSlot PROVE SlotIsTimely(t)'
  BY <1>5 DEF SlotIsTimely, IdleSlot
<1>6. ASSUME slot'[t] = slot[t], clock' = clock PROVE SlotIsTimely(t)'
  BY <1>6 DEF SlotIsTimely
<1>7. ASSUME NEW s \in Slot, s # t,
             \/ Poll(s) \/ ClaimJob(s) \/ ClaimNothing(s)
             \/ \E outcome \in {"ok", "err"} : ExecutorReturns(s, outcome)
             \/ SettleSuccess(s) \/ SettleFailure(s) \/ DiscardResult(s) \/ SlotTxFails(s)
      PROVE slot'[t] = slot[t] /\ clock' = clock
  BY <1>7 DEF Poll, ClaimJob, ClaimNothing, ExecutorReturns, SettleSuccess, SettleFailure,
              DiscardResult, SlotTxFails
<1>8. ASSUME ClaimNothing(t) \/ SettleSuccess(t) \/ SettleFailure(t) \/ DiscardResult(t)
             \/ SlotTxFails(t)
      PROVE slot'[t] = IdleSlot
  BY <1>8 DEF ClaimNothing, SettleSuccess, SettleFailure, DiscardResult, SlotTxFails
<1>9. ASSUME NEW w \in Worker, Crash(w)
      PROVE slot'[t] = IdleSlot \/ (slot'[t] = slot[t] /\ clock' = clock)
  BY <1>9 DEF Crash
<1>10. CASE UNCHANGED <<slot, clock>>
  BY <1>6, <1>10
<1> QED
  BY <1>1, <1>2, <1>3, <1>4, <1>5, <1>6, <1>7, <1>8, <1>9, <1>10
  DEF Next, vars, SubmitBatch, CancelBatch, KeeperTick, ReapExpired, CloseCompletedBatches,
      KeeperTxFails, Signal, Exit, Restart

(* The claim itself: the row says what the slot took. *)
LEMMA RowOfClaim ==
  ASSUME Timely, Invs, NEW t \in Slot, ClaimJob(t)
  PROVE  RowOfAttempt(t)'
<1>1. PICK j \in NextClaim(Serves(t), slot[t].now) :
        LET row == Claim(jobs[j], OwnerId(t), slot[t].now)
        IN /\ jobs' = [jobs EXCEPT ![j] = row]
           /\ slot' = [slot EXCEPT ![t] = [pc |-> "run", job |-> j, attempt |-> row.attempt,
                                           until |-> row.leaseExpires, now |-> 0]]
  BY DEF ClaimJob
<1> DEFINE row == Claim(jobs[j], OwnerId(t), slot[t].now)
<1>2. j \in Job /\ LaneOf[j] = Serves(t)
  BY DEF NextClaim, Claimable
<1>3. jobs \in [Job -> Row] /\ slot \in [Slot -> SlotState] /\ slot[t].now \in Nat
      /\ OwnerId(t) \in WorkerId
  BY SlotTypes, SlotParts DEF Invs, TableInv, TypeOK
<1>4. row.state = "running" /\ row.leaseOwner = OwnerId(t)
  BY <1>2, <1>3, ClaimRow
<1>5. /\ jobs'[slot'[t].job] = row /\ slot'[t].attempt = row.attempt
      /\ slot'[t].until = row.leaseExpires /\ slot'[t].job = j
  BY <1>1, <1>2, <1>3
<1> HIDE DEF row
<1> QED
  BY <1>2, <1>4, <1>5 DEF RowOfAttempt

(* A row that says what a slot's attempt needs keeps saying it while the   *)
(* slot keeps the attempt.                                                 *)
LEMMA RowKept ==
  ASSUME Timely, Invs, [Next]_vars, NEW t \in Slot, KeepsWork(t), Occupied(t)'
  PROVE  RowOfAttempt(t)'
<1> DEFINE j == slot[t].job
<1>1. /\ j \in Job /\ slot'[t].job = j /\ slot'[t].attempt = slot[t].attempt
      /\ slot'[t].until = slot[t].until /\ slot[t].until \in Nat /\ clock \in Nat
      /\ MaxStall \in Nat /\ jobs \in [Job -> Row] /\ slot \in [Slot -> SlotState]
      /\ keeper \in [Worker -> KeeperState]
  BY SlotTypes, TimelyFacts DEF KeepsWork, Invs, TableInv, TypeOK, SlotsHaveJobs
<1>2. /\ jobs[j] \in Row /\ jobs[j].attempt = slot[t].attempt
      /\ jobs[j].state \in {"running", "pending", "dead", "canceled"}
      /\ jobs[j].state = "running" => /\ jobs[j].leaseOwner = OwnerId(t)
                                      /\ jobs[j].leaseExpires = slot[t].until
      /\ jobs[j].state = "pending" => jobs[j].availableAt > slot[t].until + MaxStall
      /\ jobs[j].state \in {"pending", "dead"} => slot[t].until <= clock
      /\ LaneOf[j] = Serves(t)
  BY <1>1 DEF KeepsWork, Invs, TimedInv, RowOfAttempt
<1>3. ASSUME NEW s \in Slot, slot'[s] = IdleSlot PROVE s # t
  BY <1>3 DEF Occupied, IdleSlot
<1>4. ASSUME NEW s \in Slot, s # t, slot[s].job = j, Occupied(s) PROVE FALSE
  BY <1>4 DEF KeepsWork, Invs, TimedInv, ExclusiveExecution
<1>5. clock' \in Nat /\ clock <= clock'
  BY <1>1, ClockStep
<1>6. ASSUME jobs'[j] = jobs[j] PROVE RowOfAttempt(t)'
  <2> HIDE DEF j
  <2>1. slot[t].until <= clock => slot[t].until <= clock'
    BY <1>1, <1>5
  <2> QED
    BY <1>1, <1>2, <1>6, <2>1 DEF RowOfAttempt
<1>7. ASSUME NEW b \in Batch, SubmitBatch(b) PROVE jobs'[j] = jobs[j]
  <2>1. BatchOf[j] # b
    BY <1>1, <1>2, <1>7 DEF SubmitBatch, Invs, TableInv, JobsComeWithBatch
  <2> QED
    BY <1>1, <1>7, <2>1 DEF SubmitBatch
<1>8. ASSUME NEW b \in Batch, CancelBatch(b) PROVE RowOfAttempt(t)'
  <2>1. jobs'[j] = jobs[j] \/ (jobs'[j] = Cancel(jobs[j]) /\ jobs[j].state \in {"pending", "running"})
    BY <1>1, <1>8 DEF CancelBatch, CancelByBatch
  <2>2. CASE jobs'[j] = Cancel(jobs[j]) /\ jobs[j].state \in {"pending", "running"}
    <3>1. jobs'[j].state = "canceled" /\ jobs'[j].attempt = jobs[j].attempt
      BY <1>2, <2>2 DEF Cancel, ClearLease, IsTerminal, TerminalState, Row
    <3> QED
      BY <1>1, <1>2, <3>1 DEF RowOfAttempt
  <2> QED
    BY <1>6, <2>1, <2>2
<1>9. ASSUME NEW s \in Slot, ClaimJob(s) PROVE jobs'[j] = jobs[j]
  <2>1. PICK i \in NextClaim(Serves(s), slot[s].now) :
          jobs' = [jobs EXCEPT ![i] = Claim(jobs[i], OwnerId(s), slot[s].now)]
    BY <1>9 DEF ClaimJob
  <2>2. i # j
    BY ClaimIsFree DEF KeepsWork
  <2> QED
    BY <1>1, <2>1, <2>2
<1>10. ASSUME NEW s \in Slot, SettleSuccess(s) \/ SettleFailure(s) PROVE jobs'[j] = jobs[j]
  <2>1. slot'[s] = IdleSlot /\ Occupied(s)
    BY <1>1, <1>10 DEF SettleSuccess, SettleFailure, Occupied
  <2>2. slot[s].job # j
    BY <1>3, <1>4, <2>1
  <2> QED
    BY <1>1, <1>10, <2>2 DEF SettleSuccess, SettleFailure
<1>11. ASSUME NEW w \in Worker, ReapExpired(w) PROVE RowOfAttempt(t)'
  <2>1. PICK stale \in ReclaimExpired(keeper[w].now, ReapLimit) :
          jobs' = [i \in Job |-> IF i \in stale
                                 THEN Fail(jobs[i], MaxAttempts[i], keeper[w].now) ELSE jobs[i]]
    BY <1>11 DEF ReapExpired
  <2>2. CASE j \notin stale
    BY <1>1, <1>6, <2>1, <2>2
  <2>3. CASE j \in stale
    <3>1. jobs[j].state = "running" /\ slot[t].until <= keeper[w].now
      BY <1>2, <2>3, ReclaimedAreExpired DEF CanReclaim
    <3>2. keeper[w].now <= clock /\ keeper[w].now \in Nat
      BY <1>1 DEF Invs, TableInv, ReadingsArePast, KeeperState
    <3>3. jobs[j].attempt \in 1..MaxAttempts[j]
      BY <1>1, <3>1 DEF Invs, TableInv, AttemptBudget
    <3>4. jobs'[j] = Fail(jobs[j], MaxAttempts[j], keeper[w].now)
      BY <1>1, <2>1, <2>3
    <3>5. /\ jobs'[j].attempt = jobs[j].attempt
          /\ \/ jobs'[j].state = "dead"
             \/ /\ jobs'[j].state = "pending"
                /\ jobs'[j].availableAt = keeper[w].now + Backoff[jobs[j].attempt]
      BY <1>1, <1>2, <3>2, <3>3, <3>4, FailRow
    <3>6. Backoff[jobs[j].attempt] \in Nat /\ MaxStall < Backoff[jobs[j].attempt]
      BY <1>1, <3>3, TimelyFacts
    <3>7. keeper[w].now + Backoff[jobs[j].attempt] > slot[t].until + MaxStall
      BY <1>1, <3>1, <3>2, <3>6
    <3>8. slot[t].until <= clock'
      BY <1>1, <1>5, <3>1, <3>2
    <3> HIDE DEF j
    <3> QED
      BY <1>1, <1>2, <3>5, <3>7, <3>8 DEF RowOfAttempt
  <2> QED
    BY <2>2, <2>3
<1>12. CASE UNCHANGED jobs
  BY <1>6, <1>12
<1> QED
  BY <1>6, <1>7, <1>8, <1>9, <1>10, <1>11, <1>12
  DEF Next, vars, Poll, ClaimNothing, ExecutorReturns, DiscardResult, SlotTxFails, KeeperTick,
      CloseCompletedBatches, KeeperTxFails, Crash, Signal, Exit, Restart, Tick

-----------------------------------------------------------------------------
(* The theorems. *)

LEMMA TimedInit == Init => TimedInv
<1> SUFFICES ASSUME Init PROVE TimedInv
  OBVIOUS
<1>1. \A s \in Slot : slot[s].pc = "idle"
  BY DEF Init, IdleSlot
<1> QED
  BY <1>1 DEF TimedInv, ExclusiveExecution, Occupied, SlotIsTimely

LEMMA TimedStep ==
  ASSUME Timely, Invs, [Next]_vars
  PROVE  TimedInv'
<1>1. \A t \in Slot : SlotIsTimely(t)'
  BY TimelyStep
<1>2. ASSUME NEW t \in Slot, Occupied(t)' PROVE RowOfAttempt(t)'
  <2>1. KeepsWork(t) \/ ClaimJob(t)
    BY <1>2, WorkStep DEF Invs, TableInv
  <2> QED
    BY <1>2, <2>1, RowOfClaim, RowKept
<1> QED
  BY <1>1, <1>2, ExclusiveStep DEF TimedInv

(* The inductive invariant of the timed system. *)
LEMMA InvsAlways == ASSUME Timely PROVE Spec => []Invs
<1>1. Init => Invs
  BY TableInit, TimedInit DEF Invs
<1>2. Invs /\ [Next]_vars => Invs'
  BY TableStep, TimedStep DEF Invs
<1> QED
  BY <1>1, <1>2, PTL DEF Spec

(* The table and the slots agree about every attempt under way: which one  *)
(* it is, who runs it, and that a later one waits for this one to end      *)
(* (process_job.go against job_repo.go Claim and reap_expired.go).         *)
THEOREM AttemptsTracked == ASSUME Timely PROVE Spec => []TimedInv
<1>1. Invs => TimedInv
  BY DEF Invs
<1> QED
  BY <1>1, InvsAlways, PTL

(* No job is ever worked on by two slots, of one process or of two, from   *)
(* claim to settlement, when executors obey their deadline and no          *)
(* transaction waits as long as a backoff.                                 *)
THEOREM NoDoubleExecution == ASSUME Timely PROVE Spec => []ExclusiveExecution
<1>1. Invs => ExclusiveExecution
  BY DEF Invs, TimedInv
<1> QED
  BY <1>1, InvsAlways, PTL

(* What the invariants say of the claims and the executions of a state. *)
LEMMA GoodClaims == Invs => ClaimStaysGood
<1> SUFFICES ASSUME Invs, NEW s \in Slot, Occupied(s), clock < slot[s].until
             PROVE  LET row == jobs[slot[s].job]
                    IN \/ /\ HeldBy(row, OwnerId(s))
                          /\ row.attempt = slot[s].attempt
                          /\ row.leaseExpires = slot[s].until
                       \/ row.state = "canceled"
  BY DEF ClaimStaysGood
<1>1. RowOfAttempt(s) /\ ~(slot[s].until <= clock)
  BY SlotTypes DEF Invs, TimedInv, TableInv, TypeOK
<1> QED
  BY <1>1 DEF RowOfAttempt, HeldBy

LEMMA WithinCapacity == Invs => ExecutionsWithinCapacity
<1> SUFFICES ASSUME Invs, NEW l \in Lane
             PROVE  Cardinality({s \in Executing(l) : jobs[slot[s].job].state # "canceled"})
                      <= Capacity[l]
  BY DEF ExecutionsWithinCapacity
<1> DEFINE runs == {s \in Executing(l) : jobs[slot[s].job].state # "canceled"}
           f == [s \in runs |-> slot[s].job]
<1> SUFFICES Cardinality(runs) <= Capacity[l]
  OBVIOUS
<1>1. ASSUME NEW s \in runs PROVE s \in Slot /\ Occupied(s) /\ slot[s].job \in Busy(l, clock)
  <2>1. s \in Slot /\ Occupied(s) /\ Serves(s) = l /\ clock < slot[s].until
        /\ jobs[slot[s].job].state # "canceled"
    BY DEF Executing, Occupied
  <2>2. RowOfAttempt(s) /\ slot[s].job \in Job /\ ~(slot[s].until <= clock)
    BY <2>1, SlotTypes DEF Invs, TimedInv, TableInv, TypeOK, SlotsHaveJobs
  <2> QED
    BY <2>1, <2>2 DEF RowOfAttempt, Busy
<1>2. f \in Injection(runs, Busy(l, clock))
  <2>1. f \in [runs -> Busy(l, clock)]
    BY <1>1
  <2>2. ASSUME NEW s \in runs, NEW t \in runs, f[s] = f[t] PROVE s = t
    BY <1>1, <2>2 DEF Invs, TimedInv, ExclusiveExecution
  <2> QED
    BY <2>1, <2>2 DEF Injection, IsInjective
<1>3. IsFiniteSet(Busy(l, clock)) /\ Cardinality(Busy(l, clock)) \in Nat
  BY BusyFinite
<1>4. IsFiniteSet(runs) /\ Cardinality(runs) <= Cardinality(Busy(l, clock))
  BY <1>2, <1>3, FS_Injection DEF ExistsInjection
<1>5. Cardinality(Busy(l, clock)) <= Capacity[l] /\ Capacity[l] \in Nat
  BY TopologyAssumption DEF Invs, TableInv, LaneCapacity
<1>6. Cardinality(runs) \in Nat
  BY <1>4, FS_CardinalityType
<1> HIDE DEF runs
<1> QED
  BY <1>3, <1>4, <1>5, <1>6

(* Until its deadline, nobody takes a job from the slot that claimed it,   *)
(* save by canceling the batch.                                            *)
THEOREM ClaimsStayGood == ASSUME Timely PROVE Spec => []ClaimStaysGood
BY GoodClaims, InvsAlways, PTL

(* The executions under way on a lane, over all processes, never exceed    *)
(* its capacity, canceled ones aside.                                      *)
THEOREM ExecutionsKeptWithinCapacity ==
  ASSUME Timely PROVE Spec => []ExecutionsWithinCapacity
BY WithinCapacity, InvsAlways, PTL
-----------------------------------------------------------------------------
(* Results are recorded under the attempt that produced them. *)

(* A slot occupied before and after a step keeps its job, and what is held *)
(* in its name stays its own attempt: only a claim makes a row running,    *)
(* and another slot of the lane claims under another name.                 *)
LEMMA OwnKept ==
  ASSUME OwnersTellSlotsApart, TableInv, TableInv', \A j \in Job : JobTransition(j), [Next]_vars,
         NEW t \in Slot, KeepsWork(t), HeldIsOwn(t)
  PROVE  HeldIsOwn(t)'
<1> DEFINE j == slot[t].job
<1>1. /\ j \in Job /\ Occupied(t) /\ slot'[t].job = j /\ slot'[t].attempt = slot[t].attempt
      /\ LaneOf[j] = Serves(t)
      /\ HeldBy(jobs[j], OwnerId(t)) => jobs[j].attempt = slot[t].attempt
      /\ jobs \in [Job -> Row]
  BY DEF KeepsWork, TableInv, TypeOK, SlotsHaveJobs, HeldIsOwn
<1>2. ASSUME NEW s \in Slot, ClaimJob(s) PROVE ~HeldBy(jobs'[j], OwnerId(t)) \/ jobs'[j] = jobs[j]
  <2>1. PICK i \in NextClaim(Serves(s), slot[s].now) :
          jobs' = [jobs EXCEPT ![i] = Claim(jobs[i], OwnerId(s), slot[s].now)]
    BY <1>2 DEF ClaimJob
  <2>2. i \in Job /\ LaneOf[i] = Serves(s) /\ slot[s].now \in Nat /\ OwnerId(s) \in WorkerId
    BY SlotParts, SlotTypes DEF NextClaim, Claimable, TableInv
  <2>3. CASE i = j
    <3>1. s # t
      BY <1>1, <1>2 DEF ClaimJob, Occupied
    <3>2. OwnerId(s) # OwnerId(t)
      BY <1>1, <2>2, <2>3, <3>1 DEF OwnersTellSlotsApart
    <3>3. jobs'[j].leaseOwner = OwnerId(s)
      BY <1>1, <2>1, <2>2, <2>3, ClaimRow
    <3> QED
      BY <3>2, <3>3 DEF HeldBy
  <2>4. CASE i # j
    BY <1>1, <2>1, <2>4
  <2> QED
    BY <2>3, <2>4
<1>3. CASE ~\E s \in Slot : ClaimJob(s)
  <2>1. jobs'[j] = jobs[j] \/ jobs'[j].state # "running"
    BY <1>1, <1>3 DEF JobTransition
  <2> QED
    BY <1>1, <2>1 DEF HeldIsOwn, HeldBy
<1>4. CASE \E s \in Slot : ClaimJob(s)
  BY <1>1, <1>2, <1>4 DEF HeldIsOwn
<1> QED
  BY <1>3, <1>4

LEMMA OwnClaimed ==
  ASSUME TableInv, NEW t \in Slot, ClaimJob(t)
  PROVE  HeldIsOwn(t)'
<1>1. PICK j \in NextClaim(Serves(t), slot[t].now) :
        LET row == Claim(jobs[j], OwnerId(t), slot[t].now)
        IN /\ jobs' = [jobs EXCEPT ![j] = row]
           /\ slot' = [slot EXCEPT ![t] = [pc |-> "run", job |-> j, attempt |-> row.attempt,
                                           until |-> row.leaseExpires, now |-> 0]]
  BY DEF ClaimJob
<1>2. /\ j \in Job /\ LaneOf[j] = Serves(t)
      /\ jobs \in [Job -> Row] /\ slot \in [Slot -> SlotState]
  BY DEF NextClaim, Claimable, TableInv, TypeOK
<1>3. slot'[t].job = j /\ slot'[t].attempt = jobs'[j].attempt
  BY <1>1, <1>2
<1> QED
  BY <1>2, <1>3 DEF HeldIsOwn

LEMMA OwnInit == Init => OwnInv
BY DEF Init, IdleSlot, Occupied, OwnInv

LEMMA OwnStep ==
  ASSUME OwnersTellSlotsApart, TableInv, OwnInv, [Next]_vars
  PROVE  OwnInv'
<1>1. TableInv' /\ \A j \in Job : JobTransition(j)
  BY TableStep
<1>2. ASSUME NEW t \in Slot, Occupied(t)' PROVE HeldIsOwn(t)'
  <2>1. CASE KeepsWork(t)
    <3>1. HeldIsOwn(t)
      BY <2>1 DEF KeepsWork, OwnInv
    <3> QED
      BY <1>1, <2>1, <3>1, OwnKept
  <2>2. KeepsWork(t) \/ ClaimJob(t)
    BY <1>2, WorkStep DEF TableInv
  <2> QED
    BY <2>1, <2>2, OwnClaimed
<1> QED
  BY <1>2 DEF OwnInv

(* What is held in a slot's name is the attempt it runs, however long its  *)
(* execution and its transactions take, when the lanes are serial and the  *)
(* processes have identities of their own (job.go assertHeldBy).           *)
THEOREM HeldIsRun == ASSUME OwnersTellSlotsApart PROVE Spec => []OwnInv
BY OwnInit, OwnStep, TablesConsistent, PTL DEF Spec

(* A slot lets go of a result and the table changes: the row was held in   *)
(* the slot's name, for the store was asked.                               *)
LEMMA SettledWasHeld ==
  ASSUME TypeOK, [Next]_vars, NEW t \in Slot, slot[t].pc \in {"ok", "err"}, slot'[t].pc = "idle",
         jobs' # jobs
  PROVE  HeldBy(jobs[slot[t].job], OwnerId(t))
<1> slot \in [Slot -> SlotState]
  BY DEF TypeOK
<1>1. ASSUME NEW s \in Slot, SettleSuccess(s) \/ SettleFailure(s)
      PROVE  HeldBy(jobs[slot[t].job], OwnerId(t))
  <2>1. CASE s = t
    BY <1>1, <2>1 DEF SettleSuccess, SettleFailure
  <2>2. CASE s # t
    BY <1>1, <2>2 DEF SettleSuccess, SettleFailure
  <2> QED
    BY <2>1, <2>2
<1>2. ASSUME NEW s \in Slot, ClaimJob(s) PROVE FALSE
  <2>1. \E x : slot' = [slot EXCEPT ![s] = x] /\ s # t
    BY <1>2 DEF ClaimJob
  <2> QED
    BY <2>1
<1>3. CASE UNCHANGED slot
  BY <1>3
<1> QED
  BY <1>1, <1>2, <1>3
  DEF Next, vars, SubmitBatch, CancelBatch, Poll, ClaimNothing, ExecutorReturns, DiscardResult,
      SlotTxFails, KeeperTick, ReapExpired, CloseCompletedBatches, KeeperTxFails, Crash, Signal,
      Exit, Restart, Tick

LEMMA OwnSettles == TableInv /\ OwnInv /\ [Next]_vars => [OwnSettlement]_vars
<1> SUFFICES ASSUME TableInv, OwnInv, [Next]_vars, NEW s \in Slot,
                    slot[s].pc \in {"ok", "err"}, slot'[s].pc = "idle",
                    jobs[slot[s].job].state = "running", jobs'[slot[s].job].state # "running"
             PROVE  jobs[slot[s].job].attempt = slot[s].attempt
  BY DEF OwnSettlement
<1>1. HeldBy(jobs[slot[s].job], OwnerId(s))
  BY SettledWasHeld DEF TableInv
<1> QED
  BY <1>1 DEF OwnInv, Occupied, HeldIsOwn

(* A settlement that is accepted settles the attempt the slot ran, if the  *)
(* owner tells the slots of a lane apart (process_job.go settle).          *)
THEOREM OwnResultsOnly == ASSUME OwnersTellSlotsApart PROVE Spec => SettlesOwnAttempt
BY OwnSettles, TablesConsistent, HeldIsRun, PTL DEF Spec, SettlesOwnAttempt

(* The inductive invariant of the timed system knows the attempt of every  *)
(* occupied slot, whoever owns the row.                                    *)
LEMMA OwnSettled == Invs => OwnSettlement
<1> SUFFICES ASSUME Invs, NEW s \in Slot, Occupied(s)
             PROVE  jobs[slot[s].job].attempt = slot[s].attempt
  BY DEF OwnSettlement, Occupied
<1> QED
  BY DEF Invs, TimedInv, RowOfAttempt

(* Whatever the identities, even one for all processes: a settlement that  *)
(* is accepted settles the attempt the slot ran, when executors obey their *)
(* deadline and no transaction waits as long as a backoff.                 *)
THEOREM TimelyResultsOnly == ASSUME Timely PROVE Spec => SettlesOwnAttempt
<1>1. Invs /\ [Next]_vars => [OwnSettlement]_vars
  BY OwnSettled
<1> QED
  BY <1>1, InvsAlways, PTL DEF Spec, SettlesOwnAttempt

=============================================================================
