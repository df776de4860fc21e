----------------------------- MODULE TrailProofs ----------------------------
(***************************************************************************)
(* Proofs that the audit trail never disagrees with the tables: every      *)
(* transaction records exactly what it does to a job or a batch, so the    *)
(* events of a subject tell its whole life, however many processes write.  *)
(***************************************************************************)
EXTENDS SchedulerProofs, SequenceTheorems

-----------------------------------------------------------------------------
(* What one transaction adds to the trail of one subject.                  *)

LEMMA RecordAt ==
  ASSUME NEW ev, NEW x \in Job \cup Batch, trail' = Record(ev)
  PROVE  /\ x \in DOMAIN ev => trail'[x] = Append(trail[x], ev[x])
         /\ x \notin DOMAIN ev => trail'[x] = trail[x]
BY DEF Record

(* ... and what a transaction that records one event adds to it.           *)
LEMMA RecordOne ==
  ASSUME NEW subject, NEW event, NEW x \in Job \cup Batch,
         trail' = Record([y \in {subject} |-> event])
  PROVE  trail'[x] = IF x = subject THEN Append(trail[x], event) ELSE trail[x]
BY DEF Record

(* The step a transaction makes a batch take, with its event.              *)
BatchMove(b, from, to, event) ==
  batch[b] = from /\ batch'[b] = to /\ trail'[b] = Append(trail[b], event)

BatchTrailStep(b) ==
  \/ batch'[b] = batch[b] /\ trail'[b] = trail[b]
  \/ BatchMove(b, "absent", "open", "batch.created")
  \/ BatchMove(b, "open", "done", "batch.completed")
  \/ BatchMove(b, "open", "canceled", "batch.canceled")

LEMMA BatchTrail ==
  ASSUME TypeOK, SlotsHaveJobs, [Next]_vars, NEW b \in Batch
  PROVE  BatchTrailStep(b)
<1> b \notin Job /\ b \in Job \cup Batch /\ batch \in [Batch -> BatchState]
  BY TopologyAssumption DEF TypeOK
<1>1. ASSUME NEW c \in Batch, SubmitBatch(c) PROVE BatchTrailStep(b)
  <2>1. batch[c] = "absent" /\ batch' = [batch EXCEPT ![c] = "open"]
        /\ trail' = Record([x \in {c} |-> "batch.created"])
    BY <1>1 DEF SubmitBatch
  <2>2. CASE b = c
    <3>1. trail'[b] = Append(trail[b], "batch.created")
      BY <2>1, <2>2, RecordOne
    <3> QED
      BY <2>1, <2>2, <3>1 DEF BatchTrailStep, BatchMove
  <2>3. CASE b # c
    <3>1. trail'[b] = trail[b]
      BY <2>1, <2>3, RecordOne
    <3> QED
      BY <2>1, <2>3, <3>1 DEF BatchTrailStep
  <2> QED
    BY <2>2, <2>3
<1>2. ASSUME NEW c \in Batch, CancelBatch(c) PROVE BatchTrailStep(b)
  <2>1. batch[c] = "open" /\ batch' = [batch EXCEPT ![c] = "canceled"]
        /\ trail' = Record([x \in {c} |-> "batch.canceled"])
    BY <1>2 DEF CancelBatch
  <2>2. CASE b = c
    <3>1. trail'[b] = Append(trail[b], "batch.canceled")
      BY <2>1, <2>2, RecordOne
    <3> QED
      BY <2>1, <2>2, <3>1 DEF BatchTrailStep, BatchMove
  <2>3. CASE b # c
    <3>1. trail'[b] = trail[b]
      BY <2>1, <2>3, RecordOne
    <3> QED
      BY <2>1, <2>3, <3>1 DEF BatchTrailStep
  <2> QED
    BY <2>2, <2>3
<1>3. ASSUME NEW w \in Worker, CloseCompletedBatches(w) PROVE BatchTrailStep(b)
  <2>1. PICK done \in ListCompletable(CloseLimit) :
          /\ batch' = [c \in Batch |-> IF c \in done THEN "done" ELSE batch[c]]
          /\ trail' = Record([c \in done |-> "batch.completed"])
    BY <1>3 DEF CloseCompletedBatches
  <2>2. b \in done => batch[b] = "open"
    BY DEF ListCompletable, Limited
  <2> QED
    BY <2>1, <2>2, RecordAt DEF BatchTrailStep, BatchMove
<1>4. ASSUME UNCHANGED batch, NEW subjects \in SUBSET Job,
             NEW ev, DOMAIN ev = subjects, trail' = Record(ev)
      PROVE BatchTrailStep(b)
  BY <1>4, RecordAt DEF BatchTrailStep
<1>5. ASSUME NEW s \in Slot, ClaimJob(s) PROVE BatchTrailStep(b)
  <2>1. PICK i \in NextClaim(Serves(s), slot[s].now) :
          trail' = Record([x \in {i} |-> "job.claimed"])
    BY <1>5 DEF ClaimJob
  <2>2. {i} \in SUBSET Job
    BY DEF NextClaim, Claimable
  <2> QED
    BY <1>4, <1>5, <2>1, <2>2 DEF ClaimJob
<1>6. ASSUME NEW s \in Slot, SettleSuccess(s) PROVE BatchTrailStep(b)
  BY <1>4, <1>6 DEF SettleSuccess, SlotsHaveJobs, Occupied
<1>7. ASSUME NEW s \in Slot, SettleFailure(s) PROVE BatchTrailStep(b)
  BY <1>4, <1>7 DEF SettleFailure, SlotsHaveJobs, Occupied
<1>8. ASSUME NEW w \in Worker, ReapExpired(w) PROVE BatchTrailStep(b)
  <2>1. PICK stale \in ReclaimExpired(keeper[w].now, ReapLimit) :
          trail' = Record([i \in stale |-> ReapEvent(i)])
    BY <1>8 DEF ReapExpired
  <2>2. stale \in SUBSET Job
    BY ReclaimedAreExpired
  <2> QED
    BY <1>4, <1>8, <2>1, <2>2 DEF ReapExpired
<1>9. CASE UNCHANGED <<batch, trail>>
  BY <1>9 DEF BatchTrailStep
<1> QED
  BY <1>1, <1>2, <1>3, <1>5, <1>6, <1>7, <1>8, <1>9
  DEF Next, vars, Poll, ClaimNothing, ExecutorReturns, DiscardResult, SlotTxFails, KeeperTick,
      KeeperTxFails, Crash, Signal, Exit, Restart, Tick

-----------------------------------------------------------------------------
(* The same for a job: of every event it says which move it records.       *)

JobMove(j, from, to, tries) ==
  /\ jobs[j].state \in from /\ jobs'[j].state = to
  /\ jobs'[j].attempt = tries

Adds(j, events) == \E e \in events : trail'[j] = Append(trail[j], e)

TrailStep(j) ==
  LET a == jobs[j].attempt
  IN \/ jobs'[j] = jobs[j] /\ trail'[j] = trail[j]
     \/ JobMove(j, {"absent"}, "pending", 0) /\ trail'[j] = trail[j]
     \/ JobMove(j, {"pending"}, "running", a + 1) /\ Adds(j, {"job.claimed"})
     \/ JobMove(j, {"running"}, "pending", a) /\ Adds(j, {"job.failed", "job.reclaimed"})
     \/ JobMove(j, {"running"}, "succeeded", a) /\ Adds(j, {"job.succeeded"})
     \/ JobMove(j, {"running"}, "dead", a) /\ Adds(j, {"job.dead"})
     \/ JobMove(j, {"pending", "running"}, "canceled", a) /\ trail'[j] = trail[j]

(* A failed attempt, settled or reaped, with the event its kind of end has. *)
LEMMA FailedTrail ==
  ASSUME TypeOK, AttemptBudget, NEW j \in Job, jobs[j].state = "running", NEW now \in Nat,
         jobs'[j] = Fail(jobs[j], MaxAttempts[j], now),
         NEW retry \in {"job.failed", "job.reclaimed"},
         trail'[j] = Append(trail[j], IF WillRetry(jobs[j], MaxAttempts[j]) THEN retry
                                                                           ELSE "job.dead")
  PROVE  TrailStep(j)
<1>1. jobs[j] \in Row /\ jobs[j].attempt \in 1..MaxAttempts[j] /\ MaxAttempts[j] \in Nat
  BY AttemptAssumption DEF TypeOK, AttemptBudget
<1>2. CASE jobs[j].attempt < MaxAttempts[j]
  <2>1. JobMove(j, {"running"}, "pending", jobs[j].attempt)
    BY <1>1, <1>2, FailRow DEF JobMove
  <2>2. Adds(j, {"job.failed", "job.reclaimed"})
    BY <1>2 DEF Adds, WillRetry
  <2> QED
    BY <2>1, <2>2 DEF TrailStep
<1>3. CASE ~(jobs[j].attempt < MaxAttempts[j])
  <2>1. JobMove(j, {"running"}, "dead", jobs[j].attempt)
    BY <1>1, <1>3, FailRow DEF JobMove
  <2>2. Adds(j, {"job.dead"})
    BY <1>3 DEF Adds, WillRetry
  <2> QED
    BY <2>1, <2>2 DEF TrailStep
<1> QED
  BY <1>2, <1>3

LEMMA JobTrail ==
  ASSUME TypeOK, SlotsHaveJobs, JobsComeWithBatch, AttemptBudget, [Next]_vars, NEW j \in Job
  PROVE  TrailStep(j)
<1> /\ jobs \in [Job -> Row] /\ slot \in [Slot -> SlotState] /\ keeper \in [Worker -> KeeperState]
    /\ jobs[j] \in Row /\ clock \in Nat /\ j \notin Batch /\ j \in Job \cup Batch
  BY TopologyAssumption DEF TypeOK
<1>1. ASSUME NEW b \in Batch, SubmitBatch(b) PROVE TrailStep(j)
  <2>1. PICK now \in 1..clock :
          jobs' = [i \in Job |-> IF BatchOf[i] = b THEN NewJob(NotBefore[b], now) ELSE jobs[i]]
    BY <1>1 DEF SubmitBatch
  <2>2. trail'[j] = trail[j]
    BY <1>1 DEF SubmitBatch, Record
  <2>3. CASE BatchOf[j] = b
    <3>1. jobs[j].state = "absent"
      BY <1>1, <2>3 DEF SubmitBatch, JobsComeWithBatch
    <3>2. jobs'[j].state = "pending" /\ jobs'[j].attempt = 0
      BY <2>1, <2>3, NewJobRow, SchedulerAssumption
    <3> QED
      BY <2>2, <3>1, <3>2 DEF TrailStep, JobMove
  <2>4. CASE BatchOf[j] # b
    BY <2>1, <2>2, <2>4 DEF TrailStep
  <2> QED
    BY <2>3, <2>4
<1>2. ASSUME NEW b \in Batch, CancelBatch(b) PROVE TrailStep(j)
  <2>1. jobs' = CancelByBatch(b)
    BY <1>2 DEF CancelBatch
  <2>2. trail'[j] = trail[j]
    BY <1>2 DEF CancelBatch, Record
  <2>3. CASE BatchOf[j] = b /\ jobs[j].state \in {"pending", "running"}
    <3>1. jobs'[j] = Cancel(jobs[j])
      BY <2>1, <2>3 DEF CancelByBatch
    <3>2. jobs'[j].state = "canceled" /\ jobs'[j].attempt = jobs[j].attempt
      BY <2>3, <3>1 DEF Cancel, ClearLease, IsTerminal, TerminalState, Row
    <3> QED
      BY <2>2, <2>3, <3>2 DEF TrailStep, JobMove
  <2>4. CASE ~(BatchOf[j] = b /\ jobs[j].state \in {"pending", "running"})
    BY <2>1, <2>2, <2>4 DEF CancelByBatch, TrailStep
  <2> QED
    BY <2>3, <2>4
<1>3. ASSUME NEW s \in Slot, ClaimJob(s) PROVE TrailStep(j)
  <2>1. PICK i \in NextClaim(Serves(s), slot[s].now) :
          /\ jobs' = [jobs EXCEPT ![i] = Claim(jobs[i], OwnerId(s), slot[s].now)]
          /\ trail' = Record([x \in {i} |-> "job.claimed"])
    BY <1>3 DEF ClaimJob
  <2>2. i \in Job /\ jobs[i].state = "pending" /\ slot[s].now \in Nat /\ OwnerId(s) \in WorkerId
    BY SlotParts DEF NextClaim, Claimable, SlotState
  <2>3. CASE i = j
    <3>1. JobMove(j, {"pending"}, "running", jobs[j].attempt + 1)
      BY <2>1, <2>2, <2>3, ClaimRow DEF JobMove
    <3>2. Adds(j, {"job.claimed"})
      BY <2>1, <2>3, RecordOne DEF Adds
    <3> QED
      BY <3>1, <3>2 DEF TrailStep
  <2>4. CASE i # j
    <3>1. trail'[j] = trail[j]
      BY <2>1, <2>4 DEF Record
    <3> QED
      BY <2>1, <2>4, <3>1 DEF TrailStep
  <2> QED
    BY <2>3, <2>4
<1>4. ASSUME NEW s \in Slot, SettleSuccess(s) PROVE TrailStep(j)
  <2>1. /\ jobs' = [jobs EXCEPT ![slot[s].job] = Succeed(@)]
        /\ trail' = Record([x \in {slot[s].job} |-> "job.succeeded"])
        /\ jobs[slot[s].job].state = "running"
    BY <1>4 DEF SettleSuccess, HeldBy
  <2>2. CASE slot[s].job = j
    <3>1. JobMove(j, {"running"}, "succeeded", jobs[j].attempt)
      BY <2>1, <2>2 DEF JobMove, Succeed, ClearLease, Row
    <3>2. Adds(j, {"job.succeeded"})
      BY <2>1, <2>2, RecordOne DEF Adds
    <3> QED
      BY <3>1, <3>2 DEF TrailStep
  <2>3. CASE slot[s].job # j
    <3>1. trail'[j] = trail[j]
      BY <2>1, <2>3 DEF Record
    <3> QED
      BY <2>1, <2>3, <3>1 DEF TrailStep
  <2> QED
    BY <2>2, <2>3
<1>5. ASSUME NEW s \in Slot, SettleFailure(s) PROVE TrailStep(j)
  <2> DEFINE i == slot[s].job
             event == IF WillRetry(jobs[i], MaxAttempts[i]) THEN "job.failed" ELSE "job.dead"
  <2>1. /\ jobs' = [jobs EXCEPT ![i] = Fail(jobs[i], MaxAttempts[i], slot[s].now)]
        /\ trail' = Record([x \in {i} |-> event])
        /\ jobs[i].state = "running" /\ slot[s].now \in Nat
    BY <1>5 DEF SettleFailure, HeldBy, SlotState
  <2> HIDE DEF event
  <2>2. trail'[j] = IF j = i THEN Append(trail[j], event) ELSE trail[j]
    BY <2>1 DEF Record
  <2>3. CASE i = j
    <3>1. jobs'[j] = Fail(jobs[j], MaxAttempts[j], slot[s].now)
      BY <2>1, <2>3
    <3>2. trail'[j] = Append(trail[j], IF WillRetry(jobs[j], MaxAttempts[j])
                                       THEN "job.failed" ELSE "job.dead")
      BY <2>2, <2>3 DEF event
    <3> QED
      BY <2>1, <2>3, <3>1, <3>2, FailedTrail
  <2>4. CASE i # j
    BY <2>1, <2>2, <2>4 DEF TrailStep
  <2> QED
    BY <2>3, <2>4
<1>6. ASSUME NEW w \in Worker, ReapExpired(w) PROVE TrailStep(j)
  <2>1. PICK stale \in ReclaimExpired(keeper[w].now, ReapLimit) :
          /\ jobs' = [i \in Job |-> IF i \in stale
                                    THEN Fail(jobs[i], MaxAttempts[i], keeper[w].now) ELSE jobs[i]]
          /\ trail' = Record([i \in stale |-> ReapEvent(i)])
    BY <1>6 DEF ReapExpired
  <2>2. CASE j \in stale
    <3>1. jobs[j].state = "running" /\ keeper[w].now \in Nat
      BY <2>2, ReclaimedAreExpired DEF CanReclaim, KeeperState
    <3>2. trail'[j] = Append(trail[j], ReapEvent(j))
      BY <2>1, <2>2 DEF Record
    <3> QED
      BY <2>1, <2>2, <3>1, <3>2, FailedTrail DEF ReapEvent
  <2>3. CASE j \notin stale
    <3>1. trail'[j] = trail[j]
      BY <2>1, <2>3 DEF Record
    <3> QED
      BY <2>1, <2>3, <3>1 DEF TrailStep
  <2> QED
    BY <2>2, <2>3
<1>7. ASSUME NEW w \in Worker, CloseCompletedBatches(w) PROVE TrailStep(j)
  <2>1. PICK done \in ListCompletable(CloseLimit) :
          trail' = Record([b \in done |-> "batch.completed"])
    BY <1>7 DEF CloseCompletedBatches
  <2>2. done \subseteq Batch
    BY DEF ListCompletable, Limited
  <2>3. trail'[j] = trail[j]
    BY <2>1, <2>2 DEF Record
  <2> QED
    BY <1>7, <2>3 DEF CloseCompletedBatches, TrailStep
<1>8. CASE UNCHANGED <<jobs, trail>>
  BY <1>8 DEF TrailStep
<1> QED
  BY <1>1, <1>2, <1>3, <1>4, <1>5, <1>6, <1>7, <1>8
  DEF Next, vars, Poll, ClaimNothing, ExecutorReturns, DiscardResult, SlotTxFails, KeeperTick,
      KeeperTxFails, Crash, Signal, Exit, Restart, Tick

-----------------------------------------------------------------------------
(* Sequences of events.                                                    *)

IsClaim(e) == e = "job.claimed"

(* Claims and the events that end an attempt alternate.                    *)
Alternates(t) == \A i \in DOMAIN t : IsClaim(t[i]) <=> i % 2 = 1
ClaimsAt(t) == {i \in DOMAIN t : IsClaim(t[i])}

LEMMA Parity ==
  ASSUME NEW n \in Nat
  PROVE  (n + 1) % 2 = 1 <=> ~(n % 2 = 1)
OBVIOUS

LEMMA AppendedEvent ==
  ASSUME NEW t \in Seq(EventType), NEW e \in EventType
  PROVE  LET new == Append(t, e)
         IN /\ new \in Seq(EventType) /\ new # <<>> /\ Len(new) = Len(t) + 1
            /\ DOMAIN t = 1..Len(t) /\ DOMAIN new = 1..(Len(t) + 1) /\ Len(t) \in Nat
            /\ \A i \in 1..Len(t) : new[i] = t[i]
            /\ new[Len(t) + 1] = e
BY AppendProperties

(* A claim after the end of an attempt, or the end after a claim, keeps    *)
(* the order.                                                              *)
LEMMA AlternationKept ==
  ASSUME NEW t \in Seq(EventType), NEW e \in EventType, Alternates(t),
         IsClaim(e) <=> (t = <<>> \/ ~IsClaim(t[Len(t)]))
  PROVE  Alternates(Append(t, e))
<1> DEFINE n == Len(t)
<1>1. n \in Nat /\ DOMAIN t = 1..n
  OBVIOUS
<1>2. IsClaim(e) <=> (n + 1) % 2 = 1
  <2>1. CASE n = 0
    <3>1. t = <<>> /\ (n + 1) % 2 = 1
      BY <2>1
    <3> QED
      BY <3>1
  <2>2. CASE n # 0
    <3>1. n \in DOMAIN t /\ t # <<>>
      BY <1>1, <2>2
    <3>2. IsClaim(t[n]) <=> n % 2 = 1
      BY <3>1 DEF Alternates
    <3> QED
      BY <1>1, <3>1, <3>2, Parity, Zenon
  <2> QED
    BY <2>1, <2>2
<1>3. ASSUME NEW i \in DOMAIN Append(t, e)
      PROVE  IsClaim(Append(t, e)[i]) <=> i % 2 = 1
  <2>1. CASE i \in 1..n
    <3>1. Append(t, e)[i] = t[i] /\ i \in DOMAIN t
      BY <1>1, <2>1, AppendedEvent
    <3> QED
      BY <3>1, Zenon DEF Alternates
  <2>2. CASE i = n + 1
    <3>1. Append(t, e)[i] = e
      BY <2>2, AppendedEvent
    <3> QED
      BY <1>2, <2>2, <3>1, Zenon
  <2>3. i \in 1..n \/ i = n + 1
    BY <1>1, <1>3, AppendedEvent
  <2> QED
    BY <2>1, <2>2, <2>3
<1> QED
  BY <1>3 DEF Alternates

(* A claim is counted, another event is not.                               *)
LEMMA ClaimsCounted ==
  ASSUME NEW t \in Seq(EventType), NEW e \in EventType
  PROVE  /\ IsFiniteSet(ClaimsAt(t)) /\ Cardinality(ClaimsAt(t)) \in Nat
         /\ Cardinality(ClaimsAt(Append(t, e))) =
              Cardinality(ClaimsAt(t)) + (IF IsClaim(e) THEN 1 ELSE 0)
<1> DEFINE n == Len(t)
<1>1. n \in Nat /\ DOMAIN t = 1..n
  OBVIOUS
<1>2. IsFiniteSet(1..n)
  BY <1>1, FS_Interval
<1>3. IsFiniteSet(ClaimsAt(t)) /\ Cardinality(ClaimsAt(t)) \in Nat
  BY <1>1, <1>2, FS_Subset, FS_CardinalityType DEF ClaimsAt
<1>4. ClaimsAt(Append(t, e)) = IF IsClaim(e) THEN ClaimsAt(t) \cup {n + 1} ELSE ClaimsAt(t)
  <2>1. ClaimsAt(Append(t, e)) = {i \in 1..(n + 1) : IsClaim(Append(t, e)[i])}
    BY AppendedEvent DEF ClaimsAt
  <2>2. \A i \in 1..(n + 1) : Append(t, e)[i] = IF i = n + 1 THEN e ELSE t[i]
    BY <1>1, AppendedEvent
  <2>3. ClaimsAt(t) = {i \in 1..n : IsClaim(t[i])}
    BY <1>1 DEF ClaimsAt
  <2> QED
    BY <1>1, <2>1, <2>2, <2>3
<1>5. n + 1 \notin ClaimsAt(t)
  BY <1>1 DEF ClaimsAt
<1>6. Cardinality(ClaimsAt(t) \cup {n + 1}) = Cardinality(ClaimsAt(t)) + 1
  BY <1>3, <1>5, FS_AddElement
<1> QED
  BY <1>3, <1>4, <1>6

-----------------------------------------------------------------------------
(* What the trail of a job tells.                                          *)

TellsTheTruth(j) ==
  /\ Claims(j) = jobs[j].attempt
  /\ Alternates(trail[j])
  /\ LastEvent(j) \in ExplainedBy(j)

LEMMA TrailParts == TrailMatchesJobs <=> \A j \in Job : TellsTheTruth(j)
BY Zenon DEF TrailMatchesJobs, TellsTheTruth, Alternates, IsClaim

LEMMA ClaimsAreCounted == \A j \in Job : Claims(j) = Cardinality(ClaimsAt(trail[j]))
BY DEF Claims, ClaimsAt, IsClaim

(* An event recorded in the right order makes the trail of its job longer  *)
(* by one attempt, or closes the one that was open.                        *)
LEMMA EventAdded ==
  ASSUME TypeOK, NEW j \in Job, TellsTheTruth(j), NEW e \in EventType,
         trail'[j] = Append(trail[j], e),
         IsClaim(e) <=> ~IsClaim(LastEvent(j))
  PROVE  /\ Claims(j)' = jobs[j].attempt + (IF IsClaim(e) THEN 1 ELSE 0)
         /\ Alternates(trail'[j])
         /\ LastEvent(j)' = e
<1> DEFINE t == trail[j]
<1>1. t \in Seq(EventType) /\ Alternates(t)
  BY DEF TypeOK, TellsTheTruth
<1>2. IsClaim(e) <=> (t = <<>> \/ ~IsClaim(t[Len(t)]))
  <2>1. CASE t = <<>>
    <3>1. ~IsClaim(LastEvent(j))
      BY <2>1 DEF LastEvent, IsClaim
    <3> QED
      BY <2>1, <3>1
  <2>2. CASE t # <<>>
    <3>1. LastEvent(j) = t[Len(t)]
      BY <2>2 DEF LastEvent
    <3> QED
      BY <2>2, <3>1
  <2> QED
    BY <2>1, <2>2
<1>3. Alternates(trail'[j])
  BY <1>1, <1>2, AlternationKept
<1>4. Claims(j)' = Cardinality(ClaimsAt(Append(t, e)))
  BY DEF Claims, ClaimsAt, IsClaim
<1>5. Cardinality(ClaimsAt(Append(t, e))) = jobs[j].attempt + (IF IsClaim(e) THEN 1 ELSE 0)
  BY <1>1, ClaimsCounted, ClaimsAreCounted DEF TellsTheTruth
<1>6. LastEvent(j)' = e
  BY <1>1, AppendedEvent DEF LastEvent
<1> QED
  BY <1>3, <1>4, <1>5, <1>6

(* The trail of a job that no event was added to tells the same.           *)
LEMMA NothingAdded ==
  ASSUME NEW j \in Job, TellsTheTruth(j), trail'[j] = trail[j]
  PROVE  Claims(j)' = jobs[j].attempt /\ Alternates(trail'[j]) /\ LastEvent(j)' = LastEvent(j)
BY DEF TellsTheTruth, Claims, LastEvent

LEMMA TellsTheTruthStep ==
  ASSUME TypeOK, AttemptBudget, NEW j \in Job, TrailStep(j), TellsTheTruth(j)
  PROVE  TellsTheTruth(j)'
<1> DEFINE a == jobs[j].attempt
<1>1. a \in Nat /\ (jobs[j].state = "running" => a # 0)
  BY DEF TypeOK, Row, AttemptBudget
<1>2. LastEvent(j) \in ExplainedBy(j)
  BY DEF TellsTheTruth
<1>3. CASE jobs'[j] = jobs[j] /\ trail'[j] = trail[j]
  <2>1. ExplainedBy(j)' = ExplainedBy(j)
    BY <1>3 DEF ExplainedBy
  <2> QED
    BY <1>2, <1>3, <2>1, NothingAdded DEF TellsTheTruth
<1>4. CASE JobMove(j, {"absent"}, "pending", 0) /\ trail'[j] = trail[j]
  <2>1. LastEvent(j) = "none" /\ Cardinality(ClaimsAt(<<>>)) = 0
    BY <1>2, <1>4, FS_EmptySet DEF JobMove, ExplainedBy, ClaimsAt
  <2>2. trail[j] = <<>>
    <3>1. ASSUME trail[j] # <<>> PROVE trail[j][Len(trail[j])] \in EventType
      BY <3>1 DEF TypeOK
    <3> QED
      BY <2>1, <3>1 DEF LastEvent, EventType, JobEvent, BatchEvent
  <2>3. a = 0
    BY <2>1, <2>2, ClaimsAreCounted DEF TellsTheTruth
  <2>4. ExplainedBy(j)' = {"none"}
    BY <1>4 DEF JobMove, ExplainedBy
  <2> QED
    BY <1>4, <2>1, <2>3, <2>4, NothingAdded DEF TellsTheTruth, JobMove
<1>5. CASE JobMove(j, {"pending"}, "running", a + 1) /\ Adds(j, {"job.claimed"})
  <2>1. ~IsClaim(LastEvent(j))
    BY <1>2, <1>5 DEF JobMove, ExplainedBy, IsClaim
  <2>2. trail'[j] = Append(trail[j], "job.claimed") /\ IsClaim("job.claimed")
        /\ "job.claimed" \in EventType
    BY <1>5 DEF Adds, IsClaim, EventType, JobEvent
  <2>3. ExplainedBy(j)' = {"job.claimed"}
    BY <1>5 DEF JobMove, ExplainedBy
  <2> QED
    BY <1>5, <2>1, <2>2, <2>3, EventAdded DEF TellsTheTruth, JobMove
<1>6. ASSUME NEW to, NEW events \in SUBSET EventType, "job.claimed" \notin events,
             JobMove(j, {"running"}, to, a), Adds(j, events), events \subseteq ExplainedBy(j)'
      PROVE TellsTheTruth(j)'
  <2>1. IsClaim(LastEvent(j))
    BY <1>2, <1>6 DEF JobMove, ExplainedBy, IsClaim
  <2>2. PICK e \in events : trail'[j] = Append(trail[j], e)
    BY <1>6 DEF Adds
  <2>3. e \in EventType /\ ~IsClaim(e)
    BY <1>6 DEF IsClaim
  <2>4. Claims(j)' = a + 0 /\ Alternates(trail'[j]) /\ LastEvent(j)' = e
    BY <2>1, <2>2, <2>3, EventAdded
  <2>5. jobs'[j].attempt = a /\ e \in ExplainedBy(j)'
    BY <1>6 DEF JobMove
  <2>6. Claims(j)' = jobs'[j].attempt
    BY <1>1, <2>4, <2>5
  <2> QED
    BY <2>4, <2>5, <2>6 DEF TellsTheTruth
<1>7. CASE JobMove(j, {"running"}, "pending", a) /\ Adds(j, {"job.failed", "job.reclaimed"})
  <2>1. ExplainedBy(j)' = {"job.failed", "job.reclaimed"}
    BY <1>1, <1>7 DEF JobMove, ExplainedBy
  <2> QED
    BY <1>6, <1>7, <2>1 DEF EventType, JobEvent
<1>8. CASE JobMove(j, {"running"}, "succeeded", a) /\ Adds(j, {"job.succeeded"})
  <2>1. ExplainedBy(j)' = {"job.succeeded"}
    BY <1>8 DEF JobMove, ExplainedBy
  <2> QED
    BY <1>6, <1>8, <2>1 DEF EventType, JobEvent
<1>9. CASE JobMove(j, {"running"}, "dead", a) /\ Adds(j, {"job.dead"})
  <2>1. ExplainedBy(j)' = {"job.dead"}
    BY <1>9 DEF JobMove, ExplainedBy
  <2> QED
    BY <1>6, <1>9, <2>1 DEF EventType, JobEvent
<1>10. CASE JobMove(j, {"pending", "running"}, "canceled", a) /\ trail'[j] = trail[j]
  <2>1. LastEvent(j) \in ExplainedBy(j)'
    <3>1. jobs[j].state \in {"pending", "running"}
      BY <1>10 DEF JobMove
    <3>2. LastEvent(j) \in {"none", "job.claimed", "job.failed", "job.reclaimed"}
      BY <1>2, <3>1 DEF ExplainedBy
    <3>3. ExplainedBy(j)' = {"none", "job.claimed", "job.failed", "job.reclaimed"}
      BY <1>10 DEF JobMove, ExplainedBy
    <3> QED
      BY <3>2, <3>3
  <2>2. Claims(j)' = jobs'[j].attempt /\ Alternates(trail'[j]) /\ LastEvent(j)' = LastEvent(j)
    BY <1>10, NothingAdded DEF JobMove
  <2> QED
    BY <2>1, <2>2 DEF TellsTheTruth
<1> QED
  BY <1>3, <1>4, <1>5, <1>7, <1>8, <1>9, <1>10 DEF TrailStep

-----------------------------------------------------------------------------
(* What the trail of a batch tells.                                        *)

LEMMA SecondEvent ==
  ASSUME NEW e \in EventType, NEW f \in EventType
  PROVE  Append(<<e>>, f) = <<e, f>>
<1>1. <<e>> \in Seq(EventType) /\ Len(<<e>>) = 1 /\ <<e>>[1] = e
  OBVIOUS
<1>2. /\ Append(<<e>>, f) \in Seq(EventType) /\ Len(Append(<<e>>, f)) = 2
      /\ Append(<<e>>, f)[1] = e /\ Append(<<e>>, f)[2] = f
  BY <1>1, AppendedEvent
<1>3. <<e, f>> \in Seq(EventType) /\ Len(<<e, f>>) = 2 /\ <<e, f>>[1] = e /\ <<e, f>>[2] = f
  OBVIOUS
<1>4. \A i \in 1..2 : Append(<<e>>, f)[i] = <<e, f>>[i]
  BY <1>2, <1>3
<1> QED
  BY <1>2, <1>3, <1>4, SeqEqual

LEMMA BatchClosedOnceStep ==
  ASSUME BatchClosedOnce, \A b \in Batch : BatchTrailStep(b)
  PROVE  BatchClosedOnce'
<1> SUFFICES ASSUME NEW b \in Batch
             PROVE  trail'[b] = CASE batch'[b] = "absent" -> <<>>
                                  [] batch'[b] = "open" -> <<"batch.created">>
                                  [] batch'[b] = "done" -> <<"batch.created", "batch.completed">>
                                  [] batch'[b] = "canceled" -> <<"batch.created", "batch.canceled">>
  BY DEF BatchClosedOnce
<1>1. CASE batch'[b] = batch[b] /\ trail'[b] = trail[b]
  BY <1>1 DEF BatchClosedOnce
<1>2. CASE BatchMove(b, "absent", "open", "batch.created")
  <2>1. trail[b] = <<>>
    BY <1>2 DEF BatchMove, BatchClosedOnce
  <2>2. Append(<<>>, "batch.created") = <<"batch.created">>
    OBVIOUS
  <2> QED
    BY <1>2, <2>1, <2>2 DEF BatchMove
<1>3. CASE BatchMove(b, "open", "done", "batch.completed")
  <2>1. trail[b] = <<"batch.created">>
    BY <1>3 DEF BatchMove, BatchClosedOnce
  <2>2. Append(<<"batch.created">>, "batch.completed") = <<"batch.created", "batch.completed">>
    BY SecondEvent DEF EventType, BatchEvent
  <2> QED
    BY <1>3, <2>1, <2>2 DEF BatchMove
<1>4. CASE BatchMove(b, "open", "canceled", "batch.canceled")
  <2>1. trail[b] = <<"batch.created">>
    BY <1>4 DEF BatchMove, BatchClosedOnce
  <2>2. Append(<<"batch.created">>, "batch.canceled") = <<"batch.created", "batch.canceled">>
    BY SecondEvent DEF EventType, BatchEvent
  <2> QED
    BY <1>4, <2>1, <2>2 DEF BatchMove
<1> QED
  BY <1>1, <1>2, <1>3, <1>4 DEF BatchTrailStep

-----------------------------------------------------------------------------
(* The theorems. *)
TruthInv == TableInv /\ \A j \in Job : TellsTheTruth(j)

LEMMA TruthInit == Init => TruthInv
<1>1. ASSUME Init, NEW j \in Job PROVE TellsTheTruth(j)
  <2>1. trail[j] = <<>> /\ jobs[j] = NoRow
    BY <1>1 DEF Init
  <2>2. Cardinality(ClaimsAt(<<>>)) = 0
    BY FS_EmptySet DEF ClaimsAt
  <2>3. Claims(j) = 0
    BY <2>1, <2>2, ClaimsAreCounted
  <2>4. LastEvent(j) \in ExplainedBy(j)
    BY <2>1 DEF LastEvent, ExplainedBy, NoRow
  <2> QED
    BY <2>1, <2>3, <2>4 DEF TellsTheTruth, Alternates, NoRow
<1> QED
  BY <1>1, TableInit DEF TruthInv

LEMMA TruthStep == TruthInv /\ [Next]_vars => TruthInv'
<1> SUFFICES ASSUME TruthInv, [Next]_vars PROVE TruthInv'
  OBVIOUS
<1>1. TableInv'
  BY TableStep DEF TruthInv
<1>2. ASSUME NEW j \in Job PROVE TellsTheTruth(j)'
  <2>1. TrailStep(j)
    BY JobTrail DEF TruthInv, TableInv
  <2> QED
    BY <2>1, TellsTheTruthStep DEF TruthInv, TableInv
<1> QED
  BY <1>1, <1>2 DEF TruthInv

(* The trail of a job records its claims, one per attempt, and their ends, *)
(* alternating, and its last event explains the state the row is in: no    *)
(* transaction changes a job without its event, or records one without the *)
(* change, whatever fails and whoever claims, settles, reaps or cancels    *)
(* (process_job.go, reap_expired.go, cancel_batch.go).                     *)
THEOREM TrailTellsTheTruth == Spec => []TrailMatchesJobs
<1>1. TruthInv => TrailMatchesJobs
  BY TrailParts DEF TruthInv
<1> QED
  BY <1>1, TruthInit, TruthStep, PTL DEF Spec

ClosingInv == TableInv /\ BatchClosedOnce

LEMMA ClosingInit == Init => ClosingInv
BY TableInit DEF Init, BatchClosedOnce, ClosingInv

LEMMA ClosingStep == ClosingInv /\ [Next]_vars => ClosingInv'
<1> SUFFICES ASSUME ClosingInv, [Next]_vars PROVE ClosingInv'
  OBVIOUS
<1>1. TableInv'
  BY TableStep DEF ClosingInv
<1>2. \A b \in Batch : BatchTrailStep(b)
  BY BatchTrail DEF ClosingInv, TableInv
<1> QED
  BY <1>1, <1>2, BatchClosedOnceStep DEF ClosingInv

(* A batch is created once and closed at most once, by one housekeeper or  *)
(* by one cancel, however many of them look at it at the same time         *)
(* (close_batches.go, cancel_batch.go).                                    *)
THEOREM BatchesCloseOnce == Spec => []BatchClosedOnce
<1>1. ClosingInv => BatchClosedOnce
  BY DEF ClosingInv
<1> QED
  BY <1>1, ClosingInit, ClosingStep, PTL DEF Spec
=============================================================================
