------------------------- MODULE SchedulerProperties ------------------------
(* What the scheduler promises, and what its documents say it promises.    *)
EXTENDS Scheduler

(***************************************************************************)
(* Type invariant.                                                         *)
(***************************************************************************)
TypeOK ==
  /\ jobs \in [Job -> Row]
  /\ batch \in [Batch -> BatchState]
  /\ trail \in [Job \cup Batch -> Seq(EventType)]
  /\ clock \in Nat
  /\ proc \in [Worker -> {"up", "stopping", "down"}]
  /\ slot \in [Slot -> SlotState]
  /\ keeper \in [Worker -> KeeperState]

-----------------------------------------------------------------------------
(* Safety invariants. *)

(* Retries are bounded whatever fails in between - executor, process or    *)
(* store: a job that may still run has a try left, a running one is within *)
(* its budget, and only a job out of tries is in the dead letter state     *)
(* (job.go Fail, Reclaim; Claim's attempt + 1).                            *)
AttemptBudget ==
  \A j \in Job :
    /\ jobs[j].state = "pending" => jobs[j].attempt < MaxAttempts[j]
    /\ jobs[j].state \in {"running", "succeeded"} => jobs[j].attempt \in 1..MaxAttempts[j]
    /\ jobs[j].state = "dead" => jobs[j].attempt = MaxAttempts[j]

(* At no moment are more leases of a lane live than its capacity, however  *)
(* many processes claim and however old the clock reading was with which   *)
(* Claim counted them (job_repo.go Claim: the global bound, kept by the    *)
(* database).                                                              *)
LaneCapacity == \A l \in Lane : Cardinality(Busy(l, clock)) <= Capacity[l]

(* A batch shown as done or canceled has no job that could still run, be   *)
(* retried or be reclaimed (close_batches.go, cancel_batch.go).            *)
BatchSettled ==
  \A j \in Job : batch[BatchOf[j]] \in {"done", "canceled"} => IsTerminal(jobs[j])

(* The audit trail agrees with the jobs table after every transaction: a   *)
(* claim recorded per attempt, attempts and outcomes alternating, and the  *)
(* last event naming what brought the job to its state; a canceled job is  *)
(* exempt from the last part (job_events against jobs).                    *)
Claims(j) == Cardinality({i \in DOMAIN trail[j] : trail[j][i] = "job.claimed"})
LastEvent(j) == IF trail[j] = <<>> THEN "none" ELSE trail[j][Len(trail[j])]
ExplainedBy(j) ==
  CASE jobs[j].state = "absent" -> {"none"}
    [] jobs[j].state = "pending" ->
         IF jobs[j].attempt = 0 THEN {"none"} ELSE {"job.failed", "job.reclaimed"}
    [] jobs[j].state = "running" -> {"job.claimed"}
    [] jobs[j].state = "succeeded" -> {"job.succeeded"}
    [] jobs[j].state = "dead" -> {"job.dead"}
    [] jobs[j].state = "canceled" -> {"none", "job.claimed", "job.failed", "job.reclaimed"}
TrailMatchesJobs ==
  \A j \in Job :
    /\ Claims(j) = jobs[j].attempt
    /\ \A i \in DOMAIN trail[j] : trail[j][i] = "job.claimed" <=> i % 2 = 1
    /\ LastEvent(j) \in ExplainedBy(j)

(* A batch is created once and closed at most once, by one housekeeper or  *)
(* by a cancel, never by two of them (housekeeper.go:19).                  *)
BatchClosedOnce ==
  \A b \in Batch :
    trail[b] = CASE batch[b] = "absent" -> <<>>
                 [] batch[b] = "open" -> <<"batch.created">>
                 [] batch[b] = "done" -> <<"batch.created", "batch.completed">>
                 [] batch[b] = "canceled" -> <<"batch.created", "batch.canceled">>

-----------------------------------------------------------------------------
(* What holds between the slots, which run attempts, and the table, which  *)
(* grants them.                                                            *)

Occupied(s) == slot[s].pc \in {"run", "ok", "err"}

(* Timing assumption: executors obey their deadline, no transaction waits  *)
(* as long as the shortest backoff, nor longer than a lease lasts.         *)
Timely ==
  /\ ~Overrun
  /\ MaxStall <= LeaseFor
  /\ \A j \in Job : \A a \in 1..MaxAttempts[j] : MaxStall < Backoff[a]

(* No job is worked on by two slots, anywhere, at the same time: from the  *)
(* claim until the result is settled (README "no double execution").       *)
ExclusiveExecution ==
  \A s, t \in Slot : s # t /\ Occupied(s) /\ Occupied(t) => slot[s].job # slot[t].job

(* The claim of a slot stays good until its deadline: until then the row   *)
(* says that its process runs this attempt, unless the batch was canceled  *)
(* under it.  So nobody reclaims, re-claims or settles an attempt that may *)
(* still be running.                                                       *)
ClaimStaysGood ==
  \A s \in Slot :
    Occupied(s) /\ clock < slot[s].until =>
      LET row == jobs[slot[s].job]
      IN \/ /\ HeldBy(row, OwnerId(s))
            /\ row.attempt = slot[s].attempt
            /\ row.leaseExpires = slot[s].until
         \/ row.state = "canceled"

(* The executions under way on a lane that were not canceled and are       *)
(* within their deadline, over all processes.                              *)
Executing(l) ==
  {s \in Slot : Serves(s) = l /\ slot[s].pc = "run" /\ clock < slot[s].until}
ExecutionsWithinCapacity ==
  \A l \in Lane :
    Cardinality({s \in Executing(l) : jobs[slot[s].job].state # "canceled"}) <= Capacity[l]

-----------------------------------------------------------------------------
(* Action properties. *)

(* succeeded, dead and canceled are final: no late result, reap, claim or  *)
(* cancel moves a job out of them, nor touches anything of its row         *)
(* (job.go:19).                                                            *)
TerminalFinal ==
  [][\A j \in Job : IsTerminal(jobs[j]) => jobs'[j] = jobs[j]]_vars

(* While its lease is live, a running job goes back to pending, or to      *)
(* dead, only because a process of the identity that holds it reports a    *)
(* failure; the reaper, even with an old clock reading, waits for the      *)
(* lease.                                                                  *)
NoPrematureReclaim ==
  [][\A j \in Job :
       /\ jobs[j].state = "running"
       /\ clock < jobs[j].leaseExpires
       /\ jobs'[j].state \in {"pending", "dead"}
       => \E s \in Slot : /\ slot[s].pc = "err" /\ slot'[s].pc = "idle"
                          /\ slot[s].job = j /\ OwnerId(s) = jobs[j].leaseOwner]_vars

(* The row a slot takes out of "running" is at the attempt the slot ran. *)
OwnSettlement ==
  \A s \in Slot :
    /\ slot[s].pc \in {"ok", "err"}
    /\ slot'[s].pc = "idle"
    /\ jobs[slot[s].job].state = "running"
    /\ jobs'[slot[s].job].state # "running"
    => jobs[slot[s].job].attempt = slot[s].attempt

(* The result of an attempt that was reclaimed is void (README.md:592,     *)
(* process_job.go:120): a settlement that is accepted settles the very     *)
(* attempt the slot ran, though nothing but the owner is compared.  Either *)
(* of two conditions suffices: Timely, or OwnersTellSlotsApart.            *)
SettlesOwnAttempt == [][OwnSettlement]_vars

(* Serial lanes, and an identity of its own for every process. *)
OwnersTellSlotsApart ==
  \A s, t \in Slot : s # t /\ Serves(s) = Serves(t) => OwnerId(s) # OwnerId(t)

-----------------------------------------------------------------------------
(* The scheduler implements the life of jobs and batches: workers, leases, *)
(* lost results, late settlements and reaping show to the outside only as  *)
(* the moves of Lifecycle, and an attempt is a try.                        *)
stateOf == [j \in Job |-> jobs[j].state]
triesOf == [j \in Job |-> jobs[j].attempt]
Life == INSTANCE Lifecycle WITH state <- stateOf, tries <- triesOf
ImplementsLifecycle == Life!Spec

-----------------------------------------------------------------------------
(* The inductive strengthenings the proofs rest on. *)

(* The parts of what a slot, a keeper or a batch remembers that the table  *)
(* invariants need: a slot at work has a job, no clock reading is from the *)
(* future, and a batch is there exactly when its jobs are.                 *)
SlotsHaveJobs == \A s \in Slot : Occupied(s) => slot[s].job \in Job
ReadingsArePast ==
  /\ \A s \in Slot : slot[s].now <= clock
  /\ \A w \in Worker : keeper[w].now <= clock
JobsComeWithBatch ==
  \A j \in Job : batch[BatchOf[j]] = "absent" <=> jobs[j].state = "absent"

(* Inductive with no assumption on timing (job_repo.go, process_job.go,    *)
(* reap_expired.go, cancel_batch.go together).                             *)
TableInv ==
  /\ TypeOK
  /\ SlotsHaveJobs
  /\ ReadingsArePast
  /\ JobsComeWithBatch
  /\ AttemptBudget
  /\ LaneCapacity
  /\ BatchSettled

(* A slot keeps its job no longer than MaxStall past the deadline. *)
SlotIsTimely(s) ==
  /\ slot[s].pc = "claim" => clock <= slot[s].now + MaxStall
  /\ slot[s].pc = "run" => clock <= slot[s].until
  /\ slot[s].pc \in {"ok", "err"} => /\ slot[s].now <= slot[s].until
                                     /\ clock <= slot[s].now + MaxStall

(* What the table says of the attempt a slot is occupied with: no later    *)
(* one has begun, and one that was reclaimed becomes available again only  *)
(* after the slot must have let go of it.                                  *)
RowOfAttempt(s) ==
  LET row == jobs[slot[s].job]
  IN /\ row.attempt = slot[s].attempt
     /\ row.state \in {"running", "pending", "dead", "canceled"}
     /\ row.state = "running" => /\ row.leaseOwner = OwnerId(s)
                                 /\ row.leaseExpires = slot[s].until
     /\ row.state = "pending" => row.availableAt > slot[s].until + MaxStall
     /\ row.state \in {"pending", "dead"} => slot[s].until <= clock
     /\ LaneOf[slot[s].job] = Serves(s)

(* Inductive, beside TableInv, when the timing assumption holds. *)
TimedInv ==
  /\ ExclusiveExecution
  /\ \A s \in Slot : SlotIsTimely(s)
  /\ \A s \in Slot : Occupied(s) => RowOfAttempt(s)

(* A slot is told apart by its owner: what is held in its name is the      *)
(* attempt it runs.  Inductive, beside TableInv, when OwnersTellSlotsApart *)
(* holds, however long executions and transactions take.                   *)
HeldIsOwn(s) ==
  /\ LaneOf[slot[s].job] = Serves(s)
  /\ HeldBy(jobs[slot[s].job], OwnerId(s)) => jobs[slot[s].job].attempt = slot[s].attempt
OwnInv == \A s \in Slot : Occupied(s) => HeldIsOwn(s)

-----------------------------------------------------------------------------
(* What a document says and the code does not keep. *)

(* lane.go:13: on a serial lane one task runs at a time, globally. *)
SerialLaneExclusive ==
  \A l \in Lane : Capacity[l] = 1 => Cardinality(Executing(l)) <= 1
=============================================================================
