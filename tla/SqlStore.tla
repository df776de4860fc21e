------------------------------ MODULE SqlStore ------------------------------
(***************************************************************************)
(* The SQL of the store adapter (internal/adapter/outbound/sqlstore) as    *)
(* state functions of the jobs and batches tables: which rows a statement  *)
(* selects, in which order, and what it writes.                            *)
(*                                                                         *)
(* Every transaction is BEGIN IMMEDIATE on one SQLite file, so it runs     *)
(* alone: a statement below is evaluated inside one atomic action.         *)
(***************************************************************************)
EXTENDS Scheduling, Sequences, FiniteSets

CONSTANTS
  Job,          \* every job some submission would insert
  Batch,        \* every batch some submission would create
  Lane,
  BatchOf,      \* the batch_id, lane, priority and max_attempts columns,
  LaneOf,       \*   which nothing updates
  Priority,
  MaxAttempts,
  Capacity,     \* Capacity[l]: concurrent jobs the topology allows lane l
  LeaseFor      \* SCHED_LEASE_DURATION

ASSUME TopologyAssumption ==
  /\ IsFiniteSet(Job)
  /\ Job \cap Batch = {}
  /\ BatchOf \in [Job -> Batch]
  /\ LaneOf \in [Job -> Lane]
  /\ Priority \in [Job -> Nat]
  /\ Capacity \in [Lane -> Nat \ {0}]  \* NewLane rejects capacity <= 0
  /\ LeaseFor \in Nat \ {0}

(* withDefaults turns max_attempts <= 0 into 3. *)
ASSUME AttemptAssumption ==
  /\ MaxAttempts \in [Job -> Nat \ {0}]
  /\ \A j \in Job : \A a \in 1..MaxAttempts[j] : Backoff[a] \in Nat

VARIABLES
  jobs,   \* the jobs table
  batch,  \* the state column of the batches table
  trail   \* the job_events table, by the job or the batch an event is about

-----------------------------------------------------------------------------
(* Claim: the pending rows of the lane, in the order ORDER BY puts them.   *)
(* created_at, the last key, is not in the model: a tie on the other two   *)
(* is broken either way.                                                   *)
Claimable(l, now) ==
  {j \in Job : LaneOf[j] = l /\ jobs[j].state = "pending" /\ jobs[j].availableAt <= now}

Precedes(i, j) ==
  \/ Priority[i] > Priority[j]
  \/ Priority[i] = Priority[j] /\ jobs[i].availableAt < jobs[j].availableAt

NextClaim(l, now) ==
  {j \in Claimable(l, now) : \A i \in Claimable(l, now) : ~Precedes(i, j)}

(* The running rows whose lease is live at t; Claim counts them against    *)
(* the capacity, so that a dead worker's leases do not block the lane.     *)
Busy(l, t) ==
  {j \in Job : LaneOf[j] = l /\ jobs[j].state = "running" /\ jobs[j].leaseExpires > t}

(* Slips: <= for <, and counting the leases live at the wrong time. *)
MutHasRoomOneMore(l, now) == Cardinality(Busy(l, now)) <= Capacity[l]
MutHasRoomLater(l, now) == Cardinality(Busy(l, now + LeaseFor)) < Capacity[l]

HasRoom(l, now) == Cardinality(Busy(l, now)) < Capacity[l]

(* Slip: the attempt is not counted. *)
MutClaimUncounted(row, owner, now) ==
  [row EXCEPT !.state = "running", !.leaseOwner = owner, !.leaseExpires = now + LeaseFor]

Claim(row, owner, now) ==
  [row EXCEPT !.state = "running", !.attempt = @ + 1,
              !.leaseOwner = owner, !.leaseExpires = now + LeaseFor]

-----------------------------------------------------------------------------
(* A LIMIT n: n rows, or all when there are fewer. *)
Limited(S, n) ==
  {T \in SUBSET S : Cardinality(T) = IF Cardinality(S) < n THEN Cardinality(S) ELSE n}

(* Slip: only what has a try left is worth reclaiming. *)
MutReclaimRetriable(now, limit) ==
  Limited({j \in Job : CanReclaim(jobs[j], now) /\ WillRetry(jobs[j], MaxAttempts[j])}, limit)

(* ReclaimExpired: expired leases, the oldest first. *)
ReclaimExpired(now, limit) ==
  LET expired == {j \in Job : CanReclaim(jobs[j], now)}
  IN {stale \in Limited(expired, limit) :
        \A i \in stale, k \in expired \ stale : jobs[i].leaseExpires <= jobs[k].leaseExpires}

(* Slip: the batch's own state is not looked at. *)
MutListCompletableAny(limit) ==
  Limited({b \in Batch : /\ batch[b] # "absent"
                         /\ ~\E j \in Job : /\ BatchOf[j] = b
                                            /\ jobs[j].state \in {"pending", "running"}},
          limit)

(* ListCompletable: NOT EXISTS a pending or running job.  Its order is the *)
(* creation order of batches, which the model leaves open.                 *)
ListCompletable(limit) ==
  Limited({b \in Batch : /\ batch[b] = "open"
                         /\ ~\E j \in Job : /\ BatchOf[j] = b
                                            /\ jobs[j].state \in {"pending", "running"}},
          limit)

(* Slip: only what has not started is canceled. *)
MutCancelPendingOnly(b) ==
  [j \in Job |-> IF BatchOf[j] = b /\ jobs[j].state = "pending"
                 THEN Cancel(jobs[j]) ELSE jobs[j]]

(* CancelByBatch leaves terminal rows as they are. *)
CancelByBatch(b) ==
  [j \in Job |-> IF BatchOf[j] = b /\ jobs[j].state \in {"pending", "running"}
                 THEN Cancel(jobs[j]) ELSE jobs[j]]

(* One event per subject in the domain of ev, appended in the same         *)
(* transaction as the rows it is about.                                    *)
Record(ev) ==
  [x \in Job \cup Batch |-> IF x \in DOMAIN ev THEN Append(trail[x], ev[x]) ELSE trail[x]]
=============================================================================
