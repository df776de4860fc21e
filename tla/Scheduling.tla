----------------------------- MODULE Scheduling -----------------------------
(***************************************************************************)
(* The domain layer (internal/domain/scheduling): what a job and a batch   *)
(* are, and the transitions their methods allow.  A job is modelled by     *)
(* its row of the jobs table, restricted to the columns the transitions    *)
(* read; the methods are operators from a row to the row they leave.       *)
(*                                                                         *)
(* Times are natural numbers of an abstract unit.  0 stands for Go's zero  *)
(* time, which the store keeps as 0 milliseconds.                          *)
(***************************************************************************)
EXTENDS Naturals

CONSTANTS
  WorkerId,  \* worker identities (SCHED_WORKER_ID), the owners of leases
  NoWorker,  \* the empty lease_owner
  Backoff    \* Backoff[a]: what BackoffFor returns after attempt a failed

ASSUME NoWorkerAssumption == NoWorker \notin WorkerId

TerminalState == {"succeeded", "dead", "canceled"}

(* "absent": the row has not been inserted. *)
JobState == {"absent", "pending", "running"} \cup TerminalState

BatchState == {"absent", "open", "done", "canceled"}

(* The event types some use case writes.  The source also declares         *)
(* job.enqueued and job.canceled; nothing emits them.                      *)
JobEvent == {"job.claimed", "job.succeeded", "job.failed", "job.dead", "job.reclaimed"}
BatchEvent == {"batch.created", "batch.completed", "batch.canceled"}
EventType == JobEvent \cup BatchEvent

Row == [state : JobState,
        attempt : Nat,
        availableAt : Nat,
        leaseOwner : WorkerId \cup {NoWorker},
        leaseExpires : Nat]

NoRow == [state |-> "absent", attempt |-> 0, availableAt |-> 0,
          leaseOwner |-> NoWorker, leaseExpires |-> 0]

IsTerminal(row) == row.state \in TerminalState

(* notBefore = 0 is the zero time: run as soon as possible. *)
NewJob(notBefore, now) ==
  [state |-> "pending", attempt |-> 0,
   availableAt |-> IF notBefore = 0 THEN now ELSE notBefore,
   leaseOwner |-> NoWorker, leaseExpires |-> 0]

(* Slip: settle without looking at the row again. *)
MutHeldByAnyone(row, owner) == TRUE

(* assertHeldBy looks at the state and the owner, at nothing else: neither *)
(* the attempt the caller ran nor the expiry of the lease.                 *)
HeldBy(row, owner) == row.state = "running" /\ row.leaseOwner = owner

ClearLease(row) == [row EXCEPT !.leaseOwner = NoWorker, !.leaseExpires = 0]

Succeed(row) == [ClearLease(row) EXCEPT !.state = "succeeded"]

(* Slip: one try too many. *)
MutWillRetryOnceMore(row, maxAttempts) == row.attempt <= maxAttempts

WillRetry(row, maxAttempts) == row.attempt < maxAttempts

(* Slip: retry at once. *)
MutFailNoBackoff(row, maxAttempts, now) ==
  IF WillRetry(row, maxAttempts)
  THEN [ClearLease(row) EXCEPT !.state = "pending", !.availableAt = now]
  ELSE [ClearLease(row) EXCEPT !.state = "dead"]

Fail(row, maxAttempts, now) ==
  IF WillRetry(row, maxAttempts)
  THEN [ClearLease(row) EXCEPT !.state = "pending",
                               !.availableAt = now + Backoff[row.attempt]]
  ELSE [ClearLease(row) EXCEPT !.state = "dead"]

(* Slips: reclaim any running job, or one unit before its lease ends. *)
MutCanReclaimRunning(row, now) == row.state = "running"
MutCanReclaimEarly(row, now) == row.state = "running" /\ row.leaseExpires <= now + 1

(* Reclaim is Fail in the name of the owner, once the lease has run out. *)
CanReclaim(row, now) == row.state = "running" /\ row.leaseExpires <= now

(* Slip: the other spelling, which no query knows. *)
MutCancelSpelling(row) == [ClearLease(row) EXCEPT !.state = "cancelled"]

Cancel(row) == IF IsTerminal(row) THEN row ELSE [ClearLease(row) EXCEPT !.state = "canceled"]
=============================================================================
