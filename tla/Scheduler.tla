----------------------------- MODULE Scheduler ------------------------------
(***************************************************************************)
(* The running system: worker processes, each with the slots of its pool   *)
(* and one housekeeper, and the HTTP server's use cases that create and    *)
(* cancel batches, all meeting in the store.                               *)
(*                                                                         *)
(* Every use case reads the clock BEFORE it opens its transaction, and the *)
(* transaction may then wait for the write lock.  Reading the clock and    *)
(* running the transaction are therefore two actions.  A transaction is    *)
(* one action (see SqlStore).                                              *)
(***************************************************************************)
EXTENDS SqlStore, FiniteSetsExt

CONSTANTS
  Worker,        \* worker processes
  IdOf,          \* IdOf[w]: the identity process w is configured with
  NoJob,
  NotBefore,     \* NotBefore[b]: the submission's not_before, 0 when not given
  ReapLimit,     \* the limit of a ReapExpired round (100 in cmd/worker)
  CloseLimit,    \* the limit of a CloseCompletedBatches round (100)
  Overrun,       \* TRUE: an executor may ignore the deadline of its context
  StoreFaults,   \* TRUE: any transaction may fail (SQLITE_BUSY, disk)
  MaxClock,      \* bound: the clock stops there
  MaxStall       \* bound: how long a transaction may wait for the write lock

(* Nothing checks that two processes have two identities. *)
ASSUME IdentityAssumption == IdOf \in [Worker -> WorkerId]

ASSUME SchedulerAssumption ==
  /\ NoJob \notin Job
  /\ NotBefore \in [Batch -> Nat]
  /\ ReapLimit \in Nat \ {0} /\ CloseLimit \in Nat \ {0}
  /\ Overrun \in BOOLEAN /\ StoreFaults \in BOOLEAN
  /\ MaxClock \in Nat /\ MaxStall \in Nat

VARIABLES
  clock,   \* the wall clock the processes of the host share
  proc,    \* proc[w]: "up", "stopping" (signal received) or "down"
  slot,    \* slot[s]: where the claim-execute-settle loop of slot s is
  keeper   \* keeper[w]: where the housekeeper of process w is

vars == <<jobs, batch, trail, clock, proc, slot, keeper>>

(* The n-th goroutine serving lane l in process w is <<w, l, n>>. *)
Slot ==
  {s \in Worker \X Lane \X (1 .. Max({Capacity[l] : l \in Lane})) : s[3] <= Capacity[s[2]]}
Host(s) == s[1]
Serves(s) == s[2]
OwnerId(s) == IdOf[Host(s)]

(* pc: "idle"  between two calls of ProcessJob.Execute                     *)
(*     "claim" the clock is read (now), the claim transaction is to come   *)
(*     "run"   the executor runs attempt `attempt' of `job' until `until'  *)
(*     "ok", "err" it returned at `now'; the result is still to be settled *)
IdleSlot == [pc |-> "idle", job |-> NoJob, attempt |-> 0, until |-> 0, now |-> 0]
IdleKeeper == [pc |-> "idle", now |-> 0]

SlotPc == {"idle", "claim", "run", "ok", "err"}
SlotState == [pc : SlotPc, job : Job \cup {NoJob}, attempt : Nat, until : Nat, now : Nat]
KeeperState == [pc : {"idle", "reap", "close"}, now : Nat]

Init ==
  /\ jobs = [j \in Job |-> NoRow]
  /\ batch = [b \in Batch |-> "absent"]
  /\ trail = [x \in Job \cup Batch |-> <<>>]
  /\ clock = 1
  /\ proc = [w \in Worker |-> "up"]
  /\ slot = [s \in Slot |-> IdleSlot]
  /\ keeper = [w \in Worker |-> IdleKeeper]

-----------------------------------------------------------------------------
(* The HTTP server. *)

(* SubmitBatch.Execute inserts the batch and its jobs in one transaction;  *)
(* the clock was read at `now', before the scope was expanded.             *)
SubmitBatch(b) ==
  /\ batch[b] = "absent"
  /\ \E now \in 1..clock :
       /\ clock - now <= MaxStall
       /\ jobs' = [j \in Job |-> IF BatchOf[j] = b THEN NewJob(NotBefore[b], now) ELSE jobs[j]]
  /\ batch' = [batch EXCEPT ![b] = "open"]
  /\ trail' = Record([x \in {b} |-> "batch.created"])
  /\ UNCHANGED <<clock, proc, slot, keeper>>

CancelBatch(b) ==
  /\ batch[b] = "open"
  /\ batch' = [batch EXCEPT ![b] = "canceled"]
  /\ jobs' = CancelByBatch(b)
  /\ trail' = Record([x \in {b} |-> "batch.canceled"])
  /\ UNCHANGED <<clock, proc, slot, keeper>>

-----------------------------------------------------------------------------
(* A slot of a worker's pool. *)

(* A transaction of process w may commit only while its context is live:   *)
(* BeginTx and Commit fail once the signal has canceled it.                *)
CanCommit(w) == proc[w] = "up"
MayFail(w) == proc[w] = "stopping" \/ (proc[w] = "up" /\ StoreFaults)

Poll(s) ==
  /\ proc[Host(s)] = "up"
  /\ slot[s].pc = "idle"
  /\ slot' = [slot EXCEPT ![s] = [IdleSlot EXCEPT !.pc = "claim", !.now = clock]]
  /\ UNCHANGED <<jobs, batch, trail, clock, proc, keeper>>

ClaimJob(s) ==
  /\ CanCommit(Host(s))
  /\ slot[s].pc = "claim"
  /\ HasRoom(Serves(s), slot[s].now)
  /\ \E j \in NextClaim(Serves(s), slot[s].now) :
       LET row == Claim(jobs[j], OwnerId(s), slot[s].now)
       IN /\ jobs' = [jobs EXCEPT ![j] = row]
          /\ trail' = Record([x \in {j} |-> "job.claimed"])
          /\ slot' = [slot EXCEPT ![s] = [pc |-> "run", job |-> j, attempt |-> row.attempt,
                                          until |-> row.leaseExpires, now |-> 0]]
  /\ UNCHANGED <<batch, clock, proc, keeper>>

(* Nothing to run, or the lane is full: sleep for the idle delay. *)
ClaimNothing(s) ==
  /\ CanCommit(Host(s))
  /\ slot[s].pc = "claim"
  /\ NextClaim(Serves(s), slot[s].now) = {} \/ ~HasRoom(Serves(s), slot[s].now)
  /\ slot' = [slot EXCEPT ![s] = IdleSlot]
  /\ UNCHANGED <<jobs, batch, trail, clock, proc, keeper>>

(* The executor succeeds or fails (a kind without executor fails at once). *)
(* The settling use case reads the clock first.                            *)
ExecutorReturns(s, outcome) ==
  /\ slot[s].pc = "run"
  /\ slot' = [slot EXCEPT ![s] = [@ EXCEPT !.pc = outcome, !.now = clock]]
  /\ UNCHANGED <<jobs, batch, trail, clock, proc, keeper>>

SettleSuccess(s) ==
  LET j == slot[s].job
  IN /\ CanCommit(Host(s))
     /\ slot[s].pc = "ok"
     /\ HeldBy(jobs[j], OwnerId(s))
     /\ jobs' = [jobs EXCEPT ![j] = Succeed(jobs[j])]
     /\ trail' = Record([x \in {j} |-> "job.succeeded"])
     /\ slot' = [slot EXCEPT ![s] = IdleSlot]
     /\ UNCHANGED <<batch, clock, proc, keeper>>

(* The backoff and the retry decision come from the row as re-read, not    *)
(* from the attempt this slot ran.                                         *)
SettleFailure(s) ==
  LET j == slot[s].job
  IN /\ CanCommit(Host(s))
     /\ slot[s].pc = "err"
     /\ HeldBy(jobs[j], OwnerId(s))
     /\ jobs' = [jobs EXCEPT ![j] = Fail(jobs[j], MaxAttempts[j], slot[s].now)]
     /\ trail' = Record([x \in {j} |-> IF WillRetry(jobs[j], MaxAttempts[j])
                                       THEN "job.failed" ELSE "job.dead"])
     /\ slot' = [slot EXCEPT ![s] = IdleSlot]
     /\ UNCHANGED <<batch, clock, proc, keeper>>

(* ErrLeaseLost or ErrIllegalTransition: the job was canceled, reclaimed   *)
(* or finished meanwhile, and the result is dropped.                       *)
DiscardResult(s) ==
  /\ CanCommit(Host(s))
  /\ slot[s].pc \in {"ok", "err"}
  /\ ~HeldBy(jobs[slot[s].job], OwnerId(s))
  /\ slot' = [slot EXCEPT ![s] = IdleSlot]
  /\ UNCHANGED <<jobs, batch, trail, clock, proc, keeper>>

(* A failed transaction is logged and never retried: the claim is given    *)
(* up, the result lost.                                                    *)
SlotTxFails(s) ==
  /\ MayFail(Host(s))
  /\ slot[s].pc \in {"claim", "ok", "err"}
  /\ slot' = [slot EXCEPT ![s] = IdleSlot]
  /\ UNCHANGED <<jobs, batch, trail, clock, proc, keeper>>

-----------------------------------------------------------------------------
(* The housekeeper of process w: each tick reaps, then closes batches. *)

KeeperTick(w) ==
  /\ proc[w] = "up"
  /\ keeper[w].pc = "idle"
  /\ keeper' = [keeper EXCEPT ![w] = [pc |-> "reap", now |-> clock]]
  /\ UNCHANGED <<jobs, batch, trail, clock, proc, slot>>

(* Slip: a reap that exhausts the tries reports a retry. *)
MutReapEventRetry(j) == "job.reclaimed"
ReapEvent(j) == IF WillRetry(jobs[j], MaxAttempts[j]) THEN "job.reclaimed" ELSE "job.dead"

ReapExpired(w) ==
  /\ CanCommit(w)
  /\ keeper[w].pc = "reap"
  /\ \E stale \in ReclaimExpired(keeper[w].now, ReapLimit) :
       /\ jobs' = [j \in Job |-> IF j \in stale
                                 THEN Fail(jobs[j], MaxAttempts[j], keeper[w].now) ELSE jobs[j]]
       /\ trail' = Record([j \in stale |-> ReapEvent(j)])
  /\ keeper' = [keeper EXCEPT ![w] = [pc |-> "close", now |-> 0]]
  /\ UNCHANGED <<batch, clock, proc, slot>>

CloseCompletedBatches(w) ==
  /\ CanCommit(w)
  /\ keeper[w].pc = "close"
  /\ \E done \in ListCompletable(CloseLimit) :
       /\ batch' = [b \in Batch |-> IF b \in done THEN "done" ELSE batch[b]]
       /\ trail' = Record([b \in done |-> "batch.completed"])
  /\ keeper' = [keeper EXCEPT ![w] = IdleKeeper]
  /\ UNCHANGED <<jobs, clock, proc, slot>>

(* An error is logged; a failed reap does not keep the round from closing. *)
KeeperTxFails(w) ==
  /\ MayFail(w)
  /\ \/ /\ keeper[w].pc = "reap"
        /\ keeper' = [keeper EXCEPT ![w] = [pc |-> "close", now |-> 0]]
     \/ /\ keeper[w].pc = "close"
        /\ keeper' = [keeper EXCEPT ![w] = IdleKeeper]
  /\ UNCHANGED <<jobs, batch, trail, clock, proc, slot>>

-----------------------------------------------------------------------------
(* Processes and time. *)

SlotsOf(w) == {s \in Slot : Host(s) = w}

(* kill -9, a panic, a power cut: what the process held in memory is gone. *)
Crash(w) ==
  /\ proc[w] # "down"
  /\ proc' = [proc EXCEPT ![w] = "down"]
  /\ slot' = [s \in Slot |-> IF Host(s) = w THEN IdleSlot ELSE slot[s]]
  /\ keeper' = [keeper EXCEPT ![w] = IdleKeeper]
  /\ UNCHANGED <<jobs, batch, trail, clock>>

(* SIGINT or SIGTERM cancels the context of every slot and of the keeper. *)
Signal(w) ==
  /\ proc[w] = "up"
  /\ proc' = [proc EXCEPT ![w] = "stopping"]
  /\ UNCHANGED <<jobs, batch, trail, clock, slot, keeper>>

(* run() waits for the slots and the keeper before it returns. *)
Exit(w) ==
  /\ proc[w] = "stopping"
  /\ \A s \in SlotsOf(w) : slot[s].pc = "idle"
  /\ keeper[w].pc = "idle"
  /\ proc' = [proc EXCEPT ![w] = "down"]
  /\ UNCHANGED <<jobs, batch, trail, clock, slot, keeper>>

Restart(w) ==
  /\ proc[w] = "down"
  /\ proc' = [proc EXCEPT ![w] = "up"]
  /\ UNCHANGED <<jobs, batch, trail, clock, slot, keeper>>

(* A transaction waits at most MaxStall, and an executor returns by the    *)
(* deadline of its context unless Overrun.                                 *)
TimeMayPass ==
  /\ \A s \in Slot :
       /\ slot[s].pc = "run" => Overrun \/ clock < slot[s].until
       /\ slot[s].pc \in {"claim", "ok", "err"} => clock < slot[s].now + MaxStall
  /\ \A w \in Worker : keeper[w].pc = "reap" => clock < keeper[w].now + MaxStall

Tick ==
  /\ clock < MaxClock
  /\ TimeMayPass
  /\ clock' = clock + 1
  /\ UNCHANGED <<jobs, batch, trail, proc, slot, keeper>>

-----------------------------------------------------------------------------
Next ==
  \/ \E b \in Batch : SubmitBatch(b) \/ CancelBatch(b)
  \/ \E s \in Slot :
       \/ Poll(s) \/ ClaimJob(s) \/ ClaimNothing(s)
       \/ \E outcome \in {"ok", "err"} : ExecutorReturns(s, outcome)
       \/ SettleSuccess(s) \/ SettleFailure(s) \/ DiscardResult(s) \/ SlotTxFails(s)
  \/ \E w \in Worker :
       \/ KeeperTick(w) \/ ReapExpired(w) \/ CloseCompletedBatches(w) \/ KeeperTxFails(w)
       \/ Crash(w) \/ Signal(w) \/ Exit(w) \/ Restart(w)
  \/ Tick

Spec == Init /\ [][Next]_vars
=============================================================================
