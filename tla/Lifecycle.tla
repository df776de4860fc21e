----------------------------- MODULE Lifecycle ------------------------------
(***************************************************************************)
(* What the scheduler promises to whoever dispatches a batch, without      *)
(* workers, leases, clocks or a store: the life of a job (the diagram at   *)
(* the top of job.go) and of a batch.                                      *)
(*                                                                         *)
(*   - a batch comes with all of its jobs, or not at all;                  *)
(*   - a job is tried at most MaxAttempts times, is dead only after that   *)
(*     many tries, and never leaves a terminal state;                      *)
(*   - canceling a batch settles each of its jobs at once;                 *)
(*   - a batch is done only when each of its jobs is settled;              *)
(*   - every batch is closed in the end.                                   *)
(***************************************************************************)
EXTENDS Naturals

CONSTANTS Job, Batch, BatchOf, MaxAttempts

VARIABLES
  state,    \* state[j], "absent" before the job's batch is dispatched
  tries,    \* tries[j]: how often job j was started
  batch

vars == <<state, tries, batch>>

Settled(j) == state[j] \in {"succeeded", "dead", "canceled"}

Init ==
  /\ state = [j \in Job |-> "absent"]
  /\ tries = [j \in Job |-> 0]
  /\ batch = [b \in Batch |-> "absent"]

Dispatch(b) ==
  /\ batch[b] = "absent"
  /\ batch' = [batch EXCEPT ![b] = "open"]
  /\ state' = [j \in Job |-> IF BatchOf[j] = b THEN "pending" ELSE state[j]]
  /\ UNCHANGED tries

Cancel(b) ==
  /\ batch[b] = "open"
  /\ batch' = [batch EXCEPT ![b] = "canceled"]
  /\ state' = [j \in Job |-> IF BatchOf[j] = b /\ ~Settled(j) THEN "canceled" ELSE state[j]]
  /\ UNCHANGED tries

(* One housekeeping round may close several batches. *)
Close(S) ==
  /\ \A b \in S : batch[b] = "open"
  /\ \A j \in Job : BatchOf[j] \in S => Settled(j)
  /\ batch' = [b \in Batch |-> IF b \in S THEN "done" ELSE batch[b]]
  /\ UNCHANGED <<state, tries>>

Start(j) ==
  /\ state[j] = "pending"
  /\ tries[j] < MaxAttempts[j]
  /\ state' = [state EXCEPT ![j] = "running"]
  /\ tries' = [tries EXCEPT ![j] = @ + 1]
  /\ UNCHANGED batch

Finish(j) ==
  /\ state[j] = "running"
  /\ state' = [state EXCEPT ![j] = "succeeded"]
  /\ UNCHANGED <<tries, batch>>

(* A failed or abandoned try: again, or given up.  A reaper's round may    *)
(* do this to several jobs.                                                *)
Miss(S) ==
  /\ \A j \in S : state[j] = "running"
  /\ state' = [j \in Job |-> IF j \notin S THEN state[j]
                             ELSE IF tries[j] < MaxAttempts[j] THEN "pending" ELSE "dead"]
  /\ UNCHANGED <<tries, batch>>

Next ==
  \/ \E b \in Batch : Dispatch(b) \/ Cancel(b)
  \/ \E S \in SUBSET Batch : Close(S)
  \/ \E j \in Job : Start(j) \/ Finish(j)
  \/ \E S \in SUBSET Job : Miss(S)

Spec == Init /\ [][Next]_vars

(* The promise of progress: no batch stays open for ever, and when it is   *)
(* closed each of its jobs has reached a terminal state.                   *)
EveryBatchEnds ==
  \A b \in Batch :
    batch[b] = "open" ~> /\ batch[b] \in {"done", "canceled"}
                         /\ \A j \in Job : BatchOf[j] = b => Settled(j)
=============================================================================
