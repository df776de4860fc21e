------------------------------ MODULE Forever -------------------------------
(***************************************************************************)
(* The scheduler without an end of time, for liveness: the actions are     *)
(* those of Scheduler, and once the clock has reached MaxClock time goes   *)
(* on by ageing every moment the system remembers.  A moment at or before  *)
(* Floor lies in the past of any reading a transaction may still act on,   *)
(* so it need not age further: only the order of long past moments is      *)
(* forgotten, and with it the order of claims and reaps that depend on it. *)
(*                                                                         *)
(* Crashes, signals and restarts never cease.                              *)
(***************************************************************************)
EXTENDS SchedulerProperties

(* Were no transaction to take any time, transactions that overlap could   *)
(* keep time from passing at all.                                          *)
ASSUME ClockAssumption == MaxStall >= 1 /\ MaxClock = MaxStall + 1

Floor == MaxClock - MaxStall
Aged(t) == IF t <= Floor THEN t ELSE t - 1

Shift ==
  /\ clock = MaxClock
  /\ TimeMayPass
  /\ jobs' = [j \in Job |-> [jobs[j] EXCEPT !.availableAt = Aged(@), !.leaseExpires = Aged(@)]]
  /\ slot' = [s \in Slot |-> [slot[s] EXCEPT !.until = Aged(@), !.now = Aged(@)]]
  /\ keeper' = [w \in Worker |-> [keeper[w] EXCEPT !.now = Aged(@)]]
  /\ UNCHANGED <<batch, trail, clock, proc>>

TimePasses == Tick \/ Shift

ForeverNext == Next \/ Shift

-----------------------------------------------------------------------------
(* A goroutine that can go on does: an executor returns, a result is       *)
(* settled or dropped, a transaction whose context the signal has canceled *)
(* is given up; a stopped process exits, and is started again.             *)
SlotGoesOn(s) ==
  \/ \E outcome \in {"ok", "err"} : ExecutorReturns(s, outcome)
  \/ SettleSuccess(s) \/ SettleFailure(s) \/ DiscardResult(s) \/ ClaimNothing(s)
  \/ proc[Host(s)] = "stopping" /\ SlotTxFails(s)

ProcessGoesOn(w) ==
  \/ Exit(w) \/ Restart(w)
  \/ proc[w] = "stopping" /\ KeeperTxFails(w)

(* Of processes that crash, or are told to stop, again and again, and of a *)
(* store that fails again and again, it is only assumed that each step     *)
(* gets through now and then: strong fairness, for a lane of any of its    *)
(* slots.                                                                  *)
Fairness ==
  /\ WF_vars(TimePasses)
  /\ \A s \in Slot : WF_vars(SlotGoesOn(s))
  /\ \A l \in Lane :
       /\ SF_vars(\E s \in Slot : Serves(s) = l /\ Poll(s))
       /\ SF_vars(\E s \in Slot : Serves(s) = l /\ ClaimJob(s))
  /\ \A w \in Worker :
       /\ WF_vars(ProcessGoesOn(w))
       /\ SF_vars(KeeperTick(w)) /\ SF_vars(ReapExpired(w)) /\ SF_vars(CloseCompletedBatches(w))

ForeverSpec == Init /\ [][ForeverNext]_vars /\ Fairness

-----------------------------------------------------------------------------
(* Every dispatched batch ends: each job of it is claimed and run, and if  *)
(* its worker dies or its result is lost reclaimed and run again, until it *)
(* succeeded, is dead or was canceled; and then the batch is closed        *)
(* (housekeeper.go:11: else crashed jobs would be stuck for ever, and      *)
(* finished batches show as in progress for ever).                         *)
EveryBatchEnds == Life!EveryBatchEnds
=============================================================================
