----------------------------- MODULE WorkerPool -----------------------------
(***************************************************************************)
(* The goroutines of one worker process: for every lane its slots and, if  *)
(* the lane is rate-limited, a token source; and the housekeeper.  What    *)
(* they do to the tables is Scheduler's; here it is when they do it, and   *)
(* how they end.                                                           *)
(***************************************************************************)
EXTENDS Config, FiniteSets

CONSTANTS
  MaxLanes, MaxCapacity,  \* bound: the largest topology
  MaxDelay,               \* 30 s
  HalfRange               \* 2^63: a duration is an int64

ASSUME DelayAssumption ==
  MaxDelay \in Nat \ {0} /\ HalfRange \in Nat /\ 2 * MaxDelay < HalfRange

Duration == -HalfRange .. (HalfRange - 1)

VARIABLES
  lanes,     \* the lanes of the running pool
  idleDelay, \* Pool.idleDelay, the poll interval of its configuration
  canceled,  \* the signal has canceled the context all goroutines share
  slot,      \* slot[s]: where runSlot is, and its backoff
  source,    \* source[l]: where the token source of lane l is
  ticks,     \* ticks[l]: the tick its ticker holds, 0 or 1; further ones are lost
  ahead,     \* ahead[l]: hand-overs minus ticks, at most, over the past
  keeper     \* where Housekeeper.Run is

poolVars == <<lanes, idleDelay, canceled, slot, source, ticks, ahead, keeper>>

Lane == 1 .. MaxLanes
Slot == Lane \X (1 .. MaxCapacity)

(* A goroutine that was not started is "none", one that is over "returned". *)
NoSlot == [pc |-> "none", delay |-> 0]

Limited(l) == l \in DOMAIN lanes /\ lanes[l].kind = "rate_limited"

PoolInit ==
  /\ lanes = <<>> /\ idleDelay = 0 /\ canceled = FALSE
  /\ slot = [s \in Slot |-> NoSlot]
  /\ source = [l \in Lane |-> "none"]
  /\ ticks = [l \in Lane |-> 0] /\ ahead = [l \in Lane |-> 0]
  /\ keeper = "none"

StartPool(topology, poll, signaled) ==
  /\ lanes' = topology /\ idleDelay' = poll /\ canceled' = signaled
  /\ slot' = [s \in Slot |->
       IF s[1] \in DOMAIN topology /\ s[2] <= topology[s[1]].capacity
       THEN [pc |-> "loop", delay |-> poll] ELSE NoSlot]
  /\ source' = [l \in Lane |->
       IF l \in DOMAIN topology /\ topology[l].kind = "rate_limited" THEN "wait" ELSE "none"]
  /\ ticks' = [l \in Lane |-> 0] /\ ahead' = [l \in Lane |-> 0]
  /\ keeper' = "wait"

-----------------------------------------------------------------------------
(* runSlot *)

Goto(s, pc) == slot' = [slot EXCEPT ![s].pc = pc]

LoopTop(s) ==
  /\ slot[s].pc = "loop"
  /\ Goto(s, IF canceled THEN "returned" ELSE IF Limited(s[1]) THEN "token" ELSE "claim")
  /\ UNCHANGED <<lanes, idleDelay, canceled, source, ticks, ahead, keeper>>

(* Slip: only the token is waited for. *)
MutTokenWaitDeaf(s) == FALSE

TokenWaitEnds(s) == canceled /\ slot[s].pc = "token"

TokenCanceled(s) ==
  /\ TokenWaitEnds(s)
  /\ Goto(s, "returned")
  /\ UNCHANGED <<lanes, idleDelay, canceled, source, ticks, ahead, keeper>>

(* ProcessJob.Execute returns an error only when its claim fails: what the *)
(* executor reports, and a settlement that fails, are dealt with inside.   *)
ClaimOutcome == {"job", "nothing", "store_error"}
RunOutcome == {"ok", "failed", "timed_out", "unsettled"}

(* Slip: the executor's error is passed on. *)
MutErrorOfExecutor(outcome) ==
  CASE outcome = "store_error" -> IF canceled THEN "context" ELSE "store"
    [] outcome = "timed_out" -> "context"
    [] OTHER -> "nil"

(* BeginTx and Commit report the canceled context. *)
ErrorOf(outcome) ==
  IF outcome # "store_error" THEN "nil" ELSE IF canceled THEN "context" ELSE "store"

Returns(s, outcome) ==
  LET worked == outcome \in RunOutcome
  IN slot' = [slot EXCEPT ![s] =
       CASE ErrorOf(outcome) = "context" -> [@ EXCEPT !.pc = "returned"]
         [] ErrorOf(outcome) = "store" -> [@ EXCEPT !.pc = "retry"]
         [] OTHER -> [pc |-> IF worked THEN "loop" ELSE "idle", delay |-> idleDelay]]

ClaimReturns(s, outcome) ==
  /\ slot[s].pc = "claim"
  /\ canceled => outcome = "store_error"
  /\ IF outcome = "job" THEN Goto(s, "run") ELSE Returns(s, outcome)
  /\ UNCHANGED <<lanes, idleDelay, canceled, source, ticks, ahead, keeper>>

RunReturns(s, outcome) ==
  /\ slot[s].pc = "run"
  /\ canceled => outcome # "ok"  \* nothing can be settled any more
  /\ Returns(s, outcome)
  /\ UNCHANGED <<lanes, idleDelay, canceled, source, ticks, ahead, keeper>>

(* d *= 2, as an int64 does it. *)
Doubled(d) ==
  IF 2 * d >= HalfRange THEN 2 * d - 2 * HalfRange
  ELSE IF 2 * d < -HalfRange THEN 2 * d + 2 * HalfRange ELSE 2 * d

(* Slip: no limit. *)
MutNextBackoffUnlimited(d) == Doubled(d)
nextBackoff(d) == IF Doubled(d) > MaxDelay THEN MaxDelay ELSE Doubled(d)

(* sleepCtx: the delay is over, or the context is; a delay that is not     *)
(* positive is over at once.                                               *)
SleepEnds(s) ==
  /\ slot[s].pc \in {"idle", "retry"}
  /\ \/ canceled /\ Goto(s, "returned")
     \/ slot[s].pc = "idle" /\ Goto(s, "loop")
     \/ /\ slot[s].pc = "retry"
        /\ slot' = [slot EXCEPT ![s] = [pc |-> "loop", delay |-> nextBackoff(@.delay)]]
  /\ UNCHANGED <<lanes, idleDelay, canceled, source, ticks, ahead, keeper>>

-----------------------------------------------------------------------------
(* The token source of a rate-limited lane. *)

TickerFires(l) ==
  /\ source[l] \in {"wait", "offer"}
  /\ ticks' = [ticks EXCEPT ![l] = 1]
  /\ ahead' = [ahead EXCEPT ![l] = IF @ = 0 THEN 0 ELSE @ - 1]
  /\ UNCHANGED <<lanes, idleDelay, canceled, slot, source, keeper>>

TakeTick(l) ==
  /\ source[l] = "wait" /\ ticks[l] = 1
  /\ source' = [source EXCEPT ![l] = "offer"]
  /\ ticks' = [ticks EXCEPT ![l] = 0]
  /\ UNCHANGED <<lanes, idleDelay, canceled, slot, ahead, keeper>>

Waiting(l) == {s \in Slot : s[1] = l /\ slot[s].pc = "token"}

(* Slip: every slot that waits is served, as if each had its own ticker. *)
MutServedAll(l) == {Waiting(l)}
Served(l) == {{s} : s \in Waiting(l)}

HandOver(l) ==
  /\ source[l] = "offer"
  /\ \E S \in Served(l) :
       /\ S # {}
       /\ slot' = [s \in Slot |-> IF s \in S THEN [slot[s] EXCEPT !.pc = "claim"] ELSE slot[s]]
       /\ ahead' = [ahead EXCEPT ![l] = @ + Cardinality(S)]
  /\ source' = [source EXCEPT ![l] = "wait"]
  /\ UNCHANGED <<lanes, idleDelay, canceled, ticks, keeper>>

(* Nobody waits: the token is void. *)
DropToken(l) ==
  /\ source[l] = "offer" /\ Waiting(l) = {} /\ ~canceled
  /\ source' = [source EXCEPT ![l] = "wait"]
  /\ UNCHANGED <<lanes, idleDelay, canceled, slot, ticks, ahead, keeper>>

SourceCanceled(l) ==
  /\ canceled /\ source[l] \in {"wait", "offer"}
  /\ source' = [source EXCEPT ![l] = "returned"]
  /\ UNCHANGED <<lanes, idleDelay, canceled, slot, ticks, ahead, keeper>>

-----------------------------------------------------------------------------
(* Housekeeper.Run: a select between the tick and the context, which picks *)
(* either when both are ready.                                             *)
KeeperRound ==
  /\ keeper \in {"wait", "round"}
  /\ keeper' = IF keeper = "wait" THEN "round" ELSE "wait"
  /\ UNCHANGED <<lanes, idleDelay, canceled, slot, source, ticks, ahead>>

KeeperCanceled ==
  /\ canceled /\ keeper = "wait"
  /\ keeper' = "returned"
  /\ UNCHANGED <<lanes, idleDelay, canceled, slot, source, ticks, ahead>>

-----------------------------------------------------------------------------
SlotStep(s) ==
  \/ LoopTop(s) \/ TokenCanceled(s) \/ SleepEnds(s)
  \/ \E outcome \in ClaimOutcome \ {"job"} : ClaimReturns(s, outcome)
  \/ ClaimReturns(s, "job")
  \/ \E outcome \in RunOutcome : RunReturns(s, outcome)

SourceStep(l) == TakeTick(l) \/ HandOver(l) \/ DropToken(l) \/ SourceCanceled(l)

PoolStep ==
  \/ \E s \in Slot : SlotStep(s)
  \/ \E l \in Lane : SourceStep(l) \/ TickerFires(l)
  \/ KeeperRound \/ KeeperCanceled

(* wg.Wait in Pool.Run and in run. *)
AllReturned ==
  /\ \A s \in Slot : slot[s].pc \in {"none", "returned"}
  /\ \A l \in Lane : source[l] \in {"none", "returned"}
  /\ keeper \in {"none", "returned"}
=============================================================================
