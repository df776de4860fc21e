--------------------------- MODULE ForeverProofs ----------------------------
(***************************************************************************)
(* Proofs about the scheduler without an end of time, the system whose     *)
(* progress is checked: ageing the moments it remembers breaks nothing     *)
(* that the scheduler promises.                                            *)
(*                                                                         *)
(* A Shift leaves states, attempts and owners alone and keeps the order of *)
(* any two moments; and since it waits for the transactions and executions *)
(* under way, the moments that those act on lie behind Floor and age by    *)
(* exactly one, together with the clock that stands still.                 *)
(***************************************************************************)
EXTENDS Forever, ExclusiveProofs, LifecycleProofs, TrailProofs

LEMMA AgedTimes ==
  /\ Floor \in Nat /\ Floor = MaxClock - MaxStall
  /\ \A t \in Nat : /\ Aged(t) \in Nat /\ Aged(t) <= t /\ t <= Aged(t) + 1
                    /\ t > Floor => Aged(t) + 1 = t
  /\ \A t, u \in Nat : t <= u => Aged(t) <= Aged(u)
BY ClockAssumption, SchedulerAssumption DEF Floor, Aged

(* What a Shift leaves alone, and what it makes of the rest. *)
RowAges(j) ==
  /\ jobs'[j].state = jobs[j].state /\ jobs'[j].attempt = jobs[j].attempt
  /\ jobs'[j].leaseOwner = jobs[j].leaseOwner
  /\ jobs'[j].availableAt = Aged(jobs[j].availableAt)
  /\ jobs'[j].leaseExpires = Aged(jobs[j].leaseExpires)
SlotAges(s) ==
  /\ slot'[s].pc = slot[s].pc /\ slot'[s].job = slot[s].job
  /\ slot'[s].attempt = slot[s].attempt
  /\ slot'[s].until = Aged(slot[s].until) /\ slot'[s].now = Aged(slot[s].now)

LEMMA ShiftAges ==
  ASSUME TypeOK, Shift
  PROVE  /\ TypeOK'
         /\ \A j \in Job : RowAges(j)
         /\ \A s \in Slot : SlotAges(s)
         /\ \A w \in Worker : keeper'[w].now = Aged(keeper[w].now)
         /\ UNCHANGED <<batch, trail, clock, proc>>
<1> /\ jobs \in [Job -> Row] /\ slot \in [Slot -> SlotState] /\ keeper \in [Worker -> KeeperState]
  BY DEF TypeOK
<1>1. ASSUME NEW j \in Job PROVE jobs'[j] \in Row /\ RowAges(j)
  <2>1. jobs'[j] = [jobs[j] EXCEPT !.availableAt = Aged(@), !.leaseExpires = Aged(@)]
    BY DEF Shift
  <2>2. jobs[j].availableAt \in Nat /\ jobs[j].leaseExpires \in Nat
    BY DEF Row
  <2>3. Aged(jobs[j].availableAt) \in Nat /\ Aged(jobs[j].leaseExpires) \in Nat
    BY <2>2, AgedTimes
  <2> QED
    BY <2>1, <2>3 DEF Row, RowAges
<1>2. ASSUME NEW s \in Slot PROVE slot'[s] \in SlotState /\ SlotAges(s)
  <2>1. slot'[s] = [slot[s] EXCEPT !.until = Aged(@), !.now = Aged(@)]
    BY DEF Shift
  <2>2. slot[s].until \in Nat /\ slot[s].now \in Nat
    BY DEF SlotState
  <2>3. Aged(slot[s].until) \in Nat /\ Aged(slot[s].now) \in Nat
    BY <2>2, AgedTimes
  <2> QED
    BY <2>1, <2>3 DEF SlotState, SlotAges
<1>3. ASSUME NEW w \in Worker PROVE keeper'[w] \in KeeperState /\ keeper'[w].now = Aged(keeper[w].now)
  <2>1. keeper'[w] = [keeper[w] EXCEPT !.now = Aged(@)]
    BY DEF Shift
  <2>2. Aged(keeper[w].now) \in Nat
    BY AgedTimes DEF KeeperState
  <2> QED
    BY <2>1, <2>2 DEF KeeperState
<1>4. UNCHANGED <<batch, trail, clock, proc>>
  BY DEF Shift
<1>5. jobs' \in [Job -> Row] /\ slot' \in [Slot -> SlotState] /\ keeper' \in [Worker -> KeeperState]
  BY <1>1, <1>2, <1>3 DEF Shift
<1> QED
  BY <1>1, <1>2, <1>3, <1>4, <1>5 DEF TypeOK

-----------------------------------------------------------------------------
(* The tables. *)
LEMMA ShiftKeepsTable ==
  ASSUME TableInv, Shift
  PROVE  TableInv'
<1> TypeOK
  BY DEF TableInv
<1>1. /\ TypeOK' /\ UNCHANGED <<batch, trail, clock, proc>>
      /\ \A j \in Job : RowAges(j)
      /\ \A s \in Slot : SlotAges(s)
      /\ \A w \in Worker : keeper'[w].now = Aged(keeper[w].now)
  BY ShiftAges
<1>2. SlotsHaveJobs'
  BY <1>1 DEF TableInv, SlotsHaveJobs, Occupied, SlotAges
<1>3. ReadingsArePast'
  <2>1. ASSUME NEW n \in Nat, n <= clock PROVE Aged(n) <= clock
    BY <2>1, AgedTimes DEF TypeOK
  <2>2. \A s \in Slot : slot[s].now \in Nat /\ slot[s].now <= clock
    BY SlotTypes DEF TableInv, ReadingsArePast
  <2>3. \A w \in Worker : keeper[w].now \in Nat /\ keeper[w].now <= clock
    BY DEF TableInv, ReadingsArePast, TypeOK, KeeperState
  <2> QED
    BY <1>1, <2>1, <2>2, <2>3 DEF ReadingsArePast, SlotAges
<1>4. JobsComeWithBatch'
  BY <1>1 DEF TableInv, JobsComeWithBatch, RowAges
<1>5. AttemptBudget'
  BY <1>1 DEF TableInv, AttemptBudget, RowAges
<1>6. BatchSettled'
  BY <1>1 DEF TableInv, BatchSettled, RowAges, IsTerminal
<1>7. LaneCapacity'
  <2> SUFFICES ASSUME NEW l \in Lane PROVE Cardinality(Busy(l, clock)') <= Capacity[l]
    BY DEF LaneCapacity
  <2>1. ASSUME NEW j \in Job, jobs'[j].leaseExpires > clock PROVE jobs[j].leaseExpires > clock
    BY <1>1, <2>1, AgedTimes DEF RowAges, TypeOK, Row
  <2>2. Busy(l, clock)' \in SUBSET Busy(l, clock)
    BY <1>1, <2>1 DEF Busy, RowAges
  <2>3. IsFiniteSet(Busy(l, clock)) /\ Cardinality(Busy(l, clock)) \in Nat
    BY BusyFinite
  <2>4. /\ IsFiniteSet(Busy(l, clock)')
        /\ Cardinality(Busy(l, clock)') <= Cardinality(Busy(l, clock))
    BY <2>2, <2>3, FS_Subset
  <2>5. Cardinality(Busy(l, clock)') \in Nat
    BY <2>4, FS_CardinalityType
  <2>6. Cardinality(Busy(l, clock)) <= Capacity[l] /\ Capacity[l] \in Nat
    BY TopologyAssumption DEF TableInv, LaneCapacity
  <2> QED
    BY <2>3, <2>4, <2>5, <2>6
<1> QED
  BY <1>1, <1>2, <1>3, <1>4, <1>5, <1>6, <1>7 DEF TableInv

-----------------------------------------------------------------------------
(* The slots and their attempts. *)

(* Time passes only when every slot still has some: its deadline, and the  *)
(* reading it acts on, lie behind Floor.                                   *)
LEMMA RecentTimes ==
  ASSUME Timely, Invs, Shift, NEW s \in Slot
  PROVE  /\ slot[s].pc = "run" => slot[s].until > clock
         /\ slot[s].pc \in {"claim", "ok", "err"} => clock < slot[s].now + MaxStall
         /\ Occupied(s) => slot[s].until > Floor
<1>1. /\ slot[s].pc = "run" => clock < slot[s].until
      /\ slot[s].pc \in {"claim", "ok", "err"} => clock < slot[s].now + MaxStall
      /\ clock = MaxClock
  BY DEF Shift, TimeMayPass, Timely
<1>2. slot[s].pc \in {"ok", "err"} => slot[s].now <= slot[s].until
  BY DEF Invs, TimedInv, SlotIsTimely
<1>3. /\ slot[s].until \in Nat /\ slot[s].now \in Nat /\ MaxStall \in Nat /\ MaxClock \in Nat
      /\ Floor = MaxClock - MaxStall
  BY SlotTypes, SchedulerAssumption DEF Invs, TableInv, Floor
<1> QED
  BY <1>1, <1>2, <1>3 DEF Occupied

LEMMA ShiftKeepsTimed ==
  ASSUME Timely, Invs, Shift
  PROVE  TimedInv'
<1> TypeOK
  BY DEF Invs, TableInv
<1>1. /\ UNCHANGED <<batch, trail, clock, proc>>
      /\ \A j \in Job : RowAges(j)
      /\ \A s \in Slot : SlotAges(s)
  BY ShiftAges
<1>2. ExclusiveExecution'
  BY <1>1 DEF Invs, TimedInv, ExclusiveExecution, Occupied, SlotAges
<1>3. ASSUME NEW s \in Slot PROVE SlotIsTimely(s)'
  <2>1. SlotIsTimely(s)
    BY DEF Invs, TimedInv
  <2> DEFINE until == slot[s].until
             now == slot[s].now
  <2>2. until \in Nat /\ now \in Nat /\ clock \in Nat /\ MaxStall \in Nat
    BY SlotTypes, TimelyFacts DEF TypeOK
  <2>3. /\ slot'[s].pc = slot[s].pc /\ slot'[s].until = Aged(until) /\ slot'[s].now = Aged(now)
        /\ clock' = clock
    BY <1>1 DEF SlotAges
  <2>4. /\ Aged(until) \in Nat /\ Aged(now) \in Nat
        /\ until <= Aged(until) + 1 /\ now <= Aged(now) + 1
        /\ now <= until => Aged(now) <= Aged(until)
    BY <2>2, AgedTimes
  <2>5. /\ slot[s].pc = "run" => until > clock
        /\ slot[s].pc \in {"claim", "ok", "err"} => clock < now + MaxStall
    BY RecentTimes
  <2>6. slot[s].pc \in {"ok", "err"} => now <= until
    BY <2>1 DEF SlotIsTimely
  <2> HIDE DEF until, now
  <2> QED
    BY <2>2, <2>3, <2>4, <2>5, <2>6 DEF SlotIsTimely
<1>4. ASSUME NEW s \in Slot, Occupied(s)' PROVE RowOfAttempt(s)'
  <2> DEFINE j == slot[s].job
             row == jobs[j]
             until == slot[s].until
  <2>1. Occupied(s) /\ SlotAges(s)
    BY <1>1, <1>4 DEF Occupied, SlotAges
  <2>2. RowOfAttempt(s) /\ j \in Job
    BY <2>1 DEF Invs, TimedInv, TableInv, SlotsHaveJobs
  <2>3. /\ until \in Nat /\ row.availableAt \in Nat /\ row.leaseExpires \in Nat
        /\ clock \in Nat /\ MaxStall \in Nat /\ Floor \in Nat
    BY <2>2, SlotTypes, TimelyFacts, AgedTimes DEF TypeOK, Row
  <2>4. until > Floor
    BY <2>1, RecentTimes
  <2>5. Aged(until) + 1 = until /\ Aged(until) \in Nat
    BY <2>3, <2>4, AgedTimes
  <2>6. row.availableAt > until + MaxStall => Aged(row.availableAt) > Aged(until) + MaxStall
    <3> SUFFICES ASSUME row.availableAt > until + MaxStall
                 PROVE  Aged(row.availableAt) > Aged(until) + MaxStall
      OBVIOUS
    <3>1. row.availableAt > Floor
      BY <2>3, <2>4
    <3>2. Aged(row.availableAt) + 1 = row.availableAt /\ Aged(row.availableAt) \in Nat
      BY <2>3, <3>1, AgedTimes
    <3> HIDE DEF row, until
    <3> QED
      BY <2>3, <2>5, <3>2
  <2>7. until <= clock => Aged(until) <= clock
    BY <2>3, <2>5
  <2>8. RowAges(j) /\ slot'[s].job = j /\ slot'[s].attempt = slot[s].attempt
        /\ slot'[s].until = Aged(until) /\ clock' = clock
    BY <1>1, <2>1, <2>2 DEF SlotAges
  <2>9. /\ row.attempt = slot[s].attempt
        /\ row.state \in {"running", "pending", "dead", "canceled"}
        /\ row.state = "running" => row.leaseOwner = OwnerId(s) /\ row.leaseExpires = until
        /\ row.state = "pending" => row.availableAt > until + MaxStall
        /\ row.state \in {"pending", "dead"} => until <= clock
        /\ LaneOf[j] = Serves(s)
    BY <2>2 DEF RowOfAttempt
  <2>10. /\ jobs'[j].state = row.state /\ jobs'[j].attempt = row.attempt
         /\ jobs'[j].leaseOwner = row.leaseOwner
         /\ jobs'[j].availableAt = Aged(row.availableAt)
         /\ jobs'[j].leaseExpires = Aged(row.leaseExpires)
    BY <2>8 DEF RowAges
  <2> HIDE DEF row, until, j
  <2> QED
    BY <2>6, <2>7, <2>8, <2>9, <2>10 DEF RowOfAttempt
<1> QED
  BY <1>2, <1>3, <1>4 DEF TimedInv

-----------------------------------------------------------------------------
(* The theorems. *)

LEMMA ForeverTableStep == TableInv /\ [ForeverNext]_vars => TableInv'
BY TableStep, ShiftKeepsTable DEF ForeverNext

LEMMA ForeverTable == ForeverSpec => []TableInv
BY TableInit, ForeverTableStep, PTL DEF ForeverSpec

LEMMA ForeverInvs == ASSUME Timely PROVE ForeverSpec => []Invs
<1>1. Init => Invs
  BY TableInit, TimedInit DEF Invs
<1>2. Invs /\ [ForeverNext]_vars => Invs'
  <2> SUFFICES ASSUME Invs, [ForeverNext]_vars PROVE Invs'
    OBVIOUS
  <2>1. CASE [Next]_vars
    BY <2>1, TableStep, TimedStep DEF Invs
  <2>2. CASE Shift
    BY <2>2, ShiftKeepsTable, ShiftKeepsTimed DEF Invs
  <2> QED
    BY <2>1, <2>2 DEF ForeverNext
<1> QED
  BY <1>1, <1>2, PTL DEF ForeverSpec

(* Without an end of time too, retries stay within the budget, no lane has *)
(* more live leases than its capacity, and a closed batch is settled.      *)
THEOREM ForeverConsistent == ForeverSpec => [](AttemptBudget /\ LaneCapacity /\ BatchSettled)
<1>1. TableInv => AttemptBudget /\ LaneCapacity /\ BatchSettled
  BY DEF TableInv
<1> QED
  BY <1>1, ForeverTable, PTL

(* Without an end of time too, no job is ever worked on by two slots.      *)
THEOREM ForeverExclusive == ASSUME Timely PROVE ForeverSpec => []ExclusiveExecution
<1>1. Invs => ExclusiveExecution
  BY DEF Invs, TimedInv
<1> QED
  BY <1>1, ForeverInvs, PTL

(* Without an end of time too, nobody takes a job from the slot that       *)
(* claimed it before its deadline, save by canceling the batch.            *)
THEOREM ForeverClaimsGood == ASSUME Timely PROVE ForeverSpec => []ClaimStaysGood
BY GoodClaims, ForeverInvs, PTL

(* Without an end of time too, the executions under way on a lane respect  *)
(* its capacity, canceled ones aside.                                      *)
THEOREM ForeverWithinCapacity == ASSUME Timely PROVE ForeverSpec => []ExecutionsWithinCapacity
BY WithinCapacity, ForeverInvs, PTL

(* Without an end of time too, a settlement that is accepted settles the   *)
(* attempt the slot ran: whatever the identities, when nothing is late.    *)
THEOREM ForeverTimelyResults == ASSUME Timely PROVE ForeverSpec => SettlesOwnAttempt
<1>1. Invs /\ [ForeverNext]_vars => [OwnSettlement]_vars
  BY OwnSettled
<1> QED
  BY <1>1, ForeverInvs, PTL DEF ForeverSpec, SettlesOwnAttempt

(* The same with owners that tell the slots of a lane apart, however late. *)
THEOREM ForeverOwnResults == ASSUME OwnersTellSlotsApart PROVE ForeverSpec => SettlesOwnAttempt
<1>1. ASSUME TableInv, OwnInv, Shift PROVE OwnInv' /\ [OwnSettlement]_vars
  <2>1. /\ \A j \in Job : RowAges(j)
        /\ \A s \in Slot : SlotAges(s)
    BY <1>1, ShiftAges DEF TableInv
  <2>2. ASSUME NEW s \in Slot, Occupied(s)' PROVE HeldIsOwn(s)'
    <3>1. Occupied(s) /\ slot[s].job \in Job /\ slot'[s].job = slot[s].job
          /\ slot'[s].attempt = slot[s].attempt
      BY <1>1, <2>1, <2>2 DEF SlotAges, Occupied, TableInv, SlotsHaveJobs
    <3>2. HeldIsOwn(s) /\ RowAges(slot[s].job)
      BY <1>1, <2>1, <3>1 DEF OwnInv
    <3> QED
      BY <3>1, <3>2 DEF HeldIsOwn, HeldBy, RowAges
  <2>3. OwnSettlement
    BY <2>1 DEF OwnSettlement, SlotAges
  <2> QED
    BY <2>2, <2>3 DEF OwnInv
<1>2. TableInv /\ OwnInv /\ [ForeverNext]_vars => OwnInv' /\ [OwnSettlement]_vars
  BY <1>1, OwnStep, OwnSettles DEF ForeverNext
<1> QED
  BY <1>2, OwnInit, ForeverTable, PTL DEF ForeverSpec, SettlesOwnAttempt

(* Without an end of time too, a live lease is given up by its holder      *)
(* alone: an aged moment never lets the reaper in early.                   *)
THEOREM ForeverLeasesRespected == ForeverSpec => NoPrematureReclaim
<1> DEFINE Respected ==
             \A j \in Job :
               /\ jobs[j].state = "running"
               /\ clock < jobs[j].leaseExpires
               /\ jobs'[j].state \in {"pending", "dead"}
               => \E s \in Slot : /\ slot[s].pc = "err" /\ slot'[s].pc = "idle"
                                  /\ slot[s].job = j /\ OwnerId(s) = jobs[j].leaseOwner
<1>1. ASSUME TableInv, [ForeverNext]_vars PROVE [Respected]_vars
  <2>1. CASE [Next]_vars
    <3>1. TypeOK'
      BY <1>1, <2>1, TableStep DEF TableInv
    <3> QED
      BY <1>1, <2>1, <3>1, ReclaimStep
  <2>2. CASE Shift
    <3>1. \A j \in Job : jobs'[j].state = jobs[j].state
      BY <1>1, <2>2, ShiftAges DEF TableInv, RowAges
    <3> QED
      BY <3>1
  <2> QED
    BY <1>1, <2>1, <2>2 DEF ForeverNext
<1> QED
  BY <1>1, ForeverTable, PTL DEF ForeverSpec, NoPrematureReclaim

(* Without an end of time too, the audit trail tells the truth about every *)
(* job, and every batch is created and closed once.                        *)
THEOREM ForeverTrail == ForeverSpec => [](TrailMatchesJobs /\ BatchClosedOnce)
<1>1. ASSUME TruthInv, ClosingInv, [ForeverNext]_vars PROVE TruthInv' /\ ClosingInv'
  <2>1. CASE [Next]_vars
    BY <1>1, <2>1, TruthStep, ClosingStep
  <2>2. CASE Shift
    <3>1. /\ UNCHANGED <<batch, trail>>
          /\ \A j \in Job : RowAges(j)
      BY <1>1, <2>2, ShiftAges DEF TruthInv, TableInv
    <3>2. ASSUME NEW j \in Job PROVE TellsTheTruth(j)'
      <4>1. TellsTheTruth(j) /\ jobs'[j].state = jobs[j].state /\ jobs'[j].attempt = jobs[j].attempt
        BY <1>1, <3>1 DEF TruthInv, RowAges
      <4> QED
        BY <3>1, <4>1 DEF TellsTheTruth, Claims, LastEvent, ExplainedBy
    <3>3. BatchClosedOnce'
      BY <1>1, <3>1 DEF ClosingInv, BatchClosedOnce
    <3>4. TableInv'
      BY <1>1, <2>2, ShiftKeepsTable DEF TruthInv
    <3> QED
      BY <3>2, <3>3, <3>4 DEF TruthInv, ClosingInv
  <2> QED
    BY <1>1, <2>1, <2>2 DEF ForeverNext
<1>2. TruthInv /\ ClosingInv => TrailMatchesJobs /\ BatchClosedOnce
  BY TrailParts DEF TruthInv, ClosingInv
<1> QED
  BY <1>1, <1>2, TruthInit, ClosingInit, PTL DEF ForeverSpec

(* The scheduler without an end of time implements the life of jobs and    *)
(* batches: ageing is not seen from outside.                               *)
THEOREM ForeverImplementsLifecycle == ForeverSpec => ImplementsLifecycle
<1>1. ASSUME TableInv, AbsentUntried, [ForeverNext]_vars
      PROVE  [Life!Next]_(Life!vars) /\ AbsentUntried'
  <2>1. CASE [Next]_vars
    BY <1>1, <2>1, LifeStep, AbsentUntriedStep
  <2>2. CASE Shift
    <3>1. batch' = batch /\ \A j \in Job : RowAges(j)
      BY <1>1, <2>2, ShiftAges DEF TableInv
    <3>2. UNCHANGED <<stateOf, triesOf>>
      BY <3>1 DEF stateOf, triesOf, RowAges
    <3>3. AbsentUntried'
      BY <1>1, <3>1 DEF AbsentUntried, RowAges
    <3> QED
      BY <3>1, <3>2, <3>3 DEF Life!vars
  <2> QED
    BY <1>1, <2>1, <2>2 DEF ForeverNext
<1>2. Init => Life!Init /\ AbsentUntried
  BY LifeInit DEF Init, AbsentUntried, NoRow
<1> QED
  BY <1>1, <1>2, ForeverTable, PTL DEF ForeverSpec, ImplementsLifecycle, Life!Spec
=============================================================================
