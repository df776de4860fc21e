SPECIFICATION Spec
CONSTANTS
  w1 = w1 w2 = w2 id = id j1 = j1 j2 = j2 b1 = b1 b2 = b2 l1 = l1 l2 = l2
  NoWorker = NoWorker NoJob = NoJob
  Worker <- OneWorker
  WorkerId <- OneWorker
  IdOf <- OwnId
  Backoff <- ShortBackoff
  Job <- TwoJobs
  Batch <- TwoBatches
  Lane <- TwoLanes
  BatchOf <- OwnBatch
  LaneOf <- OwnLane
  Priority <- EqualPriority
  MaxAttempts <- RetryOne
  Capacity <- LanesCapacity
  NotBefore <- SecondDelayed
  LeaseFor = 1
  ReapLimit = 2
  CloseLimit = 2
  Overrun = FALSE
  StoreFaults = TRUE
  MaxClock = 6
  MaxStall = 0
INVARIANTS BatchSettled TrailMatchesJobs AttemptBudget
PROPERTIES TerminalFinal ImplementsLifecycle
