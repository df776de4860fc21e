SPECIFICATION Spec
CONSTANTS
  w1 = w1 w2 = w2 id = id j1 = j1 j2 = j2 b1 = b1 b2 = b2 l1 = l1 l2 = l2
  NoWorker = NoWorker NoJob = NoJob
  Worker <- TwoWorkers
  WorkerId <- TwoWorkers
  IdOf <- OwnId
  Backoff <- ShortBackoff
  Job <- TwoJobs
  Batch <- OneBatch
  Lane <- OneLane
  BatchOf <- SameBatch
  LaneOf <- SameLane
  Priority <- EqualPriority
  MaxAttempts <- RetryOne
  Capacity <- SerialCapacity
  NotBefore <- AtOnce
  LeaseFor = 1
  ReapLimit = 1
  CloseLimit = 1
  Overrun = TRUE
  StoreFaults = FALSE
  MaxClock = 3
  MaxStall = 1
SYMMETRY Symmetry
INVARIANTS TableInv TrailMatchesJobs BatchClosedOnce
PROPERTIES NoPrematureReclaim SettlesOwnAttempt
