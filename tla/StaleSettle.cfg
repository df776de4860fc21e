SPECIFICATION Spec
CONSTANTS
  w1 = w1 w2 = w2 id = id j1 = j1 j2 = j2 b1 = b1 b2 = b2 l1 = l1 l2 = l2
  NoWorker = NoWorker NoJob = NoJob
  Worker <- OneWorker
  WorkerId <- OneWorker
  IdOf <- OwnId
  Backoff <- ShortBackoff
  Job <- TwoJobs
  Batch <- OneBatch
  Lane <- OneLane
  BatchOf <- SameBatch
  LaneOf <- SameLane
  Priority <- EqualPriority
  MaxAttempts <- RetryOne
  Capacity <- PoolCapacity
  NotBefore <- AtOnce
  LeaseFor = 2
  ReapLimit = 1
  CloseLimit = 1
  Overrun = FALSE
  StoreFaults = FALSE
  MaxClock = 6
  MaxStall = 2
PROPERTIES SettlesOwnAttempt
