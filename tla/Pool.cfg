SPECIFICATION ForeverSpec
CONSTANTS
  w1 = w1 j1 = j1 j2 = j2 b1 = b1 l1 = l1
  NoWorker = NoWorker NoJob = NoJob
  Worker <- OneWorker
  WorkerId <- OneWorker
  IdOf <- OwnId
  Backoff <- LongBackoff
  Job <- TwoJobs
  Batch <- OneBatch
  Lane <- OneLane
  BatchOf <- SameBatch
  LaneOf <- SameLane
  Priority <- FirstUrgent
  MaxAttempts <- RetryOne
  Capacity <- PoolCapacity
  NotBefore <- AtOnce
  LeaseFor = 1
  ReapLimit = 1
  CloseLimit = 1
  Overrun = FALSE
  StoreFaults = TRUE
  MaxClock = 2
  MaxStall = 1
INVARIANTS ExclusiveExecution ClaimStaysGood
PROPERTIES EveryBatchEnds
