SPECIFICATION Spec
CONSTANTS
  j1 = j1 j2 = j2 b1 = b1 b2 = b2
  Job <- MCJobs
  Batch <- MCBatches
  BatchOf <- MCBatchOf
  MaxAttempts <- MCMaxAttempts
  JobOrder <- MCJobOrder
  Submission <- MCSubmissions
  LimitParam <- MCLimits
  LaneNames <- MCLanes
  DefaultAttempts = 3
  DefaultLimit = 1
  EventLimit = 2
  MaxLimit = 2
INVARIANTS DoneMeansSettled CancelReplyIsTrue PagesListEachJobOnce PagesMissNoBatch
  EventPagesArePrefix UsersScheduleThemselves AcceptedIsWhatWasAsked
