SPECIFICATION Spec
CONSTANTS
  r1 = r1 r2 = r2 r3 = r3 r4 = r4 r5 = r5
  NoReply = NoReply
  Request <- PairRequest
  Key <- PairKey
  Kind <- PairKind
  Targets <- PairTargets
CHECK_DEADLOCK FALSE
INVARIANTS NoOrphanBatch
