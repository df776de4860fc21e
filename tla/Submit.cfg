SPECIFICATION Spec
CONSTANTS
  r1 = r1 r2 = r2 r3 = r3 r4 = r4 r5 = r5
  NoReply = NoReply
  Request <- MCRequest
  Key <- MCKey
  Kind <- MCKind
  Targets <- MCTargets
CHECK_DEADLOCK FALSE
INVARIANTS TypeOK OneBatchPerKey OneJobPerKey EveryTargetHasItsJob KeysDoNotInterfere ReplyIsTrue
PROPERTIES ImplementsIntake
