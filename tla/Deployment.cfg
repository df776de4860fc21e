SPECIFICATION Spec
CONSTANTS
  none = none
  NoConfig = none
  Process <- Both
  Statements <- TwoMigrations
  Environment <- Environments
  DefaultLease = 3
  DefaultInference = 2
  DefaultReap = 1
  DefaultPoll = 1
  MaxLanes = 1
  MaxCapacity = 2
  MaxDelay = 2
  HalfRange = 8
  MaxInFlight = 1
INVARIANTS RunningOnSchema RunningConfigIsSound SlotsStayUntilSignal RateKept DelaysBounded
PROPERTIES StopTerminates
