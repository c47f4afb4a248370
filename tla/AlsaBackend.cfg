SPECIFICATION FairSpec
CONSTANT PeriodFrames = 3
INVARIANTS
  TypeOK
  CaptureFailureIsReal
  FailureIsExplained
  HandlesMatchLifetime
PROPERTIES
  PeriodFullyWritten
  StopReturns
  RefinesContract
