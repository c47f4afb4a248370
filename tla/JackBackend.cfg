SPECIFICATION Spec
CONSTANT AutoConnect = TRUE
INVARIANTS
  TypeOK
  NoFailureForgotten
  FailureIsExplained
  StopDeactivates
CHECK_DEADLOCK FALSE
