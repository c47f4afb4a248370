SPECIFICATION FairSpec
INVARIANTS
  TypeOK
  CallbackOutlivesProcessing
PROPERTIES
  StartAndStopReturn
  RefinesContract
