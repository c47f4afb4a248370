SPECIFICATION FairDaemonSpec
CONSTANTS
  Reports <- MCReports
  Files <- MCFiles
  Compiled <- MCCompiled
  UintRange = 20000000
  SizeRange = 400000000
INVARIANTS
  DaemonTypeOK
  EngineOutlivesUsers
  SocketOutlivesWorker
  SuccessIsDeserved
  RunsOnDeclaredSettings
  ValidIsBuildable
  FailureIsLogged
  LogFileHasNoGaps
PROPERTIES
  SignalEndsService
  FailureEndsService
