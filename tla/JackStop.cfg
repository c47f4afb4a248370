SPECIFICATION Spec
CONSTANT AutoConnect = TRUE
INVARIANT StoppedIsQuiet
CHECK_DEADLOCK FALSE
