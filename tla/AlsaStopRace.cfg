SPECIFICATION Spec
CONSTANT PeriodFrames = 1
INVARIANT PlaybackFailureIsReal
