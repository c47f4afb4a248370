SPECIFICATION FairSpec
CONSTANTS
  reader = reader
  sleeper = sleeper
  MeterCount = 1
  MaxLevel = 2
  Viewers <- MCViewers
  Attentive <- MCAttentive
  InboxMax = 2
INVARIANTS
  TypeOK
  PeaksNotLost
PROPERTIES
  MetersOffWhenUnwatched
  ViewerServed
  ViewersLearnOfStop
CHECK_DEADLOCK FALSE
