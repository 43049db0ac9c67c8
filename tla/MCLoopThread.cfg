SPECIFICATION FairThreadSpec
CONSTANTS
  Cancellers = {c1}
  Durations = {0, 2}
  Second = 2
  OccurrencesLimit = 2
  MaxTicks = 3
  StarvationLimit = 2
  Backlog = 3
  MaxNotes = 1
CHECK_DEADLOCK FALSE
INVARIANTS
  ThreadTypeOK
  OverrunBounded
  OnceCloses
  QueueAnnounced
  TicksAnnounced
PROPERTIES
  ConnectionsAccepted
  TimerServed
