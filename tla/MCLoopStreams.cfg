SPECIFICATION LoopSpec
CONSTANTS
  Handlers = {s1, s2}
  Streams = {s1, s2}
  Timers = {}
  Tasks = {}
  Threads = {t1, t2}
  s1 = s1
  s2 = s2
  t1 = t1
  t2 = t2
  Fds = {fdS, fdT}
  StreamFd = fdS
  TimerFd = fdT
  fdS = fdS
  fdT = fdT
  Handle <- MCHandle
  NoFd = NoFd
  PendingFd = PendingFd
  NoHandler = NoHandler
  Loop = Loop
  MaxReady = 1
  MaxEvents = 2
CHECK_DEADLOCK FALSE
INVARIANTS
  LoopTypeOK
  OnlyAttachRaceThrows
  NoStaleDelivery
PROPERTY
  ImplementsEPoll
