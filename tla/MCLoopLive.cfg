SPECIFICATION FairLoopSpec
CONSTANTS
  Handlers = {s1, k1}
  Streams = {s1}
  Timers = {}
  Tasks = {k1}
  Threads = {t1}
  s1 = s1
  k1 = k1
  t1 = t1
  Fds = {fdS, fdT}
  StreamFd = fdS
  TimerFd = fdT
  fdS = fdS
  fdT = fdT
  Handle <- MCHandle
  NoFd = NoFd
  PendingFd = PendingFd
  NoHandler = NoHandler
  Loop = Loop
  MaxReady = 1
  MaxEvents = 1
CHECK_DEADLOCK FALSE
PROPERTIES
  AttachCompletes
  NotificationArrives
  DescriptorsReturned
  StopEnds
