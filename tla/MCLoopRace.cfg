SPECIFICATION LoopSpec
CONSTANTS
  Handlers = {m1, k1}
  Streams = {}
  Timers = {m1}
  Tasks = {k1}
  Threads = {t1}
  m1 = m1
  k1 = k1
  t1 = t1
  Fds = {fdS, fdT}
  StreamFd = fdS
  TimerFd = fdT
  fdS = fdS
  fdT = fdT
  Handle <- MCHandle
  NoFd = NoFd
  PendingFd = PendingFd
  NoHandler = NoHandler
  Loop = Loop
  MaxReady = 0
  MaxEvents = 2
CHECK_DEADLOCK FALSE
INVARIANT
  RemoveFindsEvent
