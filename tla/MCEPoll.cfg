SPECIFICATION MCSpec
CONSTANTS
  f1 = f1
  h1 = h1
  h2 = h2
  k1 = k1
  Handlers = {h1, h2, k1}
  Fds = {f1}
  Handle <- MCHandle
  NoFd = NoFd
  PendingFd = PendingFd
  NoHandler = NoHandler
  MaxEvents = 1
  MaxPending = 2
CHECK_DEADLOCK FALSE
INVARIANTS
  TypeOK
  WakeupInv
  NoLostWakeup
  CalledWhileRegistered
