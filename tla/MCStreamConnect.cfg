SPECIFICATION StreamSpec
CONSTANTS
  Users = {u1}
  Starts = {"connecting", "unreachable"}
  ViewSize = 1
  MaxWrites = 1
  SndRoom = 1
  MaxRcv = 0
CHECK_DEADLOCK FALSE
INVARIANT
  ConnectedIsEstablished
