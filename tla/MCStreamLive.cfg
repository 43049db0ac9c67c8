SPECIFICATION FairStreamSpec
CONSTANTS
  Users = {u1}
  Starts = {"connected", "connecting", "unreachable"}
  ViewSize = 2
  MaxWrites = 2
  SndRoom = 1
  MaxRcv = 1
CHECK_DEADLOCK FALSE
PROPERTY
  CloseCompletes
