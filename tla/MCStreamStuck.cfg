SPECIFICATION FairStreamSpec
CONSTANTS
  Users = {u1}
  Starts = {"connected"}
  ViewSize = 2
  MaxWrites = 1
  SndRoom = 1
  MaxRcv = 0
CHECK_DEADLOCK FALSE
PROPERTY
  WritesArrive
