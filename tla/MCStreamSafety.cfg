SPECIFICATION StreamSpec
CONSTANTS
  Users = {u1, u2}
  Starts = {"connected", "connecting", "unreachable"}
  ViewSize = 2
  MaxWrites = 2
  SndRoom = 1
  MaxRcv = 1
CHECK_DEADLOCK FALSE
SYMMETRY UserSymmetry
INVARIANTS
  StreamTypeOK
  SentInOrder
PROPERTY
  KeepsPromise
