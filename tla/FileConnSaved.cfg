CONSTANTS
  u1 = u1
  u2 = u2
  d1 = d1
  d2 = d2
  Nobody = Nobody
  Up = {u1}
  Down = {d1, d2}
  Faults = {"full", "leave", "split", "part", "token"}
  Buffer = 2
  MaxSize = 3
  MaxRecord = 3
SPECIFICATION Spec
INVARIANT TypeOK
INVARIANT ReceivedIsStored
INVARIANT FinishWaits
INVARIANT AcknowledgedIsSaved
PROPERTY IsStore
SYMMETRY Symmetry
CHECK_DEADLOCK FALSE
