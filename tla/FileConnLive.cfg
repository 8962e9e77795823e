CONSTANTS
  u1 = u1
  u2 = u2
  d1 = d1
  d2 = d2
  Nobody = Nobody
  Up = {u1}
  Down = {d1, d2}
  Faults = {"stall", "part", "open"}
  Buffer = 2
  MaxSize = 3
  MaxRecord = 3
SPECIFICATION FairSpec
INVARIANT EndedIsWhole
PROPERTY UploadAnswered
PROPERTY DownloadArrives
CHECK_DEADLOCK FALSE
