CONSTANTS
  u1 = u1
  c2 = c2
  c1 = c1
  Conn = {c1, c2}
  User = {u1}
  Nobody = Nobody
  Faults = {"leave", "stall"}
  Requests = {}
  MaxInbox = 1
  MaxFiles = 1
SPECIFICATION FairSpec
PROPERTY GoneDropped
CHECK_DEADLOCK FALSE
