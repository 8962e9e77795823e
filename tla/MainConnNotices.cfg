CONSTANTS
  u1 = u1
  c2 = c2
  c1 = c1
  Conn = {c1, c2}
  User = {u1}
  Nobody = Nobody
  Faults = {"leave", "size", "body"}
  Requests = {}
  MaxInbox = 1
  MaxFiles = 2
SPECIFICATION FairSpec
INVARIANT NoticesInOrder
PROPERTY NoticeDelivered
CHECK_DEADLOCK FALSE
