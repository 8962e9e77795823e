CONSTANTS
  u1 = u1
  c2 = c2
  c1 = c1
  Conn = {c1, c2}
  User = {u1}
  Nobody = Nobody
  Faults = {"leave", "split"}
  Requests = {c1, c2}
  MaxInbox = 1
  MaxFiles = 0
SPECIFICATION Spec
SYMMETRY Symmetry
INVARIANT TypeOK
INVARIANT SessionsSound
INVARIANT OnlineIsConnected
PROPERTY TokensKept
CHECK_DEADLOCK FALSE
