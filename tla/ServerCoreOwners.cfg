SPECIFICATION FairSpec
CONSTANTS
  MaxConn = 2
  MaxPush = 1
  Kinds = {"main", "file"}
INVARIANTS
  TypeOK
  ListMatchesKind
PROPERTIES
  OwnersKept
  RejectedFreed
  CloseHonoured
\* The process and its threads may end.
CHECK_DEADLOCK FALSE
