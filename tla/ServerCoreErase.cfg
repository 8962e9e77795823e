SPECIFICATION Spec
CONSTANTS
  MaxConn = 3
  MaxPush = 1
  Kinds = {"main"}
INVARIANTS
  HandedOverOnce
  AcceptorLetsGo
  WatchedIsListed
\* The process and its threads may end.
CHECK_DEADLOCK FALSE
