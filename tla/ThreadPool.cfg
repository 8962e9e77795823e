CONSTANTS
  w1 = w1
  w2 = w2
  t1 = t1
  t2 = t2
  t3 = t3
  Worker = {w1, w2}
  Task = {t1, t2, t3}
  NoTask = NoTask
  Nobody = Nobody
  ShutsDown = TRUE
SPECIFICATION FairSpec
INVARIANT TypeOK
INVARIANT RunOnce
INVARIANT SomebodyAwake
PROPERTY EveryTaskRun
CHECK_DEADLOCK FALSE
