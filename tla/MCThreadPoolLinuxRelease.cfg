SPECIFICATION Spec
CONSTANTS
  c1 = c1  t1 = t1  t2 = t2
  Clients <- OneClient
  PoolThreads <- TwoThreads
  Tasks <- TwoTasks
  NoTask = NoTask
  NoThread = NoThread
  SuspendBound = 0
  MaxConcurrentThreads = 2
  MaxThreadsArgs = {0, 1}
INVARIANTS NoSelfWait
CHECK_DEADLOCK FALSE
