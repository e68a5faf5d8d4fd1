SPECIFICATION FairSpec
CONSTANTS
  c1 = c1  t1 = t1  t2 = t2
  Clients <- OneClient
  PoolThreads <- TwoThreads
  Tasks <- TwoTasks
  NoTask = NoTask
  NoThread = NoThread
  SuspendBound = 1
  MaxConcurrentThreads = 2
  MaxThreadsArgs = {0, 1}
INVARIANTS TypeOK ConcurrencyLimit BusyThreadsExact OwnerRefMatchesContents NoLostWakeUp
PROPERTIES ImplementsDispatchQueue EveryTaskHandled
CHECK_DEADLOCK FALSE
