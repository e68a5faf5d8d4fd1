SPECIFICATION Spec
CONSTANTS
  c1 = c1  t1 = t1  t2 = t2
  Clients = {c1}
  PoolThreads <- MCThreads
  Tasks = {t1, t2}
  NoTask = NoTask
  SuspendBound = 0
  SchedulerKinds = {"Looper", "ThreadPoolWin", "UIWinRT"}
  MaxThreadsArgs = {0, 1}
  MaxConcurrentThreads = 2
INVARIANTS TypeOK ConcurrencyLimit NoLostWakeUp HandlersCounted
PROPERTIES ImplementsDispatchQueue AwaitCompletesPending EveryTaskHandled AwaitReturns
CHECK_DEADLOCK FALSE
