SPECIFICATION FairSpec
CONSTANTS
  u1 = u1  u2 = u2  e1 = e1
  fp = fp  fq = fq  fr = fr  fs = fs  fa = fa  fb = fb  fc = fc  fk = fk  fw = fw  fx = fx  fy = fy
  Futures <- AwaitFutures
  Kind <- AwaitKind
  Inputs <- AwaitInputs
  Target <- AwaitTarget
  Void = {}
  Users = {u1, u2}
  SourceUsers = {}
  Executors = {e1}
  NoFuture = NoFuture
  ContinuationInvoked = ContinuationInvoked
  NoError = NoError
  Canceled = Canceled
  WaitCyclesRunOut = FALSE
INVARIANTS NoCrash
PROPERTIES EveryContinuationCompletes
CHECK_DEADLOCK FALSE
