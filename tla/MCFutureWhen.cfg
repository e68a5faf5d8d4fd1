SPECIFICATION Spec
CONSTANTS
  u1 = u1  u2 = u2  e1 = e1
  fp = fp  fq = fq  fr = fr  fs = fs  fa = fa  fb = fb  fc = fc  fk = fk  fw = fw  fx = fx  fy = fy
  Futures <- WhenFutures
  Kind <- WhenKind
  Inputs <- WhenInputs
  Target <- NoTarget
  Void = {}
  Users = {u1, u2}
  SourceUsers = {u1}
  Executors = {e1}
  NoFuture = NoFuture
  ContinuationInvoked = ContinuationInvoked
  NoError = NoError
  Canceled = Canceled
  WaitCyclesRunOut = FALSE
INVARIANTS NoCrash
PROPERTIES ImplementsFutureGraph
CHECK_DEADLOCK FALSE
