SPECIFICATION Spec
CONSTANTS
  u1 = u1  u2 = u2  e1 = e1
  fp = fp  fq = fq  fr = fr  fs = fs  fa = fa  fb = fb  fc = fc  fk = fk  fw = fw  fx = fx  fy = fy
  Futures <- ShareFutures
  Kind <- ShareKind
  Inputs <- ShareInputs
  Target <- NoTarget
  Void = {fa}
  Users = {u1, u2}
  SourceUsers = {}
  Executors = {e1}
  NoFuture = NoFuture
  ContinuationInvoked = ContinuationInvoked
  NoError = NoError
  Canceled = Canceled
  WaitCyclesRunOut = TRUE
SYMMETRY Symmetry
INVARIANTS TypeOK NoCrash ContinuationsKept RunsOnce FailedHasError ErrorForwarded
PROPERTIES DocumentedTransitions ImplementsFutureGraph
CHECK_DEADLOCK FALSE
