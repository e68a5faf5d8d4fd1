SPECIFICATION Spec
CONSTANTS
  u1 = u1  u2 = u2  e1 = e1
  fp = fp  fq = fq  fr = fr  fs = fs  fa = fa  fb = fb  fc = fc  fk = fk  fw = fw  fx = fx  fy = fy
  Futures <- TokenFutures
  Kind <- TokenKind
  Inputs <- TokenInputs
  Target <- NoTarget
  Void = {}
  Users = {u1, u2}
  SourceUsers = {u1, u2}
  Executors = {e1}
  NoFuture = NoFuture
  ContinuationInvoked = ContinuationInvoked
  NoError = NoError
  Canceled = Canceled
  WaitCyclesRunOut = FALSE
INVARIANTS NoCrash
CHECK_DEADLOCK FALSE
