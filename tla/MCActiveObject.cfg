SPECIFICATION Spec
CONSTANTS
  c1 = c1  q = q  o1 = o1  NoObject = NoObject
  Clients = {c1}
  QueueThread = q
  ActiveObjects = {o1}
  CallBound = 1
INVARIANTS TypeOK InitializedBeforeUse FinalizedInOrder DestroyedOnce
PROPERTIES EveryObjectDestroyed ReleaseAndWaitReturns
CHECK_DEADLOCK FALSE
