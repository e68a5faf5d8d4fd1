SPECIFICATION Spec
CONSTANTS
  t1 = t1
  t2 = t2
  Threads = {t1, t2}
  Objects = {1, 2, 3}
  NoObj = NoObj
  Slots <- MCSlots
  Programs <- MCPrograms
INVARIANTS
  TypeOK
  StrongCountExact
  NoDanglingPointer
  DestroyedOnce
  NoLeak
  ReportedUnhandled
PROPERTIES
  PublishedOnce
