SPECIFICATION FairSpec
CONSTANTS
  Thread = {t1, t2, t3}
  Slot = {s1, s2}
  Addr = {a1}
  Name = {n1}
  NoHandle = NoHandle
  NullEntry = NullEntry
  NoSlot = NoSlot
  AllocFails = TRUE
  Setter = {t1}
  Resetter = {}
  Waiter = {t1, t2, t3}
  MaxCount = 2
INVARIANT EventSound
PROPERTIES ImplementsAutoResetEvent SetWakes
CHECK_DEADLOCK FALSE
