SPECIFICATION FairSpec
CONSTANTS
  Thread = {t1, t2, t3}
  Slot = {s1, s2}
  Addr = {a1}
  Name = {n1}
  NoHandle = NoHandle
  NullEntry = NullEntry
  NoSlot = NoSlot
  AllocFails = TRUE
  Value = {0, 2}
  MaxPosts = 1
INVARIANT SemCountsSound
PROPERTY WaiterServed
CHECK_DEADLOCK FALSE
