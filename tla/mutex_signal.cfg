SPECIFICATION Spec
CONSTANTS
  Thread = {t1, t2}
  Slot = {s1, s2}
  Addr = {a1}
  Name = {n1}
  NoHandle = NoHandle
  NullEntry = NullEntry
  NoSlot = NoSlot
  NoTid = NoTid
  AllocFails = FALSE
  Signalled = {t1}
  Recursive = {t1, t2}
  Mortal = {}
  CloseHeld = FALSE
  MaxNested = 2
  MaxCount = 2
INVARIANT MutualExclusion
