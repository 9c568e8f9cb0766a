SPECIFICATION FairSpec
CONSTANTS
  Thread = {t1, t2, t3}
  Slot = {s1}
  Addr = {a1}
  Name = {n1}
  NoHandle = NoHandle
  NullEntry = NullEntry
  NoSlot = NoSlot
  NoTid = NoTid
  AllocFails = FALSE
  Signalled = {t1}
  Recursive = {t2}
  Mortal = {}
  CloseHeld = FALSE
  MaxNested = 2
  MaxCount = 2
PROPERTY WaiterServed
