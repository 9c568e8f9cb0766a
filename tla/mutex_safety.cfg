SPECIFICATION Spec
CONSTANTS
  Thread = {t1, t2, t3}
  Slot = {s1, s2}
  Addr = {a1, a2}
  Name = {n1, n2}
  NoHandle = NoHandle
  NullEntry = NullEntry
  NoSlot = NoSlot
  NoTid = NoTid
  AllocFails = TRUE
  Signalled = {}
  Recursive = {t1, t2, t3}
  Mortal = {t1, t2, t3}
  CloseHeld = TRUE
  MaxNested = 2
  MaxCount = 2
SYMMETRY Symmetry
INVARIANTS TypeOK MutualExclusion NeverLost OneObjectPerName RefCountExact NoUseAfterFree
PROPERTY ImplementsNamedLock
CHECK_DEADLOCK FALSE
