SPECIFICATION Spec
CONSTANTS
  Thread = {t1, t2, t3}
  Slot = {s1, s2}
  Addr = {a1}
  Name = {n1}
  NoHandle = NoHandle
  NullEntry = NullEntry
  NoSlot = NoSlot
  AllocFails = TRUE
  Setter = {t1, t2}
  Resetter = {t2, t3}
  Waiter = {t1, t2, t3}
  MaxCount = 3
SYMMETRY HandleSymmetry
INVARIANTS EventConserved
CHECK_DEADLOCK FALSE
