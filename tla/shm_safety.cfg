SPECIFICATION Spec
CONSTANTS
  Thread = {t1, t2, t3}
  Slot = {s1, s2, s3}
  Addr = {a1, a2}
  Name = {n1}
  NoHandle = NoHandle
  NullEntry = NullEntry
  NoSlot = NoSlot
  AllocFails = TRUE
  Segment = {g1, g2, g3}
  NoSeg = NoSeg
  Size = {1}
  Overlap = FALSE
  Faults = TRUE
SYMMETRY Symmetry
CHECK_DEADLOCK FALSE
INVARIANTS ShmMappingsSound SameMemory UnlinkedWithLastHandle
