SPECIFICATION FairSpec
CONSTANTS
  Process = {p1, p2}
  Worker = {w1}
  File = {f1, f2}
  Name = {n1}
  Kind = {"sem", "shm"}
  NoFile = NoFile
  NoObj = NoObj
  MaxRefs = 2
  Forks = TRUE
INVARIANTS FreedWithLastUser NoForgottenDescriptor
PROPERTY EventuallyFreed
