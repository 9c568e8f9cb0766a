SPECIFICATION Spec
CONSTANTS
  Process = {p1, p2}
  Worker = {w1, w2}
  File = {f1, f2, f3}
  Name = {n1}
  Kind = {"mutex", "shm"}
  NoFile = NoFile
  NoObj = NoObj
  MaxRefs = 2
  Forks = FALSE
SYMMETRY Symmetry
INVARIANTS DriverReferencesSound NoStaleHandle NoUseAfterCloseAll
