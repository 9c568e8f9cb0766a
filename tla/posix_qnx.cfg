SPECIFICATION Spec
CONSTANTS
  Thread = {t1, t2}
  Slot = {s1, s2}
  NoSlot = NoSlot
  MutexName = {"m"}
  SemName = {"q"}
  EventName = {"e"}
  ShmName = {"h1", "h2"}
  Asked <- AskedMC
  Limit = {0, 50, 150000}
  Obj = {o1, o2, o3}
  NoObj = NoObj
  MaxValue = 2
  Entry = {a1, a2}
  NoEntry = NoEntry
  NoRequest = NoRequest
  Stops = TRUE
  MaxCount = 1
  MaxLost = 1
INVARIANTS
  PosixObjectsSound PosixNamesSound ResetBlocksOnlyIfOvertaken
  QnxEntriesSound QnxWaitsSound
PROPERTIES LimitedWaitEnds RequestsAnswered
CHECK_DEADLOCK FALSE
