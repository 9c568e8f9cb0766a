SPECIFICATION Spec
CONSTANTS
  Thread = {t1, t2}
  Slot = {s1, s2, s3}
  NoSlot = NoSlot
  MutexName = {"m1", "m2"}
  SemName = {"q"}
  EventName = {"e"}
  ShmName = {"h"}
  Asked <- AskedMC
  Limit = {0}
  SemId = {0, 1, 2}
  ZeroId = 0
  NoId = NoId
  BadId = BadId
  Inode = {11, 12}
  NoInode = NoInode
  NoName = NoName
  MaxSemval = 1
  ShmId = {g1, g2}
  NoShmId = NoShmId
  ShmInode = {k1, k2}
  NoFile = NoFile
  Segment = {g1, g2}
  NoSegment = NoSegment
  ShmSize = 1
  OnQnx = {TRUE, FALSE}
  Writer = {t1, t2}
  SectionWord = {"a", "A", "b"}
  KeyWord = {"k", "K", "kk"}
  Lower <- LowerMC
  StartsWith <- StartsWithMC
  LooksLike <- LooksLikeMC
  Value = {1, 2}
  NoValue = 0
  File <- FileMC
  MaxWrites = 2
  User = {t1, t2}
  Operand = {0, 2}
  MaxLong = 2
  Caller = {t1, t2}
  Place = {p1, p2}
  NoPlace = NoPlace
  Tid = {1, 2}
  NoTid = NoTid
  BadTid = BadTid
  Gate = {g}
  NoGate = NoGate
  JoinLimit <- JoinLimitMC
  MaxGate = 2
  System = {"linux", "driver", "qnx"}
  Client = {t1, t2}
  ObjKind = {"sem", "mutex", "event", "shm"}
  NoKind = NoKind
  OldKernel = {TRUE, FALSE}
  MaxLeaks = 1
INVARIANTS
  SystemVTokensSound SystemVNamesSound SystemVShmSound PosixShmSound
   InterlockedSound ThreadsSound ModuleLifeSound ModuleObjectsSound
SYMMETRY Symmetry
CHECK_DEADLOCK FALSE
