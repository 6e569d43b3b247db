SPECIFICATION FairSpec
CONSTANTS
  IntMod = 16
  LongMod = 64
  Request = {"get"}
  Info <- MCInfo
  ReadBufLen = 8
  WriteBufLen = 4
  TextExcess = {1, 2}
  StringLen = 2
  AllocFails = FALSE
  Client = {c1}
  NoClient = NoClient
  SendRoom = 2
  CutLines = TRUE
  CutValues = FALSE
  Hasty = FALSE
  Leavers = {}
  Fresh = {"NUL"}
PROPERTY PartialLineWaits
CHECK_DEADLOCK FALSE
