SPECIFICATION Spec
CONSTANTS
  IntMod = 16
  LongMod = 64
  Request = {"getbig"}
  Info <- MCInfo
  ReadBufLen = 8
  WriteBufLen = 4
  TextExcess = {1, 2}
  StringLen = 2
  AllocFails = FALSE
  Client = {c1}
  NoClient = NoClient
  SendRoom = 2
  CutLines = FALSE
  CutValues = FALSE
  Hasty = FALSE
  Leavers = {}
  Fresh = {"NUL"}
INVARIANT RepliesAreWhole
CHECK_DEADLOCK FALSE
