SPECIFICATION FairSpec
CONSTANTS
  IntMod = 16
  LongMod = 64
  Request = {"get", "put"}
  Info <- MCInfo
  ReadBufLen = 8
  WriteBufLen = 4
  TextExcess = {1, 2}
  StringLen = 2
  AllocFails = FALSE
  Client = {c1, c2}
  NoClient = NoClient
  SendRoom = 1
  CutLines = FALSE
  CutValues = TRUE
  Hasty = FALSE
  Leavers = {c1}
  Fresh = {"NUL"}
INVARIANT DiesOnlyWriting
PROPERTIES LeaversAreClosed StayersAreServed
CHECK_DEADLOCK FALSE
