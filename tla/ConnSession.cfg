SPECIFICATION FairSpec
CONSTANTS
  IntMod = 16
  LongMod = 64
  Request = {"version", "stats", "quit", "get", "delete", "pair", "blank", "set", "cas", "setneg", "setmax", "setword", "casneg", "getfull", "getwide"}
  Info <- MCInfo
  ReadBufLen = 8
  WriteBufLen = 4
  TextExcess = {1, 2}
  StringLen = 2
  AllocFails = TRUE
  Client = {c1}
  NoClient = NoClient
  SendRoom = 3
  CutLines = FALSE
  CutValues = FALSE
  Hasty = FALSE
  Leavers = {}
  Fresh = {"NUL"}
INVARIANTS TypeOK NothingForgotten ValueFits
PROPERTIES KeepsPromise EveryoneIsAnswered
CHECK_DEADLOCK FALSE
