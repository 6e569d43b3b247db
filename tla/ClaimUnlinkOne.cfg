SPECIFICATION Spec
CONSTANTS
  PowerLargest = 2
  Size <- MCSize
  PerSlab <- MCPerSlab3
  MemLimit = 1
  PreallocBytes = 6
  InitialList = 1
  MaxSlabs = 1
  NoItem = NoItem
  k1 = k1
  k2 = k2
  b1 = b1
  b2 = b2
  a1 = a1
  a2 = a2
  Key = {k1, k2}
  Bucket = {b1}
  Hash <- OneBucket
  Atom = {a1}
  Overhead = 1
  UInt = 3
  UpdateInterval = 0
  NoKey = NoKey
  Conn = {c1}
  NoConn = NoConn
  Cmd = {"set"}
  ClientFlags <- NoFlags
  Exptimes <- NoDeadline
  Lengths = {1}
  CasIds = {0}
  MaxDelta = 2
  MaxTime = 0
  NoEntry = NoEntry
  NoRequest = NoRequest
INVARIANT UnlinkTakesOneItem
