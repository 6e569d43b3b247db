SPECIFICATION Spec
CONSTANTS
  PowerLargest = 2
  Size <- MCSize
  PerSlab <- MCPerSlab2
  MemLimit = 1
  PreallocBytes = 4
  InitialList = 1
  MaxSlabs = 1
  NoItem = NoItem
  k1 = k1
  k2 = k2
  b1 = b1
  b2 = b2
  a1 = a1
  a2 = a2
  Key = {k1, k2}
  Bucket = {b1, b2}
  Hash <- TwoBuckets
  Atom = {a1}
  Overhead = 1
  UInt = 3
  UpdateInterval = 0
  NoKey = NoKey
  Conn = {c1}
  NoConn = NoConn
  Cmd = {"set", "add"}
  ClientFlags <- NoFlags
  Exptimes <- AllDeadlines
  Lengths = {1}
  CasIds = {0}
  MaxDelta = 2
  MaxTime = 3
  NoEntry = NoEntry
  NoRequest = NoRequest
INVARIANT NeverEvicts
PROPERTY ImplementsCache
