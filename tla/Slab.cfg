SPECIFICATION Spec
CONSTANTS
  PowerLargest = 2
  Size <- MCSize
  PerSlab <- MCPerSlab
  MemLimit = 13
  PreallocBytes = 4
  InitialList = 1
  MaxSlabs = 4
  NoItem = NoItem
  Requests = {1, 2, 3}
INVARIANTS TypeOK PagesAccounted CountersExact LimitOverrun ListRoom
