SPECIFICATION FairSpec
CONSTANTS
  NumThreads = 3
  NumConns = 5
  PipeSize = 2
INVARIANTS TypeOK BytesMatchItems Worker0NeverWaits InOrder OwnLoop OneLoop
PROPERTY Served
CHECK_DEADLOCK FALSE
