SPECIFICATION FairSpec
CONSTANTS
  s1 = s1
  s2 = s2
  MaxEpoch = 2
  MaxSeq = 2
  BatchSize = 2
  Lines <- SecondIsLine
  Slots <- TwoRequests
  MaxAbandoned = 1
  None = None
INVARIANT StoredOnce
INVARIANT ContinuousFollows
INVARIANT UndisturbedChainIsWhole
PROPERTY ImplementsLog
PROPERTY QueueDrains
CHECK_DEADLOCK FALSE
