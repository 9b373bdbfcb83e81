SPECIFICATION FairSpec
CONSTANTS
  r1 = r1
  r2 = r2
  t1 = t1
  t2 = t2
  Runs <- TwoRuns
  Ticks <- OneTick
  FailureLimit = 1
  MaxVersion = 1
  MaxRecord = 0
  Unusable <- Nothing
  RaisedDelivers <- BOOLEAN
INVARIANTS
  ChargedOnce
PROPERTIES
  RunsEnd
