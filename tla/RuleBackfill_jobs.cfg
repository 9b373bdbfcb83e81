SPECIFICATION FairSpec
CONSTANTS
  a = a
  b = b
  j1 = j1
  w1 = w1
  w2 = w2
  LastEvent = 2
  RuleIds <- TwoRules
  Documents <- AllOrNothing
  InitialRules <- OneSaved
  Jobs <- OneJob
  Workers <- TwoWorkers
  BatchSize = 1
  MaxVersion = 2
  Nobody = Nobody
  Person = Person
INVARIANT ExaminedOnce
INVARIANT ReconciledWhenCalm
PROPERTY ManualMappingsKept
PROPERTY JobsEnd
CHECK_DEADLOCK FALSE
