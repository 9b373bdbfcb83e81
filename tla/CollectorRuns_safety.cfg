SPECIFICATION Spec
CONSTANTS
  r1 = r1
  r2 = r2
  t1 = t1
  t2 = t2
  Runs <- TwoRuns
  Ticks <- TwoTicks
  FailureLimit = 1
  MaxVersion = 2
  MaxRecord = 2
  Unusable <- FirstRecord
  RaisedDelivers <- Never
INVARIANTS
  OneActiveRun
  BudgetStopsCollection
  RunsTheLiveRevision
  NoGapBelowCursor
SYMMETRY Symmetry
