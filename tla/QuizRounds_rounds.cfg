SPECIFICATION Spec
CONSTANTS
  p1 = p1
  p2 = p2
  s1 = s1
  s2 = s2
  r1 = r1
  People <- TwoPeople
  Rounds <- OneRound
  Slots <- TwoSlots
  MinCohort = 1
  LastDay = 2
SYMMETRY Symmetric
INVARIANT ResultIsCurrent
INVARIANT OnlyStartsDeadlock
PROPERTY RecordedStays
PROPERTY AnswersEndWithTheRound
CHECK_DEADLOCK FALSE
