SPECIFICATION Spec
CONSTANTS
  o1 = o1
  o2 = o2
  e1 = e1
  d1 = d1
  w1 = w1
  w2 = w2
  k1 = k1
  k2 = k2
  Objects <- TwoObjects
  Events <- OneEvent
  Documents <- OneDocument
  Writers <- OneWriter
  Cleaners <- OneCleaner
  None = None
  MaxRetries = 1
SYMMETRY Symmetry
INVARIANT RecordsHaveTheirObject
CHECK_DEADLOCK FALSE
