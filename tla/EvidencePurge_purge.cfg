SPECIFICATION FairSpec
CONSTANTS
  s1 = s1
  k1 = k1
  k2 = k2
  LastEvent = 3
  Diary <- NewestIsDiary
  Limits <- KeepOneOrTwo
  Sessions <- OneSession
  Runners <- TwoRunners
  BatchSize = 1
  Disabled = Disabled
  MaxRequests = 3
INVARIANT PurgedIsGone
PROPERTY PauseHolds
PROPERTY AllowanceKept
PROPERTY PolicyTakesEffect
PROPERTY RequestsEnd
CHECK_DEADLOCK FALSE
