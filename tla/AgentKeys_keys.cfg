SPECIFICATION Spec
CONSTANTS
  a1 = a1
  p1 = p1
  s1 = s1
  s2 = s2
  Registered <- OneServer
  Enrolled <- OneClient
  SameName = TRUE
  Slots <- TwoRequests
  MaxEnrollments = 2
  KeysOf <- KeysOfEach
  CodesOf <- CodesOfEach
  MaxBootstraps = 2
  MaxResets = 1
SYMMETRY Symmetry
INVARIANT BoundOnce
INVARIANT RevokedForGood
INVARIANT ActiveKeyIsTheMachines
INVARIANT AnswerNotLostForGood
PROPERTY ResetEndsKeys
PROPERTY NameNotTaken
CHECK_DEADLOCK FALSE
