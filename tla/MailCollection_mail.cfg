SPECIFICATION FairSpec
CONSTANTS
  w1 = w1
  w2 = w2
  LastUid = 3
  MaxEpoch = 2
  Unreadable <- SecondIsUnreadable
  Workers <- TwoWorkers
  MaxTasks = 1
  Interval = 2
  MaxBackoff = 3
  MaxFailures = 3
  Window = 2
  Batch = 1
INVARIANT NoMailSkipped
INVARIANT OnlyNewMail
PROPERTY MailIsCollected
