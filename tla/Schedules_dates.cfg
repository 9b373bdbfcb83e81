SPECIFICATION ScheduleSpec
CONSTANTS
  NoDate = NoDate
  t1 = t1
  t2 = t2
  m1 = m1
  m2 = m2
  FirstYear = 2026
  Tasks <- TwoTasks
  Mailers <- TwoMailers
  Payloads <- SomePayloads
  Changes <- SomeChanges
  EditDays <- SomeDays
  DaysAhead = 7
  ReminderDays = 1
  MaxSteps = 1000
  LastDay = 60
  MaxEdits = 1
  MaxOutages = 1
  MaxFailures = 1
  MaxDeaths = 1
INVARIANT RunsMoveForward
INVARIANT KeepsThePlan
INVARIANT NoRunIsMissed
INVARIANT RemindersBounded
SYMMETRY Symmetry
CHECK_DEADLOCK FALSE
