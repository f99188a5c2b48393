SPECIFICATION FairSpec
CONSTANTS
  c1 = c1
  c2 = c2
  Runs = {r1}
  Cohorts = {c1, c2}
  Markets = {m1, m2}
  CapOf <- CheapAndDear
  DailyUsd = 2
  MaxEntries = 1
  MaxFailedEntries = 2
  ErrorStreak = 2
  AnyStreak = 3
  UpdateInterval = 1
  MaxDay = 1
  MaxAttempts = 3
  CostsOf <- CheapVaries
  SessionFailures = {"OTHER"}

  
PROPERTIES
  AttemptsClosed
