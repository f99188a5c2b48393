SPECIFICATION Spec
CONSTANTS
  c1 = c1
  c2 = c2
  Runs = {r1, r2}
  Cohorts = {c1}
  Markets = {m1, m2, m3, m4}
  CapOf <- OneCap
  DailyUsd = 9
  MaxEntries = 9
  MaxFailedEntries = 1
  ErrorStreak = 2
  AnyStreak = 3
  UpdateInterval = 1
  CostsOf <- FullCost
  SessionFailures = {"SYSTEMIC", "REPEATED", "OTHER"}
  MaxDay = 0
  MaxAttempts = 4
SYMMETRY ResearchSymmetry
INVARIANTS
  NeverPaysTwice
  BoundedWaste
