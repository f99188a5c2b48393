SPECIFICATION Spec
CONSTANTS
  Markets = {m1}
  Listings = {v1, v2}
  NoListing = none
  w1 = w1
  w2 = w2
  Procs = {w1, w2}
  CommandsOf <- Roles
  FailureShare = 2
  MaxRuns = 2
  MaxChanges = 1
  MaxFailures = 1
INVARIANTS
  RulesHistoryHolds
  CompletedRunsAreWhole
  ResearchHasTodaysData
PROPERTIES
  FeeWasInForce
  FinishedReportsStand
  RulesCatchUp
  DailyReachesReport
CHECK_DEADLOCK FALSE
