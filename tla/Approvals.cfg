SPECIFICATION Spec
CONSTANTS
  Proposals = {p1}
  Lines = {p1}
  LineOf <- OwnLine
  Lifetime = 1
  WeekLength = 7
  Handlers = {h1, h2}
  MaxTime = 1
  MaxPresses = 2
  MaxFailures = 2
INVARIANTS
  VerdictWasGiven
  LedgerTellsTheVerdict
PROPERTIES
  PressIsAnswered
CHECK_DEADLOCK FALSE
