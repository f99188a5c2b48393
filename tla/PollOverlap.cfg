SPECIFICATION Spec
CONSTANTS
  Pollers = {w1, w2}
  Tickets = {t1}
  Worlds <- Disputed
  MaxTime = 2
  MaxRows = 2
  MaxEras = 2
SYMMETRY PollSymmetry
INVARIANTS
  PaysConfirmedOutcomes
PROPERTIES
  SettlesOnNewestEvidence
CHECK_DEADLOCK FALSE
