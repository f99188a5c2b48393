\* One operator, one invocation at a time: three tickets on two lines.
CONSTANTS
  p1 = p1  p2 = p2  p3 = p3  buyA = buyA  buyB = buyB
  NoTicket = NoTicket
  Proposals = {p1, p2, p3}
  Lines = {buyA, buyB}
  LineOf <- TwoLines
  Procs = {w1}
  Lifetime = 1
  WeekLength = 1
  WeeklyLimit = 2
  MaxTime = 1
  MaxCrashes = 0
  MaxCuts = 0
SPECIFICATION Spec
SYMMETRY LineSymmetry
INVARIANTS
  WeeklyCap
  OneLiveOrderPerLine
