\* Two tickets on one line; one invocation at a time may die.
CONSTANTS
  p1 = p1  p2 = p2  p3 = p3  buyA = buyA  buyB = buyB
  NoTicket = NoTicket
  Proposals = {p1, p2}
  Lines = {buyA, buyB}
  LineOf <- SameLine
  Procs = {w1}
  Lifetime = 1
  WeekLength = 2
  WeeklyLimit = 2
  MaxTime = 2
  MaxCrashes = 1
  MaxCuts = 0
SPECIFICATION Spec
INVARIANTS
  OneLiveOrderPerLine
