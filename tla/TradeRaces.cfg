\* One ticket, three concurrent processes, one crash.
CONSTANTS
  p1 = p1  p2 = p2  p3 = p3  buyA = buyA  buyB = buyB
  NoTicket = NoTicket
  Proposals = {p1}
  Lines = {buyA, buyB}
  LineOf <- SameLine
  Procs = {w1, w2, w3}
  Lifetime = 1
  WeekLength = 2
  WeeklyLimit = 1
  MaxTime = 1
  MaxCrashes = 1
  MaxCuts = 1
SPECIFICATION Spec
SYMMETRY ProcSymmetry
INVARIANTS
  AtMostOnePost
  ConsentBeforePost
  StoreIsTrue
PROPERTIES
  KeepsPromise
