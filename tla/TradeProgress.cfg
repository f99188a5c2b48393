\* One ticket, two processes that keep running.
CONSTANTS
  p1 = p1  p2 = p2  p3 = p3  buyA = buyA  buyB = buyB
  NoTicket = NoTicket
  Proposals = {p1}
  Lines = {buyA, buyB}
  LineOf <- SameLine
  Procs = {w1, w2}
  Lifetime = 1
  WeekLength = 2
  WeeklyLimit = 1
  MaxTime = 1
  MaxCrashes = 0
  MaxCuts = 0
SPECIFICATION FairSpec
PROPERTIES
  ClaimIsResolved
  
