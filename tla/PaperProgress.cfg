SPECIFICATION FairSpec
CONSTANTS
  Cohorts = {c1, c2}
  Variants = {primary}
  Markets = {m1}
  Runs = {w1, w2}
  Bankroll = 4
  Offers <- OneOffer
  MaxCrashes = 1
INVARIANTS
  BooksAreSound
PROPERTIES
  ClosedCohortsOnlyReceive
  NothingIsLeftOpen
CHECK_DEADLOCK FALSE
