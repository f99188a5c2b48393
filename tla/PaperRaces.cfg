SPECIFICATION Spec
CONSTANTS
  Cohorts = {c1}
  Variants = {primary}
  Markets = {m1, m2}
  Runs = {w1, w2}
  Bankroll = 4
  Offers <- TwoOffers
  MaxCrashes = 1
SYMMETRY LedgerSymmetry
INVARIANTS
  BooksAreSound
  NoInvocationRaises
