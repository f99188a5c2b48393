SPECIFICATION RulesSpec
CONSTANTS
  Times = {0, 1, 2}
  Verdicts <- ThreeVerdicts
  MaxRows = 3
  Prices = 10
  FeeUnits = 10
  Quanta = 2
  Grain = 2
  Cases <- AllCases
  Tickers = {"core", "sat"}
  Instruments <- Limits
  Lot = 3
  Quotes = {100, 103}
  Weights = {0, 20, 40}
  Floor = 500
  MaxFraction = 40
  Deviation = 3
  Opening <- Holdings
  MaxOrders = 2
  Calls = {c1, c2}
  Whitelist = {"core"}
  Feeds = {"EDINET", "NEWS"}
  Digests = {"NEWS"}
  ItemsOf <- ItemsOfFeeds
  Published <- WhenPublished
  MaxAge <- Ages
  Quota <- OnePerFeed
  MaxRunAge = 0
  Citings <- Cited
  Ingesters = {"c"}
  Researchers = {"d"}
  EndOfTime = 2
  MaxIngests = 3
  MaxResearch = 1
INVARIANTS
  RuleIsTheReference
  WalkIsBest
  
  CapsHold
  EdgeHoldsWithinBounds
  
  GoodForOneOrder
  SoundOutcome
  ToolsRunVerified
  
PROPERTIES
  FillsStayWithinCaps
CHECK_DEADLOCK FALSE
