\* Orders that compete for a unit, and the product editor: three revisions, two
\* of them by others, and two of the stock.
SPECIFICATION OneMovesSpec
CONSTANTS
  o1 = o1
  o2 = o2
  a1 = a1
  a2 = a2
  v1 = v1
  Orders <- TwoOrders
  Attempts = {a1, a2}
  OrderOf <- RivalOrderOf
  Variants = {v1}
  Demand <- UnitDemand
  StockLevels = {0, 1}
  NoAttempt = NoAttempt
  ProviderFaults = {"WRONG_AMOUNT", "REUSED_EVENT"}
  SlowReviews = {}
  TimelyWorkers = TRUE
  HoldOutlivesDispatch = TRUE
  Keys = {1, 2, 3}
  LateBound = 1
  None = None
  RevisionBound = 3
  StockBound = 2
  ElsewhereBound = 2
CONSTRAINT Bounded
ACTION_CONSTRAINT EarlyOthers
INVARIANTS
  ReservedWithinOnHand
  NoBlindOverwrite
  PublishedAsShown
CHECK_DEADLOCK FALSE
