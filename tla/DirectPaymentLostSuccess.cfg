SPECIFICATION Spec
CONSTANTS
  o1 = o1
  o2 = o2
  a1 = a1
  a2 = a2
  v1 = v1
  Orders <- TwoOrders
  Attempts = {a1, a2}
  OrderOf <- RivalOrderOf
  Variants = {v1}
  Demand <- UnitDemand
  StockLevels = {0, 1}
  NoAttempt = NoAttempt
  ProviderFaults = {}
  SlowReviews = {}
  TimelyWorkers = TRUE
  HoldOutlivesDispatch = FALSE
INVARIANT SuccessIsRecordable
