SPECIFICATION FairSpec
CONSTANTS
  o1 = o1
  o2 = o2
  a1 = a1
  a2 = a2
  v1 = v1
  Orders <- OneOrder
  Attempts = {a1}
  OrderOf <- RetryOrderOf
  Variants = {v1}
  Demand <- UnitDemand
  StockLevels = {1}
  NoAttempt = NoAttempt
  ProviderFaults = {}
  SlowReviews = {a1}
  TimelyWorkers = FALSE
  HoldOutlivesDispatch = FALSE
PROPERTIES
  ReviewResolves
  HoldsAreReleased
  OrdersSettle
