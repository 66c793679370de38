SPECIFICATION Spec
CONSTANTS
  o1 = o1
  o2 = o2
  a1 = a1
  a2 = a2
  v1 = v1
  Orders <- OneOrder
  Attempts = {a1, a2}
  OrderOf <- RetryOrderOf
  Variants = {v1}
  Demand <- UnitDemand
  StockLevels = {1}
  NoAttempt = NoAttempt
  ProviderFaults = {"CONTRADICTION", "LATE_PENDING"}
  SlowReviews = {}
  TimelyWorkers = FALSE
  HoldOutlivesDispatch = FALSE
SYMMETRY Retries
INVARIANTS
  PaidIsSettled
  LiveAttemptOwnsReservation
  SweepsNeverAbort
  NoSilentSuccess
  NoDoubleCharge
PROPERTY VerdictsAreFinal
