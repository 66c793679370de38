SPECIFICATION OneMovesSpec
CONSTANTS
  o1 = o1
  r1 = r1
  b1 = b1
  b2 = b2
  k1 = k1
  k2 = k2
  k3 = k3
  f1 = f1
  c1 = c1
  Orders <- OneOrder
  Quantity <- TwoUnits
  InitialOnHand = 1
  Requests = {r1}
  Keys = {k1, k2, k3}
  ProviderEvents = {f1, c1}
  ResultOf <- FailedOrConfirmed
  MaxTime = 2
  BuyerRequests = {b1, b2}
  ShippedWindow = 1
  DeliveredWindow = 0
  ResponseTime = 1
  ReopenWindow = 0
  CaseBound = 3
  Senders = {k1, k2, k3}
  NoClaim = NoClaim
  OpenKeys = {j1}
  SendKeys = {j2}
  Contents = {m1, m2}
  Talk = m1
  Uploads = {k1, k2, k3}
  Contexts = {x1}
  UploadKeys = {b1, b2}
  Pictures = {b1, b2}
  NoContext = NoContext
  MaxItems = 2
SYMMETRY Interchangeable
CHECK_DEADLOCK FALSE
INVARIANT DisputeViewConverges
