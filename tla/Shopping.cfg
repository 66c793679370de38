SPECIFICATION OneMovesSpec
CONSTANTS
  s1 = s1
  s2 = s2
  Carts = {k1, k2}
  Stores = {s1, s2}
  MaxQuantity = 2
  Quantities = {1}
  RevisionBound = 1
  TermsBound <- TermsOf
  Preparations = {p1, p2}
  Purchases = {q1, q2}
  Keys = {i1, i2}
  Nothing = Nothing
  AddressBound = 2
  PayKeys = {y1, y2}
  SoloStores = {s1}
  Askers = {k1, k2}
  CartKeys = {c1, c2}
  RecordedKeys = {c1}
  CartRequests = {p1, p2}
SYMMETRY Names
CONSTRAINT Separate
CHECK_DEADLOCK FALSE
INVARIANTS
  OnePurchasePerCart
  ReservationMatchesOrder
  GroupIsWhole
PROPERTIES
  BuysTheCartAsItIs
  CartCommandsRunOnce
