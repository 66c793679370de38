SPECIFICATION OneMovesSpec
CONSTANTS
  People = {p1, p2, p3}
  Nobody = Nobody
  Duties = {"ACCESS_ADMINISTRATION", "ACCESS_AUDIT_REVIEW", "SELLER_APPLICATION_REVIEW"}
  HighRisk = {"ACCESS_ADMINISTRATION"}
  Grants = {g1, g2}
  OutsideBound = 2
  Applications = {x1, x2}
  Recoveries = {r1, r2}
  NoApplication = NoApplication
  VersionBound = 3
  Challenges = {p1, p2, p3}
  Sessions = {s1}
  MaxGuesses = 1
  ResetBound = 1
SYMMETRY Identical
CONSTRAINT Bounded
INVARIANTS
  SessionsFollowResets
  DutiesAreAgreed
  UsesAreCovered
  EmergencyHasTwo
  SellersWereApproved
PROPERTIES
  FactorsAreVouchedFor
CHECK_DEADLOCK FALSE
