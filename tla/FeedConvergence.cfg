\* One product published, published again, repriced and unpublished: does the feed
\* come back once every event is handled?
SPECIFICATION MovesSpec
CONSTANTS
  Products = {p1}
  Store = Store
  LogBound = 5
  RevisionBound = 5
  BegunBound = 1
  FeedChanges = 5
  ContentChanges = 0
  ContentBound = 0
  Identities = {i1, i2}
  Stores = {s1}
  FollowLogBound = 0
  Windows = {}
  FirstWindow = w1
  SaveBound = 0
  KeyBound = 0
  TwinBound = 0
  Codes = {"POST"}
CONSTRAINT Bounded
ACTION_CONSTRAINT ProducersFirst
SYMMETRY Symmetry
INVARIANT FeedHeals
CHECK_DEADLOCK FALSE
