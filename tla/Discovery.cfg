\* The storefront and its projections: two products for a content, one for a
\* feed; two followers of one store;
\* two windows of its editor, two requests and a second publication.
SPECIFICATION MovesSpec
CONSTANTS
  Products = {p1, p2}
  Store = Store
  LogBound = 5
  RevisionBound = 5
  BegunBound = 1
  FeedChanges = 5
  ContentChanges = 4
  ContentBound = 2
  Identities = {i1, i2}
  Stores = {s1}
  FollowLogBound = 4
  Windows = {w1, w2}
  FirstWindow = w1
  SaveBound = 2
  KeyBound = 3
  TwinBound = 2
  Codes = {"POST", "COURIER"}
CONSTRAINT Bounded
ACTION_CONSTRAINT ProducersFirst
SYMMETRY Symmetry
INVARIANTS
  FeedIsTrue
  CountsAgree
  LinksAgree
  TermsKeepTheirMeaning
PROPERTY SellerSawWhatChanges
CHECK_DEADLOCK FALSE
