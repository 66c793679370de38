SPECIFICATION FairSpec
CONSTANTS
  c1 = c1
  c2 = c2
  w1 = w1
  w2 = w2
  w3 = w3
  e1 = e1
  Consumers = {c1, c2}
  Projecting = {c1}
  Events = {e1}
  Workers = {w1, w2, w3}
  ConsumerOf <- MixedConsumerOf
  MaxAttempts = 2
  AttemptBound = 3
  Nobody = Nobody
  NoEvent = NoEvent
INVARIANTS
  EffectsMatchReceipts
  NothingDiesEarly
PROPERTIES
  LeaseIsExclusive
  ImplementsPromise
  EventsAreHandled
