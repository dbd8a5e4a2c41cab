CONSTANTS
  h1 = h1
  h2 = h2
  h3 = h3
  s1 = s1
  s2 = s2
  m1 = m1
  m2 = m2
  Subscriptions <- MCSubscriptions
  Subscribers <- MCSubscribers
  SubscriberOf <- MCSubscriberOf
  Events <- MCEvents

SPECIFICATION BusSpec

INVARIANTS
  NobodyIsSkipped
  EmitterOrder

PROPERTY OneCallPerStay
