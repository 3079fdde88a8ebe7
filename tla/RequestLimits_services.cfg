SPECIFICATION LimitSpec
CONSTANTS
  e1 = e1
  e2 = e2
  s1 = s1
  s2 = s2
  c1 = c1
  c2 = c2
  Email = {e1, e2}
  Slot = {s1, s2}
  MaxFailures = 2
  MaxTracked = 1
  Caller = {c1, c2}
  Proxy = Proxy
  Limit = 2
  Period = 3
  Services = {"auth", "listings", "support"}
INVARIANTS
  OverlapIsBounded
  BurstIsBounded
  QuotaIsOwn
PROPERTIES
  BlockEnds
