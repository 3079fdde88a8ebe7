SPECIFICATION Spec
CONSTANTS
  r1 = r1
  r2 = r2
  r3 = r3
  ana = ana
  ben = ben
  q1 = q1
  q2 = q2
  Reports = {r1, r2}
  Staff = {ana}
  Requests = {q1, q2}
  Stores <- AllStores
  ListLimit = 1
  Parts = 2
  MaxTime = 3
INVARIANTS
  AuditChains
  OmitsNoNewerSecond
PROPERTIES
  RequestsAreAnswered
  ImplementsReportTrail
