SPECIFICATION Spec
CONSTANTS
  Listing = {l1, l2}
  Owner = {o1, o2}
  NoOwner = NoOwner
  Report = {r1}
  NoReport = NoReport
  Position = {p1}
  Slot = {s1}
  MaxClock = 2
  MaxAudit = 2
PROPERTY ImplementsStatusMachine
