\* Two slots: a seller's save overlaps a staff hide.
SPECIFICATION Spec
CONSTANTS
  Listing = {l1}
  Owner = {o1}
  NoOwner = NoOwner
  Report = {r1}
  NoReport = NoReport
  Position = {p1}
  Slot = {s1, s2}
  MaxClock = 2
  MaxAudit = 2
PROPERTY OnlyStaffRestore
