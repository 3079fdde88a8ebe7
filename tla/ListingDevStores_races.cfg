SPECIFICATION DevSpec
CONSTANTS
  Listing = {l1}
  Owner = {o1}
  NoOwner = NoOwner
  Report = {r1}
  NoReport = NoReport
  Position = {p1}
  Slot = {s1, s2}
  MaxClock = 3
  MaxAudit = 3
SYMMETRY Interchangeable
INVARIANT RowsFitTheirStatus
PROPERTY AuditRowsAreTrueWhenWritten
