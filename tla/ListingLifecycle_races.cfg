SPECIFICATION Spec
CONSTANTS
  Listing = {l1}
  Owner = {o1, o2}
  NoOwner = NoOwner
  Report = {r1, r2}
  NoReport = NoReport
  Position = {p1}
  Slot = {s1, s2}
  MaxClock = 3
  MaxAudit = 3
SYMMETRY Interchangeable
INVARIANT TypeOK
INVARIANT PublishTimeMatchesStatus
INVARIANT OnlyBlankedClosedRowsAreRefused
INVARIANT ModerationMatchesAudit
PROPERTY ChangesAreTheOwnersOrAudited
PROPERTY SellersNeverPublishIncomplete
