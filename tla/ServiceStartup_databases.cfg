SPECIFICATION StartSpec
CONSTANTS
  m1 = m1
  m2 = m2
  m3 = m3
  Runner = {m1, m2, m3}
  Release <- TwoReleases
  NoRunner = NoRunner
  Account = {a1, a2}
  OldReport = {r1}
  Databases = {"postgres", "sqlite"}
INVARIANTS
  AppliedOnce
  AppliedInOrder
  AccountsSurvive
PROPERTY AllAreApplied
