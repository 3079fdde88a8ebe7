SPECIFICATION DeployedSpec
CONSTANTS
  c1 = c1  c2 = c2  v1 = v1  v2 = v2
  MaxEvent = 4
  Counter = {c1, c2}
  Viewer = {v1, v2}
  CounterOf <- Cells
  ViewerOf <- Owners
  Worker = {w1, w2, w3}
  BatchSize = 2
INVARIANTS TypeOK CountedOnce OnlyOvertakenProfilesMissEvents
PROPERTY EveryEventIsCounted
