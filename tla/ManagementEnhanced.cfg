CONSTANTS
  A = A
  B = B
  C = C
  NoTarget = NoTarget
  NoVersion = NoVersion
  Managers = {m1, m2, m3}
  Versions <- MCVersions
  MaxCommands = 5
  Writers = {w1, w2}
  GraphLaws = {A, B, C}
  ListedLaws <- MCListedLaws
  Checkpoints <- MCCheckpoints
  EnhancedRows <- MCRows
  TestRow <- MCTestRow
  ArticleNumbers = {"1", "3", "3_2", "dai1jo"}
  numericFormat <- MCNumericFormat
  InitialNodes <- MCInitialNodes
  BatchSize = 1
  DeleteLimit = 2
  MaxSyncs = 3
SPECIFICATION MCSpec
SYMMETRY MCSymmetry
CHECK_DEADLOCK FALSE
INVARIANT SyncedRowsHaveEdges
