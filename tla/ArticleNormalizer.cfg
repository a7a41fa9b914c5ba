CONSTANTS
  NoNumber = NoNumber
  Absent = Absent
  x1 = x1
  x2 = x2
  a1 = a1
  a2 = a2
  Rows = {x1, x2}
  Nodes = {a1, a2}
  Numbers <- MCNumbers
  Stored <- MCStored
SPECIFICATION NormSpec
SYMMETRY MCSymmetry
INVARIANTS
  NormTypeOK
  NormalizedOnce
  CleanRunNormalizes
  OriginalsBackedUp
PROPERTY NoResurrection
