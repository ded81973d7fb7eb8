\* Collection during the resolution of a reorg.
CONSTANTS
  a = a
  b = b
  t1 = t1
  t2 = t2
  Labels = {a, b}
  MaxHeight = 3
  MaxReorgs = 1
  Tasks = {t1}
  MaxWriters = 1
  MaxFiles = 6
  MaxCrashes = 0
  MaxAborts = 0
SPECIFICATION Spec
PROPERTIES CollectionIsLossless
CHECK_DEADLOCK FALSE
