\* A reorg within a watermark's range.
CONSTANTS
  a = a
  b = b
  Labels = {a, b}
  NoRows = {}
  SameTable = TRUE
  MaxInterval = 2
  MaxHeight = 2
  MaxReorgs = 1
  MaxWire = 1
  Retention = 2
  MaxFaults = 0
  MaxId = 8
SPECIFICATION Spec
PROPERTIES PartialReorgRecovers
CHECK_DEADLOCK FALSE
