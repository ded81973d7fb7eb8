\* Separate tables, microbatches of two blocks, a reorg, two faults.
CONSTANTS
  a = a
  b = b
  Labels = {a, b}
  NoRows = {}
  SameTable = FALSE
  MaxInterval = 2
  MaxHeight = 3
  MaxReorgs = 1
  MaxWire = 2
  Retention = 1
  MaxFaults = 2
  MaxId = 8
SPECIFICATION Spec
INVARIANTS TypeOK   ServerIsValid
PROPERTIES IdsAreFresh 
CHECK_DEADLOCK FALSE
