\* Every microbatch has rows; pruning, a reorg, a fault.
CONSTANTS
  a = a
  b = b
  Labels = {a, b}
  NoRows = {}
  SameTable = TRUE
  MaxInterval = 1
  MaxHeight = 3
  MaxReorgs = 1
  MaxWire = 1
  Retention = 0
  MaxFaults = 1
  MaxId = 10
SPECIFICATION Spec
INVARIANTS CdcTypeOK  
CHECK_DEADLOCK FALSE
