\* Tables of up to four segments.
CONSTANTS
  a = a
  b = b
  Labels = {a, b}
  Genesis = a
  MaxHeight = 3
  MaxSegments = 4
SPECIFICATION Spec
INVARIANTS  ReclaimIsLossless ReorgsAreResolved MissingIsExact 
CHECK_DEADLOCK FALSE
