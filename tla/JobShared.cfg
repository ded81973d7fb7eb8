SPECIFICATION Spec
CONSTANTS
  Jobs = {j1, j2}
  Nodes = {n1, n2}
  Datasets = {d1}
  Controllers = {c1}
  Null = Null
  MaxStops = 1
  MaxRetries = 0
  MaxCrashes = 1
SYMMETRY Symmetry
INVARIANTS LiveTaskIsActive AbortMeansStopping IInv
