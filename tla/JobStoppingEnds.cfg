SPECIFICATION FairSpec
CONSTANTS
  Jobs = {j1}
  Nodes = {n1}
  Datasets = {d1}
  Controllers = {c1}
  Null = Null
  MaxStops = 2
  MaxRetries = 1
  MaxCrashes = 1
PROPERTY StoppingEnds
