\* One chain: compaction, collection, a query, a crash and a job that ends early.
CONSTANTS
  a = a
  b = b
  t1 = t1
  t2 = t2
  Labels = {a}
  MaxHeight = 3
  MaxReorgs = 0
  Tasks = {t1}
  MaxWriters = 1
  MaxFiles = 5
  MaxCrashes = 1
  MaxAborts = 1
SPECIFICATION Spec
INVARIANTS TypeOK RegisteredFilesExist 
PROPERTIES  CheckRestoresConsistency
CHECK_DEADLOCK FALSE
