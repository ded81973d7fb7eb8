\* A job starts while the background task of the last one still runs.
CONSTANTS
  a = a
  b = b
  t1 = t1
  t2 = t2
  Labels = {a}
  MaxHeight = 3
  MaxReorgs = 0
  Tasks = {t1, t2}
  MaxWriters = 1
  MaxFiles = 5
  MaxCrashes = 0
  MaxAborts = 1
SPECIFICATION Spec
INVARIANTS RegisteredFilesExist
CHECK_DEADLOCK FALSE
