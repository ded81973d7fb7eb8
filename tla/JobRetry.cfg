SPECIFICATION FairSpec
CONSTANTS
  Jobs = {j1}
  Nodes = {n1}
  Datasets = {d1}
  Controllers = {c1, c2}
  Null = Null
  MaxStops = 2
  MaxRetries = 2
  MaxCrashes = 2
INVARIANTS TypeOK RetryListsAreSafe
PROPERTIES RetryFromFailedOnly StopSticks ImplementsLifecycle ScheduledIsPickedUp StopIsAcknowledged
