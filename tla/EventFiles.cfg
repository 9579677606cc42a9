SPECIFICATION FairSpec
CONSTANTS
  Number = {n1, n2, n3, n4}
  Accepted = {n1, n2, n3}
  Importer = {m1, m2}
  ChunkSize = 2
  MaxTasks = 2
  MaxFailures = 1
INVARIANTS
  PushedIsLogged
  PushedTaskIsThrough
  ReportedOnce
PROPERTY RequestsEnd
CHECK_DEADLOCK FALSE
