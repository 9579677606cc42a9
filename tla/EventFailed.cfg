SPECIFICATION Spec
CONSTANTS
  Number = {n1, n2}
  Accepted = {n1, n2}
  Importer = {m1}
  ChunkSize = 2
  MaxTasks = 1
  MaxFailures = 1
INVARIANT PushedTaskWasPushed
CHECK_DEADLOCK FALSE
