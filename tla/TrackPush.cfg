SPECIFICATION FairSpec
CONSTANTS
  Group = {"a", "b"}
  Platform = {"A", "B"}
  PlatformOf <- PlatformOfTwo
  Run = {r1, r2}
  BatchLimit = 2
  MaxRows = 3
  MaxFailures = 1
INVARIANTS
  NoRowOvertakes
PROPERTIES
  ImplementsOutbox
  ReadyDrains
