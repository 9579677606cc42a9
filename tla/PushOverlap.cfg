SPECIFICATION FairSpec
CONSTANTS
  Parcel = {"p1", "p2", "p3"}
  Platform = {"A", "B"}
  PlatformOf <- PlatformOfThree
  Run = {r1, r2}
  BatchLimit = 2
  ChunkSize = 1
  MaxRequests = 2
  MaxFailures = 1
INVARIANTS
  GoneIsLogged
  SentInOrder
  SyncedWasSent
PROPERTIES
  ImplementsOutbox
  OutboxDrains
