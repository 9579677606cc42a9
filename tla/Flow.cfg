SPECIFICATION FairFlowSpec
CONSTANTS
  Parcel = {"p1"}
  Event = {1, 2, 3}
  MaxTime = 2
  Handler = {h1}
  Unrecorded = "UNRECORDED"
  NotCrawled = "NOT_CRAWLED"
  KnownEvent <- FlowEvents
  Aim <- NoAim
  MaxTrackings = 3
  MaxFailures = 0
  Platform = {"A"}
  PlatformOf <- OnePlatform
  Run = {r1}
  BatchLimit = 2
  ChunkSize = 1
  MaxRequests = 4
INVARIANTS
  SyncHeals
  PlatformKnowsParcel
PROPERTY ArrivalEventuallyTold
