SPECIFICATION ApartSpec
CONSTANTS
  Parcel = {"p1", "p2"}
  Event = {1, 2, 3}
  MaxTime = 2
  Handler = {h1, h2}
  Unrecorded = "UNRECORDED"
  NotCrawled = "NOT_CRAWLED"
  KnownEvent <- ApartEvents
  Aim <- TwoAims
  MaxTrackings = 3
  MaxFailures = 1
SYMMETRY HandlerSymmetry
INVARIANTS
  CaughtUp
  ConsumersKeepUp
PROPERTY RerunRepairs
