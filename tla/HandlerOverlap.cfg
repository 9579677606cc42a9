SPECIFICATION Spec
CONSTANTS
  Parcel = {"p1"}
  Event = {1, 2, 3, 4}
  MaxTime = 2
  Handler = {h1, h2}
  Unrecorded = "UNRECORDED"
  NotCrawled = "NOT_CRAWLED"
  KnownEvent <- OverlapEvents
  Aim <- OneAim
  MaxTrackings = 2
  MaxFailures = 1
SYMMETRY HandlerSymmetry
INVARIANTS
  FlagsAgree
  AgingIsTransferToArrival
  MilestonesHaveEvidence
  ChangeIsAnnounced
PROPERTY SoloSaveAdvances
