SPECIFICATION FairSpec
CONSTANTS
  Number = {"n1", "n2"}
  Order = {"o1", "o2", "o3", "o4"}
  KindOf <- Kinds
  Format = {"pdf", "zpl"}
  FormatOf <- Formats
  Queued = {"o1"}
  MaxParcels = 2
  MaxFailures = 1
INVARIANTS
  AnsweredIsSaved
  
  
PROPERTIES
  QueuedLabelArrives
  NumberGivenOnce
CHECK_DEADLOCK FALSE
