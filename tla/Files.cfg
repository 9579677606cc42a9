SPECIFICATION FairSpec
CONSTANTS
  File = {1, 2}
  Server = {"ftl"}
  ServerOf <- OneServer
  Colissimo = {1}
  Chunks = 1
  Parser = {p1, p2}
  MaxDeliveries = 2
  MaxFailures = 1
INVARIANTS
  GoneIsStored
  TakenIsRecorded
  
PROPERTIES
  
  StoredIsHandled
CHECK_DEADLOCK FALSE
