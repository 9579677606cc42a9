SPECIFICATION FairSpec
CONSTANTS
  Target = {t1}
  File = {f1, f2}
  Executor = {e1}
  Points = 1
  MaxCount = 2
  MaxQuantity = 1
  Late = {}
  MaxPlans = 5
  MaxFailures = 1
INVARIANTS
  TypeOK
  
 
CHECK_DEADLOCK FALSE
