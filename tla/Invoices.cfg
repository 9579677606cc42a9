\* Two requests at once, two parses to ask for, and two failures or restarts.
CONSTANTS
  Invoice = {"cm", "cp", "cq"}
  KindOf <- MCKindOf
  Call = {c1, c2}
  Parts = 2
  MaxParses = 2
  MaxFailures = 2
SPECIFICATION FairSpec
INVARIANT SuccessIsComplete
PROPERTIES  ToldOnce
CHECK_DEADLOCK FALSE
