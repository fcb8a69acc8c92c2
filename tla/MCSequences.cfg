SPECIFICATION FairSpec
CONSTANTS
  MaxContexts = 2
  Owners <- MCOwners
  Files <- MCFiles
  RequestIds = {1}
  MaxContextId = 2
  Overlap = FALSE
INVARIANTS AdmittedIsAuthorised ManualModeIsOwned
 
CHECK_DEADLOCK FALSE
