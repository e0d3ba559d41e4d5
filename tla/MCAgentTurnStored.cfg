SPECIFICATION Spec
CONSTANTS
  MaxAgentIterations = 2
  MaxToolCalls = 2
  MaxWebsiteAttempts = 2
  MaxWebsiteRepairAttempts = 2
\* A turn ends.
CHECK_DEADLOCK FALSE
INVARIANTS
  EverythingIsStored
