SPECIFICATION FairSpec
CONSTANTS
  MaxAgentIterations = 2
  MaxToolCalls = 2
  MaxWebsiteAttempts = 2
  MaxWebsiteRepairAttempts = 2
\* A turn ends.
CHECK_DEADLOCK FALSE
INVARIANTS
  TypeOK
  NoHoles
  ArtifactShownIsWhole
  StreamTellsItsEnd
PROPERTIES
  TheEndComesLast
  TurnFollowsProtocol
  TurnEnds
