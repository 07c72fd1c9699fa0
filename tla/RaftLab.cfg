SPECIFICATION Spec
CONSTANTS
  Stores <- MCStores
  Definitions <- MCDefinitions
  MaxTerm = 4
  None = None
CHECK_DEADLOCK FALSE
INVARIANTS
  LabValid
  LeaderIsComplete
  ServedByConfirmedLeader
PROPERTIES
  PeersKeepTheirWord
