SPECIFICATION Spec
CONSTANTS
  Stores = {"tiflash-1", "tiflash-2"}
  RegionsOf <- MCRegionsOf
  Leaders <- MCLeaders
  Snapshots = {2, 4}
  Commits <- MCCommits
  MaxChunks = 2
  None = None
CHECK_DEADLOCK FALSE
INVARIANTS
  LabValid
  NeverStale
  AnswerIsComplete
