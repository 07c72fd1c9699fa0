SPECIFICATION MCSpec
CONSTANTS
  Waiters = {1, 2, 3, 4}
  None = None
  InitialRegions = 3
  RegionWidth = 4
  HotRegion = 2
  MaxRegions = 6
  MaxNesting = 1
  MaxEdits = 2
  Values = {0, 1, 2, 3}
  Names <- MCNames
  Quoted <- MCQuoted
  Seeds <- MCSeeds
  Phrases <- MCPhrases
CHECK_DEADLOCK FALSE
INVARIANTS
  DetectorIsExact
  LookupIsExact
  ClassifierIsExact
