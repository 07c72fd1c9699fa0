SPECIFICATION Spec
CONSTANTS
  InitialRegions = 2
  RegionWidth = 3
  HotRegion = 1
  Baseline = 1
  MaxIndex = 4
  MaxRegions = 3
  NoRead = NoRead
INVARIANTS
  CommittedOnQuorum
  LeadersAreFit
  RegionsValid
PROPERTIES
  TermFencesLeader
  ImplementsRegionLog
