SPECIFICATION Spec
CONSTANTS
  None = None
  Latencies = {0, 12, 500}
  Hops <- MCHops
  Readings <- MCReadings
CHECK_DEADLOCK FALSE
INVARIANTS
  ReadingsAreHistories
  ViewsAgree
PROPERTIES
  ScenarioCompletes
