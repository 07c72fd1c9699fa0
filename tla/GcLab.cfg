SPECIFICATION Spec
CONSTANTS
  s1 = s1
  s2 = s2
  s3 = s3
  Fixtures <- MCFixtures
  Keys = {"a", "b"}
  Locks = {"l1", "l2"}
  Ranges = {"r1"}
  Stores = {s1, s2, s3}
  MaxTs = 6
  None = None
SYMMETRY Interchangeable
CHECK_DEADLOCK FALSE
INVARIANTS
  LabValid
  ReadsPreserved
  NothingNeededIsLost
PROPERTIES
  RemovalIsFinal
