SPECIFICATION Spec
CONSTANTS
  Comparisons = {{"one_pc"}, {"async_commit"}, {"two_pc"}}
  Voters = {v1, v2, v3}
  MaxTs = 5
  None = None
SYMMETRY Interchangeable
CHECK_DEADLOCK FALSE
INVARIANTS
  LabValid
  CommitTsCoversPrewrites
  ResponseIsDurable
PROPERTIES
  ImplementsCommitment
