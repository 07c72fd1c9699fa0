SPECIFICATION Spec
CONSTANTS
  Transactions = {t1, t2, t3}
  Resources = {a, b}
  Clients = {c}
  MaxTs = 3
  None = None
SYMMETRY Interchangeable
CHECK_DEADLOCK FALSE
INVARIANTS
  LabValid
  NothingLeftBehind
PROPERTIES
  HandOffIsFinal
