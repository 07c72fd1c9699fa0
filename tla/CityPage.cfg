SPECIFICATION Spec
CONSTANTS
  FixedStep = 88
  StepsPerSecond = 2
  Epsilon = 3
  Rounding = 1
  Durations = {8}
  Speeds = {0}
  Loads = {0, 3}
  DefaultLoad = 3
  WindowSeconds = 1
  HistorySeconds = 2
  MaxTicks = 6
  MaxFrames = 5
  MaxInputs = 3
  None = None
CHECK_DEADLOCK FALSE
INVARIANTS
  ClockKeepsTime
  DashboardIsHonest
