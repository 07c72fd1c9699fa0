SPECIFICATION PlaybackSpec
CONSTANTS
  Receipts <- All
  Handled <- Shapes
  PoolSize = 3
  FrameMs = {50}
  Rates = {1, 4}
  MaxDockInputs = 5
  MaxIterations = 2
INVARIANTS
  PlaybackValid
  ScheduleIsFaithful
PROPERTY LeftAloneItPlaysOn
