SPECIFICATION PlaybackSpec
CONSTANTS
  Receipts <- SteppedReceipts
  Handled <- SteppedReceipts
  PoolSize = 6
  FrameMs = {50}
  Rates = {1, 4}
  MaxDockInputs = 3
  MaxIterations = 2
PROPERTY StepMovesByGroup
