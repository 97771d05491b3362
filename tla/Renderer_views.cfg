\* A window minimised between two of its messages, and shown again at its old size.
CONSTANTS
  Frames = 3
  Area = {1, 2}
  AnyArea = AnyArea
  None = None
  Captures = 1
SPECIFICATION Spec
INVARIANTS DrawnOnLiveViews
CHECK_DEADLOCK FALSE
