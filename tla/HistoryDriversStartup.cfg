\* The tracker starts in the first second of an hour.
SPECIFICATION Spec
CONSTANTS
  Drivers = {"backpack"}
  Hour = 4
  Slow = 2
  Limit = 4
  CursorPage = 2
  First = 2
  Start = 17
  Horizon = 40
  UpdateSeconds = {0}
INVARIANT NoFundingSkipped
CHECK_DEADLOCK FALSE
