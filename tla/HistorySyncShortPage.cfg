SPECIFICATION Spec
CONSTANTS
  Settled = {1, 2, 3, 4, 5, 6}
  Step = 4
  Limit = 2
  PageStyle = "oldest_first"
  Errors = "raised"
  Interval = 1
  Start = 5
  Horizon = 6
INVARIANT NoHole
