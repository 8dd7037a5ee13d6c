\* A driver that reads an error inside an answer as an empty page.
SPECIFICATION Spec
CONSTANTS
  Settled = {1, 2, 3, 4, 5, 6}
  Step = 2
  Limit = 2
  PageStyle = "oldest_first"
  Errors = "empty"
  Interval = 1
  Start = 5
  Horizon = 6
INVARIANT HistoryComplete
