\* A contract first seen two hours before its first settlement, and a driver
\* that raises the errors it is answered.
SPECIFICATION FairSpec
CONSTANTS
  Settled = {4, 5, 6, 8, 10}
  Step = 2
  Limit = 2
  PageStyle = "oldest_first"
  Errors = "raised"
  Interval = 2
  Start = 2
  Horizon = 10
INVARIANTS TypeOK BoundsMatchStored NoHole HistoryComplete
PROPERTIES ImplementsLedger EventuallyComplete
