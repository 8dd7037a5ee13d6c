SPECIFICATION FairSpec
CONSTANTS
  Exchanges = {e1, e2}
  e1 = e1
  e2 = e2
  Assets = {a1}
  a1 = a1
  Quotes = {q1}
  q1 = q1
  Intervals = {1}
  MaxChanges = 1
  MaxFailures = 0
  Debounce = 1
PROPERTY ViewFollowsContracts
CHECK_DEADLOCK FALSE
