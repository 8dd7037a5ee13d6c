\* One contract per exchange, listed, delisted, listed again or with another interval.
SPECIFICATION FairSpec
CONSTANTS
  Exchanges = {e1, e2}
  e1 = e1
  e2 = e2
  Assets = {a1}
  a1 = a1
  Quotes = {q1}
  q1 = q1
  Intervals = {1, 8}
  MaxChanges = 2
  MaxFailures = 1
  Debounce = 1
INVARIANTS ViewTypeOK StaleViewIsRemembered
PROPERTY ViewFollowsSignals
CHECK_DEADLOCK FALSE
