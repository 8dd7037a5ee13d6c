\* Two quotes that two jobs may insert in opposite orders, and wait for each other.
SPECIFICATION FairRegistrySpec
CONSTANTS
  e1 = e1
  e2 = e2
  a1 = a1
  q1 = q1
  q2 = q2
  Exchanges = {e1, e2}
  Assets = {a1}
  Quotes = {q1, q2}
  Intervals = {1}
  MaxChanges = 2
  MaxFailures = 1
INVARIANTS TypeOK ContractsAreComplete
PROPERTY RegistryConverges
CHECK_DEADLOCK FALSE
