\* One scheduler, two exchanges, two workers without an adapter for ex2, two
\* minutes of two 30 s units.
CONSTANTS
    ex1 = ex1
    ex2 = ex2
    s1 = s1
    w1 = w1
    w2 = w2
    Exchanges = {ex1, ex2}
    Adapters = {ex1}
    Listed = {ex1}
    Schedulers = {s1}
    Workers = {w1, w2}
    NoWorker = NoWorker
    NoKey = NoKey
    Minute = 2
    TaskTimeout = 1
    Grace = 1
    EnqueueTimeout = 1
    ClaimDelay = 1
    Horizon = 3
SPECIFICATION Spec
SYMMETRY Symmetry
INVARIANTS TypeOK NoOverlap CollectingIsRunning OneCollectorPerExchange StoredAtMostOnce
PROPERTIES TerminalIsFinal ImplementsBoard
