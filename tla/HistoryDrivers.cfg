\* Every driver; Backpack's update at any second of the hour but the first.
SPECIFICATION Spec
CONSTANTS
  Drivers = {"aster", "backpack", "binance_coin-m", "binance_usd-m", "bybit", "derive", "dydx",
             "extended", "hyperliquid", "kucoin", "lighter", "okx", "pacifica", "paradex"}
  Hour = 4
  Slow = 2
  Limit = 4
  CursorPage = 2
  First = 2
  Start = 17
  Horizon = 40
  UpdateSeconds = {1, 2, 3}
INVARIANTS TypeOK NoFundingSkipped SyncedFromTheFirst
PROPERTIES ImplementsLedger
CHECK_DEADLOCK FALSE
