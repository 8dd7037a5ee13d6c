SPECIFICATION Spec
CONSTANTS
  ExchangeIds <- MCExchangeIds
  Settings <- MCSettings
  Instances <- MCInstances
  Minute = 4
  Venues <- MCVenues
  MarketTable <- MCMarkets
  PageSize = 2
  FreshIds = TRUE
  MaxSkipped = 1
  MaxMarketSteps = 2
  Width <- MCWidth
  Oldest <- MCOldest
  StartOffset <- MCStartOffset
  EndOffset <- MCEndOffset
  Schedule <- MCSchedule
  RawAge = 6
  RawRetention = 12
  Chunk = 48
  TierHorizon = 120
  Ids <- MCIds
  Asset <- MCAsset
  Section <- MCSection
  Quote <- MCQuote
  Every <- MCEvery
  Listed <- MCListed
  Rates <- MCRates
  LiveRates <- MCLiveRates
  Recorded <- MCRecorded
  Requests <- MCRequests
  Limit = 3
  Hour = 2
  Buffer = 1
  Precision = 8
  Days <- MCDays
  Spans <- MCSpans
  MaxDelisted = 1
  Base = 192
  LastTick = 208
  LastMinute = 2
INVARIANT CumulativeCountsOnce
CHECK_DEADLOCK FALSE
