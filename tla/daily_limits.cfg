SPECIFICATION Spec
CONSTANTS
  Signals = {s1, s2}
  Payloads <- OneBuy
  Tag <- IdTag
  Accounts = {acc1, acc2}
  SettingsChoices <- TightSettings
  SymbolMap <- MapEurusd
  SymbolInfo <- InfoEurusd
  ContractSize = 1
  Quotes <- OneQuote
  EquityLevels <- TwoEquities
  BrokerOffset = 0
  TickLag = 1
  RECONCILIATION_LOOKBACK = 1
  Faults <- RestingOrders
  SwitchMidJob = FALSE
  InitUtc = 0
  MaxUtc = 1
  MaxInterruptions = 1
  FUTURE_TOLERANCE = 1
  DayLength = 1
  LotUnits = 100
SYMMETRY Symmetry
INVARIANTS
  PositionLimit
  TradeLimit
  UncountedByInterruption
  LossGuard
  RoutedOrders
PROPERTIES
  BaselineFrozen
  RecentDealRecovered
