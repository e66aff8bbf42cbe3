SPECIFICATION Spec
CONSTANTS
  Signals = {s1}
  Payloads <- OneBuy
  Tag <- IdTag
  Accounts = {acc1}
  SettingsChoices <- Live
  SymbolMap <- MapEurusd
  SymbolInfo <- InfoEurusd
  ContractSize = 1
  Quotes <- OneQuote
  EquityLevels <- OneEquity
  BrokerOffset = 1
  TickLag = 0
  RECONCILIATION_LOOKBACK = 2
  Faults <- NoFaults
  SwitchMidJob = FALSE
  InitUtc = 0
  MaxUtc = 0
  MaxInterruptions = 1
  FUTURE_TOLERANCE = 1
  DayLength = 2
  LotUnits = 100
PROPERTIES
  RecentDealRecovered
