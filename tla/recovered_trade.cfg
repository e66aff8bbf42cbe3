SPECIFICATION Spec
CONSTANTS
  Signals = {s1, s2}
  Payloads <- OneBuy
  Tag <- IdTag
  Accounts = {acc1}
  SettingsChoices <- OneTradeADay
  SymbolMap <- MapEurusd
  SymbolInfo <- InfoEurusd
  ContractSize = 1
  Quotes <- OneQuote
  EquityLevels <- OneEquity
  BrokerOffset = 0
  TickLag = 0
  RECONCILIATION_LOOKBACK = 3
  Faults <- NoFaults
  SwitchMidJob = FALSE
  InitUtc = 0
  MaxUtc = 0
  MaxInterruptions = 1
  FUTURE_TOLERANCE = 1
  DayLength = 10
  LotUnits = 100
INVARIANTS
  EveryTradeCounts
