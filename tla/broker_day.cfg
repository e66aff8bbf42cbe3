SPECIFICATION Spec
CONSTANTS
  Signals = {s1, s2}
  Payloads <- BuyAtTen
  Tag <- IdTag
  Accounts = {acc1}
  SettingsChoices <- OneTradeADay
  SymbolMap <- MapEurusd
  SymbolInfo <- InfoEurusd
  ContractSize = 1
  Quotes <- OneQuote
  EquityLevels <- OneEquity
  BrokerOffset = 2
  TickLag = 0
  RECONCILIATION_LOOKBACK = 3
  Faults <- NoFaults
  SwitchMidJob = FALSE
  InitUtc = 10
  MaxUtc = 10
  MaxInterruptions = 0
  FUTURE_TOLERANCE = 1
  DayLength = 6
  LotUnits = 100
INVARIANTS
  EveryTradeCounts
