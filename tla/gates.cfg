SPECIFICATION Spec
CONSTANTS
  Signals = {s1}
  Payloads <- GatePayloads
  Tag <- IdTag
  Accounts = {acc1}
  SettingsChoices <- GateSettings
  SymbolMap <- MapEurusd
  SymbolInfo <- InfoCoarse
  ContractSize = 1
  Quotes <- GateQuotes
  EquityLevels <- OneEquity
  BrokerOffset = 0
  TickLag = 0
  RECONCILIATION_LOOKBACK = 3
  Faults <- AllFaults
  SwitchMidJob = FALSE
  InitUtc = 0
  MaxUtc = 1
  MaxInterruptions = 1
  FUTURE_TOLERANCE = 1
  DayLength = 10
  LotUnits = 100
INVARIANTS
  TypeOK
  RiskBounded
  SymbolOnRecord
PROPERTIES
  LiveIsConfigured
