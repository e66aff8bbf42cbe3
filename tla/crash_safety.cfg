SPECIFICATION Spec
CONSTANTS
  Signals = {s1, s2}
  Payloads <- BuyOrUnmapped
  Tag <- IdTag
  Accounts = {acc1}
  SettingsChoices <- LiveOrDry
  SymbolMap <- MapEurusd
  SymbolInfo <- InfoEurusd
  ContractSize = 1
  Quotes <- OneQuote
  EquityLevels <- OneEquity
  BrokerOffset = 0
  TickLag = 0
  RECONCILIATION_LOOKBACK = 3
  Faults <- AllFaults
  SwitchMidJob = FALSE
  InitUtc = 0
  MaxUtc = 0
  MaxInterruptions = 2
  FUTURE_TOLERANCE = 1
  DayLength = 10
  LotUnits = 100
SYMMETRY Symmetry
INVARIANTS
  SafetyInv
  AtMostOneOrder
  NoSilentExposure
  ExecutedMeansFilled
  AuditAgrees
  QueueOrder
PROPERTIES
  SettledForever
  DryRunNeverSends
  KeepsPromise
