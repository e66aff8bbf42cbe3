SPECIFICATION Spec
CONSTANTS
  MaxIdLength = 2
  LotUnits = 10
  MaxEquity = 30
  MaxRisk = 3
  MaxLoss = 3
  MaxSteps = 6
INVARIANTS
  TradedAsWritten
  FillingIsSupported
  LargestUpToRounding
