SPECIFICATION FairSpec
CONSTANTS
  Clients = {c1, c2}
  Signals = {s1}
  Contents = {first, later, large}
  TooLarge = {large}
  MaxFailures = 1
\* When every verdict is known, nothing happens any more.
CHECK_DEADLOCK FALSE
INVARIANTS
  CreatedOnce
PROPERTIES
  StatusNeverGoesBack
  VerdictReachesSource
