SPECIFICATION FairSpec
CONSTANTS
  Accounts = {a1, a2}
  mt5_login = a1
  MaxOutages = 2
INVARIANTS
  ReachableIsReached
PROPERTIES
  HealsItself
