SPECIFICATION FairSpec
CONSTANTS
  Processes = {p1, p2}
  Signals = {s1, s2, s3}
  Nobody = Nobody
  MaxStarts = 4
\* When every signal is settled and no start is left, nothing happens any more.
CHECK_DEADLOCK FALSE
INVARIANTS
  SentOnce
PROPERTIES
  ClaimsAreAtomic
  QueueIsDrained
