SPECIFICATION DraftSpec
CONSTANTS
  s1 = s1
  s2 = s2
  k1 = k1
  k2 = k2
  None = None
  Source = {s1}
  Key = {k1, k2}
  Correlation <- MCCorrelation
  Proposal = {p1}
  MaxMessages = 1
  MaxFaults = 1
  Page = 2
INVARIANT
  IntentSurvives
CHECK_DEADLOCK FALSE
