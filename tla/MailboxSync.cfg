SPECIFICATION FairSpec
CONSTANTS
  None = None
  Message = {m1}
  Folder = {f1}
  Key = {k1, k2}
  Process = {p1, p2}
  MaxFeed = 2
  MaxFaults = 1
INVARIANTS
  FactsBeforeCursor
  NothingUnaccounted
  FactsBehindProjection
  AnnouncedIsApplied
PROPERTY
  GenerationsSettle
CHECK_DEADLOCK FALSE
