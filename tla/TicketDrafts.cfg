SPECIFICATION DraftSpec
CONSTANTS
  s1 = s1
  s2 = s2
  k1 = k1
  k2 = k2
  None = None
  Source = {s1, s2}
  Key = {k1, k2}
  Correlation <- MCCorrelation
  Proposal = {p1, p2}
  MaxMessages = 3
  MaxFaults = 1
  Page = 1
SYMMETRY Symmetry
INVARIANTS
  TicketsBacked
  OneConversation
  ReceiptsAreEvidence
  AckedIsReconciled
CHECK_DEADLOCK FALSE
