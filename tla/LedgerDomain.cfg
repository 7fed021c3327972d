SPECIFICATION LedgerSpec
CONSTANTS
  p1 = p1
  p2 = p2
  n1 = n1
  k1 = k1
  None = None
  Proc = {p1, p2}
  Name = {n1}
  Key = {k1}
  MaxProposals = 2
SYMMETRY Symmetry
INVARIANTS
  LedgerVerifies
  
  PageCoherent
  NoGridlock

  
