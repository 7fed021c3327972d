SPECIFICATION EngineSpec
CONSTANTS
  o1 = o1
  o2 = o2
  c1 = c1
  c2 = c2
  r1 = r1
  r1c = r1c
  r2 = r2
  r2c = r2c
  r2again = r2again
  None = None
  Occurrence = {o1, o2}
  Template <- MCTemplate
  Verdict <- MCVerdict
  OutputFails = {}
  Key = {r1, r1c, r2, r2c, r2again}
  Place <- MCPlace
  Consumer = {c1, c2}
  MaxRoots = 1
  MaxClaims = 3
  MaxRegistered = 1
SYMMETRY Symmetry
INVARIANTS
  EngineTypeOK
  WaitsForSomething
  DependencyOrder
  OpenWorkIsWanted
  CompletedIsBacked
  CompactedWasRead
PROPERTY
  ImplementsRunLife
