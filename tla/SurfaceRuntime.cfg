SPECIFICATION SurfaceSpec
CONSTANTS
  s1 = s1
  h1 = h1
  h2 = h2
  c1 = c1
  c2 = c2
  Surface = {s1}
  Handle = {h1, h2}
  Invocation = {c1, c2}
  MaxInstances = 2
  MaxGenerations = 3
INVARIANTS
  ServedByCurrent
PROPERTY
  WaitsEnd
CHECK_DEADLOCK FALSE
