SPECIFICATION Spec
CONSTANTS
  e1 = e1
  e2 = e2
  p1 = p1
  p2 = p2
  topic = topic
  sop = sop
  version = version
  timing = timing
  data = data
  AnySop = AnySop
  None = None
  BindingId = {b1}
  EventId = {e1, e2}
  Partition = {p1, p2}
  Outcome = {"completed", "failed"}
  Topic = {topic}
  SopId = {sop}
  Version = {version}
  Timing = {timing}
  Data = {data}
  Consumer = {c1, c2}
  RunId = {r1, r2}
  ReceiptId = {q1, q2, q3, q4}
  BindingSpec <- MCBindingSpec
  Content <- MCContent
  MaxRevision = 4
  MaxLeases = 3
SYMMETRY Symmetry
INVARIANTS
  LaneExclusive
  LeaseRecord
  AuditTrail
  Provenance
PROPERTIES
  FencedTokens
  PauseGoverns
  ImplementsLanes
CHECK_DEADLOCK FALSE
