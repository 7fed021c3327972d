SPECIFICATION TimedSpec
CONSTANTS
  e1 = e1
  e2 = e2
  p1 = p1
  topic = topic
  sop = sop
  version = version
  AnySop = AnySop
  None = None
  BindingId = {b1}
  EventId = {e1, e2}
  Partition = {p1}
  Outcome = {"completed"}
  Topic = {topic}
  SopId = {sop}
  Version = {version}
  Timing <- MCTiming
  Data <- MCData
  Consumer = {c1}
  RunId = {r1, r2}
  ReceiptId = {q1, q2, q3, q4}
  BindingSpec <- MCBindingSpec
  Content <- MCContent
  LeaseLength = {2}
  MaxRevision = 3
  MaxLeases = 3
  MaxWait = 1
  MaxClock = 3
SYMMETRY Symmetry
INVARIANTS
  NotEarly
PROPERTIES
  LiveLeaseKept
  LeaseUsable
CHECK_DEADLOCK FALSE
