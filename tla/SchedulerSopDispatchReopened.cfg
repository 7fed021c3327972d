SPECIFICATION DispatchSpec
CONSTANTS
  b1 = b1
  b2 = b2
  e1 = e1
  c1 = c1
  p1 = p1
  p2 = p2
  sync = sync
  report = report
  seeds = seeds
  terminal = terminal
  AnySop = AnySop
  None = None
  BindingId = {b1}
  EventId = {e1, 1, 2}
  RunId = {1, 2}
  Partition = {sync}
  Outcome <- MCOutcome
  Topic = {seeds, terminal}
  SopId = {sync}
  Version = {1}
  Timing = {"any"}
  Data = {1, 2}
  Consumer = {c1}
  ReceiptId <- MCReceiptId
  BindingSpec <- MCBindingSpec
  Content <- MCContent
  Pass = {p1}
  ConsumerOf <- SameConsumer
  TerminalTopic = terminal
  Procedure = {}
  Installed <- MCInstalled
  Seed <- MCSeed
  MaxRevision = 1
  MaxLeases = 2
  MaxVersion = 1
  MaxRetries = 1
  MaxFaults = 1
INVARIANTS
  AckedAsListed
CHECK_DEADLOCK FALSE
