SPECIFICATION BroadcastSpec
CONSTANTS
  o1 = o1
  o2 = o2
  m1 = m1
  m2 = m2
  w1 = w1
  w2 = w2
  a1 = a1
  a2 = a2
  NoRow = NoRow
  Workers = {w1, w2}
  Outboxes = {o1, o2}
  Messages = {m1, m2}
  MessageOf <- TwoMessages
  Action <- TwoSends
  WithMedia = {}
  Templates = {o1, o2}
  Broadcasted = {o1, o2}
  Scheduled = {}
  FromCrm = {}
  Retries = {a1}
  MaxAttempts = 2
  MaxLeases = 2
  MaxFaults = 0
CHECK_DEADLOCK FALSE
INVARIANT CompletedMeansFinished
SYMMETRY AnyHandler
