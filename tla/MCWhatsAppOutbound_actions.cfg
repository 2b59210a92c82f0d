SPECIFICATION FairSpec
CONSTANTS
  o1 = o1
  o2 = o2
  m1 = m1
  m2 = m2
  w1 = w1
  w2 = w2
  a1 = a1
  a2 = a2
  NoRow = NoRow
  Workers = {w1, w2}
  Outboxes = {o1, o2}
  Messages = {m1}
  MessageOf <- SameMessage
  Action <- SendThenReact
  WithMedia = {}
  Templates = {o1}
  Broadcasted = {}
  Scheduled = {}
  FromCrm = {}
  Retries = {}
  MaxAttempts = 2
  MaxLeases = 6
  MaxFaults = 1
CHECK_DEADLOCK FALSE
PROPERTY EveryRowSettles
