SPECIFICATION FairSpec
CONSTANTS
  o1 = o1
  o2 = o2
  m1 = m1
  m2 = m2
  w1 = w1
  w2 = w2
  a1 = a1
  a2 = a2
  NoRow = NoRow
  Workers = {w1}
  Outboxes = {o1}
  Messages = {m1}
  MessageOf <- OneMessage
  Action <- OneSend
  WithMedia = {}
  Templates = {o1}
  Broadcasted = {o1}
  Scheduled = {}
  FromCrm = {}
  Retries = {a1, a2}
  MaxAttempts = 2
  MaxLeases = 3
  MaxFaults = 1
CHECK_DEADLOCK FALSE
INVARIANT ProjectionAgrees
PROPERTY CancelDrains
