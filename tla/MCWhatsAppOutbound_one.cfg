SPECIFICATION Spec
CONSTANTS
  o1 = o1
  o2 = o2
  m1 = m1
  m2 = m2
  w1 = w1
  w2 = w2
  a1 = a1
  a2 = a2
  NoRow = NoRow
  Workers = {w1, w2}
  Outboxes = {o1, o2}
  Messages = {m1}
  MessageOf <- SameMessage
  Action <- SendThenReact
  WithMedia = {o1}
  Templates = {}
  Broadcasted = {}
  Scheduled = {m1}
  FromCrm = {m1}
  Retries = {}
  MaxAttempts = 2
  MaxLeases = 5
  MaxFaults = 2
CHECK_DEADLOCK FALSE
INVARIANT ProjectionAgrees
INVARIANT CrmLearnsOutcome
INVARIANT DuplicatesAreExcused
PROPERTY LeaseSpec
SYMMETRY AnyHandler
