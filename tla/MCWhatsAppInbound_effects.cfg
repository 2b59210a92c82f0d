SPECIFICATION EffectsSpec
CONSTANTS
  i1 = i1
  i2 = i2
  i3 = i3
  m1 = m1
  w1 = w1
  w2 = w2
  NoRow = NoRow
  Workers = {w1, w2}
  Inboxes = {i1, i2, i3}
  MaxAttempts = 2
  MaxLeases = 2
  MaxFaults = 1
  Kind <- StatusesAndReaction
  Time <- ThreeTimes
  Messages = {m1}
  Recipients = {m1}
  About <- AllAboutOne
  Status <- FailedAndRead
  ErrorCode <- Undeliverable
  Priced = {i2}
CHECK_DEADLOCK FALSE
SYMMETRY AnyHandler
PROPERTY DowngradesAreStale
INVARIANT OneEffect
PROPERTY LossesAreStale
