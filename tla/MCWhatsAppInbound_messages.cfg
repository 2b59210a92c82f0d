SPECIFICATION FairSpec
CONSTANTS
  i1 = i1
  i2 = i2
  i3 = i3
  m1 = m1
  w1 = w1
  w2 = w2
  NoRow = NoRow
  Workers = {w1, w2}
  Inboxes = {i1, i2}
  MaxAttempts = 2
  MaxLeases = 9
  MaxFaults = 1
  Kind <- TwoMessages
  Time <- MessageTimes
  Messages = {}
  Recipients = {}
  About <- Nothing
  Status <- Nothing
  ErrorCode <- Nothing
  Priced = {}
CHECK_DEADLOCK FALSE
INVARIANT MissedIsOvertaken
PROPERTY InboxLeaseSpec
PROPERTY EveryInboxSettles
