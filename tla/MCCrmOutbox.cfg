SPECIFICATION MCSpec
CONSTANTS
  ca = ca
  cb = cb
  cc = cc
  cn = cn
  m1 = m1
  l1 = l1
  l2 = l2
  w1 = w1
  w2 = w2
  q1 = q1
  q2 = q2
  Nobody = Nobody
  Contacts = {ca, cb, cc, cn}
  Known = {ca, cb, cc}
  Messages = {m1}
  Sender <- FromWhom
  Leads = {l1, l2}
  Workers = {w1, w2}
  Requests = {q1, q2}
  MaxRequests = 2
  MaxFaults = 1
SYMMETRY Same
CHECK_DEADLOCK FALSE
INVARIANTS
  HistoryIsQueued
  DeadLeadIsMended
  OneContactPerLead
  NothingLeftBehind
