SPECIFICATION MCSpec
CONSTANTS
  Recipients = {r1, r2}
  Preparers = {p1, p2}
  Workers = {w1, w2}
  Requests = {a1, a2}
  Nobody = Nobody
  MaxRequests = 2
  MaxFaults = 1
CHECK_DEADLOCK FALSE
SYMMETRY Same
INVARIANT OneDelivery
INVARIANT OrphansWereRefused
INVARIANT PendingHasPreparer
PROPERTY FinalStays
