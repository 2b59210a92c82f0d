SPECIFICATION MCSpec
CONSTANTS
  w1 = w1
  w2 = w2
  a1 = a1
  a2 = a2
  Workers = {w1, w2}
  Actions = {a1, a2}
  Nobody = Nobody
  Last = 2
  Menus = 2
  MaxAttempts = 2
  MaxRequests = 3
  MaxFaults = 1
SYMMETRY Same
CHECK_DEADLOCK FALSE
INVARIANTS
  EarlyRequestsHonoured
  SeriesFollowsRule
  DeliveredIsShown
  OneMessage
  ActionsKept
  NewestMenuShown
