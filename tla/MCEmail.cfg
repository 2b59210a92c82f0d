SPECIFICATION Spec
CONSTANTS
  w1 = w1
  w2 = w2
  a = a
  m = m
  one = one
  two = two
  Workers = {w1, w2}
  Nobody = Nobody
  Letters = {a}
  Source <- Sources
  Address <- Addressed
  Events = {"SENT", "BOUNCED"}
  MaxAttempts = 2
  MaxRequests = 2
  MaxFaults = 1
SYMMETRY Same
CHECK_DEADLOCK FALSE
INVARIANTS
  MailedOnce
  SentToldOnce
PROPERTIES
  SuppressionWins
  CancelStops
  EvidenceStays
  CompletedIsFinished
