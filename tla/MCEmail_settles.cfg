SPECIFICATION FairSpec
CONSTANTS
  w1 = w1
  w2 = w2
  a = a
  m = m
  one = one
  two = two
  Workers = {w1}
  Nobody = Nobody
  Letters = {a, m}
  Source <- Sources
  Address <- Addressed
  Events = {}
  MaxAttempts = 2
  MaxRequests = 2
  MaxFaults = 1
CHECK_DEADLOCK FALSE
PROPERTIES
  LettersSettle
  SnapshotTaken
