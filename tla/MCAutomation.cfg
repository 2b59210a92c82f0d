SPECIFICATION MCSpec
CONSTANTS
  a = a
  b = b
  c = c
  z = z
  Nobody = Nobody
  Nodes <- MCNodes
  Graphs <- MCGraphs
  Events = {e1, e2}
  Workers = {w1, w2}
  MaxAttempts = 2
  MaxDepth = 2
  MaxFaults = 2
SYMMETRY Same
INVARIANTS WaitingIsAwaited ParentWaits FinalStays MutationNotRepeated
CHECK_DEADLOCK FALSE
