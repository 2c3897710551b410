SPECIFICATION Spec
CONSTANTS
  Workers = {w1, w2}
  Findings = {1, 2}
  Native = {}
  Incidents = {i1}
  IncidentOf <- Shared
  Chunk = 1
  Cap = 2
  Window = 1
  Watermark = 1
  MaxTime = 1
  MaxObserved = 2
  MaxSettings = 1
  MaxFaults = 0
  i1 = i1
  i2 = i2
SYMMETRY Symmetric
INVARIANT TypeOK
INVARIANT Together
INVARIANT JobsExplained
INVARIANT BothOnlyJoining
PROPERTY DecisionsDurable
CHECK_DEADLOCK FALSE
