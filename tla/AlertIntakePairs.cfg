SPECIFICATION Spec
CONSTANTS
  Workers = {w1, w2}
  Findings = {1, 2}
  Native = {1}
  Incidents = {i1, i2}
  IncidentOf <- Separate
  Chunk = 2
  Cap = 2
  Window = 1
  Watermark = 1
  MaxTime = 1
  MaxObserved = 3
  MaxSettings = 0
  MaxFaults = 0
  i1 = i1
  i2 = i2
SYMMETRY Symmetric
INVARIANT Together
CHECK_DEADLOCK FALSE
