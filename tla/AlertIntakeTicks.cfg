SPECIFICATION FairSpec
CONSTANTS
  Workers = {w1}
  Findings = {1, 2}
  Native = {1}
  Incidents = {i1}
  IncidentOf <- Shared
  Chunk = 1
  Cap = 2
  Window = 1
  Watermark = 1
  MaxTime = 2
  MaxObserved = 3
  MaxSettings = 0
  MaxFaults = 1
  i1 = i1
  i2 = i2
PROPERTY OpenDecided
CHECK_DEADLOCK FALSE
