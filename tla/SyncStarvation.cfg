SPECIFICATION FairSpec
CONSTANTS
  Nobody = Nobody
  Tenants = {1, 2}
  Workers = {w1}
  Requesters = {}
  Readers = {}
  New = {1, 2}
  Limit = 1
  Window = 2
  Attempts = 1
  CycleLimit = 1
  MaxFaults = 0
PROPERTY AttemptedTenantsYield
