SPECIFICATION FairSpec
CONSTANTS
  Nobody = Nobody
  Tenants = {1, 2}
  Workers = {w1, w2}
  Requesters = {w2}
  Readers = {w1}
  New = {}
  Limit = 1
  Window = 1
  Attempts = 1
  CycleLimit = 1
  MaxFaults = 1
INVARIANT LeaseExcludes
 
PROPERTY OvertakenTurnsAreFenced
PROPERTY EveryTenantAttempted
PROPERTY EveryTenantVisited
