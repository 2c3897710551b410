SPECIFICATION FairSpec
CONSTANTS
  Workers = {w1}
  Messages = {m1, m2}
  Activations = {a1, a2, a3}
  Addresses = {r1}
  Bodies = {b1}
  None = None
  Budget = 2
  OpenBudget = 1
  SendBudget = 1
  Timeout = 1
  Lease = 3
  OpenMargin = 1
  SendMargin = 1
  ExpirySlack = 1
  Hour = 3
  DeferDelay = 1
  BackoffBase = 1
  BackoffCap = 1
  RetryDelays = {0}
  MaxAttempts = 2
  NewLimit = 1
  AttemptLimit = 1
  MaxTime = 8
  MaxChanges = 0
  Kinds = {}
  MaxBounces = 0
  LastEnqueue = 1
  a1 = a1
  a2 = a2
  a3 = a3
  r1 = r1
  Configs <- OneEpoch
INVARIANT RegularLimits
PROPERTY Drains
