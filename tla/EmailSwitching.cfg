SPECIFICATION Spec
CONSTANTS
  Workers = {w1, w2}
  Messages = {m1, m2}
  Activations = {a1, a2, a3}
  Addresses = {r1}
  Bodies = {b1}
  None = None
  Budget = 2
  OpenBudget = 1
  SendBudget = 1
  Timeout = 1
  Lease = 3
  OpenMargin = 1
  SendMargin = 1
  ExpirySlack = 1
  Hour = 2
  DeferDelay = 1
  BackoffBase = 1
  BackoffCap = 1
  RetryDelays = {0}
  MaxAttempts = 1
  NewLimit = 2
  AttemptLimit = 9
  MaxTime = 4
  MaxChanges = 1
  Kinds = {"settings"}
  MaxBounces = 0
  LastEnqueue = 3
  a1 = a1
  a2 = a2
  a3 = a3
  r1 = r1
  Configs <- Switching
SYMMETRY Symmetric
INVARIANT OneHandoff
INVARIANT ClosedEpochSilent
INVARIANT SettingsApart
PROPERTY ClaimFence
CHECK_DEADLOCK FALSE
