SPECIFICATION Spec
CONSTANTS
  Workers = {w1, w2}
  Messages = {m1}
  Activations = {a1, a2, a3}
  Addresses = {r1}
  Bodies = {b1, b2}
  None = None
  Budget = 2
  OpenBudget = 1
  SendBudget = 1
  Timeout = 1
  Lease = 3
  OpenMargin = 1
  SendMargin = 1
  ExpirySlack = 1
  Hour = 5
  DeferDelay = 1
  BackoffBase = 1
  BackoffCap = 1
  RetryDelays = {0}
  MaxAttempts = 2
  NewLimit = 2
  AttemptLimit = 9
  MaxTime = 6
  MaxChanges = 1
  Kinds = {"preferences", "incident", "stop", "owner"}
  MaxBounces = 1
  LastEnqueue = 1
  a1 = a1
  a2 = a2
  a3 = a3
  r1 = r1
  Configs <- OneEpoch
SYMMETRY Symmetric
INVARIANT TypeOK
INVARIANT HandoffHeld
INVARIANT ReservedFirst
INVARIANT FrozenMail
INVARIANT UnsentTruthful
INVARIANT OutcomesAgree
PROPERTY NoSecondHandoff
PROPERTY TerminalFinal
PROPERTY ConsentUnbroken
PROPERTY KeepsLedger
