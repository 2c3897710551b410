SPECIFICATION Spec
CONSTANTS
  None = None
  People = {Ann, Bob}
  Founder = Ann
  Roles = {"MSP_OWNER", "MSP_VIEWER"}
  Requests = {r1, r2}
INVARIANT OwnerRemains
CHECK_DEADLOCK FALSE
