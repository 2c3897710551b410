SPECIFICATION Spec
CONSTANTS
  None = None
  People = {Ann, Bob, Cid}
  Founder = Ann
  Roles = {"MSP_OWNER", "MSP_VIEWER"}
  Requests = {r1, r2}
SYMMETRY Symmetric
INVARIANT TypeOK
INVARIANT FounderStays
INVARIANT InvitesOnlyAdd
PROPERTY LastOwnerOnlyByRace
PROPERTY NoSelfRemoval
\* An organisation without an active owner accepts no request any more.
CHECK_DEADLOCK FALSE
