SPECIFICATION Spec
CONSTANTS
  None = None
  Publishers = {p1, p2}
  Consents = {o1, o2}
  Browsers = {b1, b2}
  Checks = {v1, v2}
  Collectors = {k1, k2}
  Controls = {d1, d2}
  PimRuns = {q1, q2}
  Readers = {r1}
  MaxLegacy = 1
  MaxRequests = 3
  p1 = p1
  p2 = p2
  o1 = o1
  o2 = o2
  b1 = b1
  b2 = b2
  v1 = v1
  v2 = v2
  k1 = k1
  k2 = k2
  d1 = d1
  d2 = d2
  q1 = q1
  q2 = q2
  r1 = r1
CONSTRAINT InTurn
CONSTRAINT FewRequests
INVARIANT TypeOK
INVARIANT OneConsentOpen
INVARIANT EffectsOnce
INVARIANT AnswersTruthful
INVARIANT ReaderTruthful
PROPERTY Fenced
PROPERTY EvidenceNotRevived
CHECK_DEADLOCK FALSE
