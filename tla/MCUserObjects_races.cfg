CONSTANTS
  Handles = {h1, h2, h3}
  large = large
  Payloads = {small, medium, large}
  QuotaCount = 2
  QuotaBytes = 3
  Workers = {w1, w2}
  None = None
  MaxRequests = 4
  MaxFaults = 1
  Size <- MCSize
SPECIFICATION Spec
SYMMETRY Symmetry
INVARIANTS TypeOK QuotaRespected KeptUnlessReplaced
PROPERTY OverwritesNamed
CHECK_DEADLOCK FALSE
