CONSTANTS
  Handles = {h1, h2, h3}
  large = large
  Payloads = {small, medium, large}
  QuotaCount = 2
  QuotaBytes = 3
  Workers = {w1}
  None = None
  MaxRequests = 4
  MaxFaults = 0
  Size <- MCSize
SPECIFICATION Spec
SYMMETRY Symmetry
INVARIANT ListedExist
CHECK_DEADLOCK FALSE
