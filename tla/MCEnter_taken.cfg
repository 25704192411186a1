CONSTANTS
  Attrs = {email, card, phone}
  Identifying = {email, card}
  Bannable = {phone}
  Users = {u1, u2, u3}
  Workers = {w1}
  None = None
  MaxRequests = 3
  MaxFaults = 0
SPECIFICATION Spec
SYMMETRY Symmetry
INVARIANTS IdentifiesNobodyElse
CHECK_DEADLOCK FALSE
