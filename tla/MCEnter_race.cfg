CONSTANTS
  Attrs = {email, card, phone}
  Identifying = {email, card}
  Bannable = {phone}
  Users = {u1, u2, u3}
  Workers = {w1, w2}
  None = None
  MaxRequests = 3
  MaxFaults = 1
SPECIFICATION Spec
SYMMETRY Symmetry
INVARIANTS TypeOK RecordsAgree EnteredByOwner ReportedIsStored
PROPERTY ImplementsRegistry
CHECK_DEADLOCK FALSE
