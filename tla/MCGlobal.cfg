SPECIFICATION Spec
CONSTANTS
  Devices = {d1, d2}
  Flows = {f1, f2}
  Nobody = Nobody
  MaxLogins = 2
  MaxFailures = 1
  Hubs = {h1, h2}
  NoHub = NoHub
  MaxVisits = 3
  MaxMail = 1
  MaxToggles = 1
  Fields = {"theme", "language"}
  Language = "language"
  Values = {1, 2}
  MaxSessions = 3
  MaxDeeds = 3
  Desks = {x1, x2}
  Admins = {x1}
  Rules = {w1}
  MaxEdits = 2
  MaxSaves = 1
  HouserulesMaxVisits = 3
  MaxSubmits = 2
  MaxMisses = 1
  Callers = {x1, x2}
  CallRooms = {h1, h2}
  NoRoom = NoRoom
  MaxActs = 2
  MaxFails = 1
  Targets = {h1, h2}
  MaxOpens = 3
  MaxResizes = 1
  Files = {f1, f2}
  ShelfMaxOpens = 1
  MaxFaults = 1
  MaxSeals = 1
  MaxDeletes = 1
  Disclosures = {d1, d2}
  NoDisclosure = NoDisclosure
  Capacity = 1
  Validity = 1
  Window = 1
  Patience = 0
  Slots = 1
  Starts = {"drip"}
  Releases = {"unless stale"}
  MaxRequests = 4
  MaxTime = 2
INVARIANTS TypeOK  StoreOfHub LetInOnRecord  SidesAgree 
 
SYMMETRY Sym
CHECK_DEADLOCK FALSE
