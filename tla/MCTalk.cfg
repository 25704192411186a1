SPECIFICATION Spec
CONSTANTS
  VotingClients = {c1, c2}
  Creator = c1
  Titles = {a1, a2}
  Answers = {"yes"}
  MaxEvents = 3
  MaxIds = 2
  RoleRooms = {r1}
  Elsewhere = Elsewhere
  Purposes = {"expert", "information"}
  PageLength = 2
  MaxMessages = 3
  MaxFetches = 3
  MaxDone = 1
  MaxMisses = 1
  Stewards = {c1}
  Members = {c2}
  SanctionsMe = c2
  Sessions = {m1}
  SRooms = {t1, t2}
  Nowhere = Nowhere
  MaxClock = 2
  MaxPosts = 2
  Messages = {r1, r2}
  Pictures = {r2}
  Found = {r1}
  ReportsBatch = 1
  PageSize = 1
  FirstReports = 1
  MaxReports = 2
  MaxVisits = 1
  MaxLooks = 3
  Threads = {t1, t2}
  None = None
  TextMessages = {m1}
  FileMessages = {m2, m3}
  MaxTyped = 1
  MaxActs = 2
  Entries = {a1, a2, r1}
  MaxFiles = 2
  MaxRetries = 1
  MaxFaults = 1
  MaxRuns = 2
  MaxDownloads = 1
  Rooms = {t1, t2}
  Levels = {0, 50}
  MaxOpens = 2
  MaxPicks = 2
  MaxOthers = 1
  PermsMaxFaults = 1
  Clicks = {t1, t2}
  MaxPromotes = 2
  TakeoverMaxFaults = 2
  SearchRooms = {m2, m3}
  Terms = {a1, a2}
  MaxSearches = 2
  MaxBatches = 3
  MaxMoves = 4
  SearchMaxFaults = 1
INVARIANTS TypeOK  PromotedAfterDisclosure ShownIsCurrent  
SYMMETRY Sym
CHECK_DEADLOCK FALSE
