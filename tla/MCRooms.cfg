SPECIFICATION Spec
CONSTANTS
  Rooms = {r1}
  Horizon = 2
  ListLimit = 1
  RoomLimit = 2
  MaxReloads = 1
  EntryRooms = {r1, r2}
  Secured = {r2}
  NoRoom = NoRoom
  MaxVisits = 2
  MaxMoves = 1
  MaxAnswers = 2
  CatalogueRooms = {r1, r2}
  Users = {x1}
  NewRoom = r2
  MaxFetches = 1
  MaxEdits = 2
  ContactsUsers = {me, u1, u2}
  Me = me
  Types = {"dm", "admin"}
  MaxConvs = 2
  MaxChanges = 1
  Threads = {r1}
  PageSize = 1
  SyncLimit = 2
  Earlier = 2
  MaxReplies = 4
  MaxDeleted = 1
  ThreadsMaxMoves = 2
  MaxFailed = 1
  Clients = {r1, r2}
  Viewer = r1
  MaxComments = 3
  Voted = {2}
  MaxVotes = 2
  MaxFaults = 1
  MaxOpens = 1
  ExpertsUsers = {me, r1}
  ExpertsMe = me
  ExpertsPageSize = 2
  MaxEvents = 4
  MaxTexts = 1
  ExpertsMaxChanges = 1
  ExpertsMaxOpens = 1
  MaxFails = 1
INVARIANTS TypeOK  OneConversation KnowledgeKept  MessagesAgree
SYMMETRY Sym
CHECK_DEADLOCK FALSE
