------------------------------------ MODULE MCTalk ------------------------------------
(*****************************************************************************)
(* What is said in a room: messages being written (Compose), polls and       *)
(* schedulers (Voting), warnings and timeouts (Sanctions), reports           *)
(* (Reports) and the roles that are given (Roles), uploads (Uploads),        *)
(* searches (Search), and what an administrator does to the room: levels     *)
(* (RoomPerms) and taking it over (TakeOver).                                *)
(* These components run next to one another in the client and share no       *)
(* state that the modules model, so what one of them does alone is all it    *)
(* does. A behaviour looks at one of them, part, and leaves the variables    *)
(* of the others Off.                                                        *)
(*****************************************************************************)
EXTENDS Naturals, FiniteSets, TLC

CONSTANTS
  VotingClients, Creator, Titles, Answers, MaxEvents, MaxIds,
  RoleRooms, Elsewhere, Purposes, PageLength, MaxMessages, MaxFetches, MaxDone,
  MaxMisses,
  Stewards, Members, SanctionsMe, Sessions, SRooms, Nowhere, MaxClock, MaxPosts,
  Messages, Pictures, Found, ReportsBatch, PageSize, FirstReports, MaxReports,
  MaxVisits, MaxLooks,
  Threads, None, TextMessages, FileMessages, MaxTyped, MaxActs,
  Entries, MaxFiles, MaxRetries, MaxFaults, MaxRuns, MaxDownloads,
  Rooms, Levels, MaxOpens, MaxPicks, MaxOthers, PermsMaxFaults,
  Clicks, MaxPromotes, TakeoverMaxFaults,
  SearchRooms, Terms, MaxSearches, MaxBatches, MaxMoves, SearchMaxFaults

\* A page has a number of messages, a form is opened a number of times, and no
\* room has the name for none.
ASSUME TalkAssumption == PageLength \in Nat /\ MaxOpens \in Nat /\ "no room" \notin Rooms
\* Who is warned is a member; stewards are not the ones whose sessions are looked at.
ASSUME SanctionsAssumption ==
  SanctionsMe \in Members /\ Stewards \cap Sessions = {} /\ Nowhere \notin SRooms
\* What is capped is capped by a number, and the files are finitely many.
ASSUME BoundsAssumption ==
  /\ {MaxMessages, MaxFetches, MaxClock, MaxPosts, MaxReports, MaxTyped, MaxActs, MaxFiles,
      MaxRetries, MaxSearches, MaxBatches} \subseteq Nat
  /\ IsFiniteSet(Entries)
\* The reports there are to begin with are counted, and so are those of a batch.
ASSUME ReportsAssumption == FirstReports \in 0 .. MaxReports /\ ReportsBatch \in Nat
\* No thread and no message has the name for nothing.
ASSUME ComposeAssumption ==
  "nothing" \notin Threads \cup {None} \cup TextMessages \cup FileMessages
\* The one who made a poll takes part in it.
ASSUME VotingAssumption == Creator \in VotingClients /\ {MaxEvents, MaxIds} \subseteq Nat

VARIABLES
  part,   \* the component that is looked at
  kind, original, events, view, known, draft,
  talk, power, roomList, page, invitations, entries, more, loadingMore, fetches,
  selected, confirm, work, fetched, misses, done, promoted,
  state, data, sanctionsKnown, knownData, sanctionsView, panel, dialog, posts, agreed,
  accepting, until, bar, clock, made, issued, withdrawn, accepted,
  admin, filed, kept, forms, sends, visits, listed, total, loads, removing, look, looks,
  preview, reportsFetches,
  opened, box, drafts, replyingTo, whispering, waits, posted, typed, acts, shared,
  swapped,
  files, status, dropped, taken, walk, step, attempt, uploadIsActive, uploadError,
  uploadsPosted, busy, fetching, settling, faults, runs, downloads,
  level, joined, own, form, shown, savedPl, adminJoinedRooms, savingRoomId, rowSaved,
  rowError, tasks, touched, blind, stuck, opens, picks, others, permsFaults,
  members, takeoverPower, promote, takeoverPanel, flow, takeoverOwn, apiMatrix, client,
  inProgress, brought, sentOff, missed, promotes, takeoverFaults,
  room, mount, searchTerm, searchResults, searched, isSearching, moreBatches,
  searchRuns, failed, searches, moves, searchFaults

voting == INSTANCE Voting WITH
  Clients <- VotingClients
roles == INSTANCE Roles
sanctions == INSTANCE Sanctions WITH
  known <- sanctionsKnown, view <- sanctionsView, Me <- SanctionsMe
reports == INSTANCE Reports WITH
  fetches <- reportsFetches, Batch <- ReportsBatch
compose == INSTANCE Compose
uploads == INSTANCE Uploads WITH
  posted <- uploadsPosted
perms == INSTANCE RoomPerms WITH
  faults <- permsFaults, MaxFaults <- PermsMaxFaults
takeover == INSTANCE TakeOver WITH
  power <- takeoverPower, panel <- takeoverPanel, own <- takeoverOwn,
  faults <- takeoverFaults, MaxFaults <- TakeoverMaxFaults
search == INSTANCE Search WITH
  runs <- searchRuns, faults <- searchFaults, MaxFaults <- SearchMaxFaults

Off == "off"   \* a variable of another component
votingVars ==
  <<kind, original, events, view, known, draft>>
rolesVars ==
  <<talk, power, roomList, page, invitations, entries, more, loadingMore, fetches,
    selected, confirm, work, fetched, misses, done, promoted>>
sanctionsVars ==
  <<state, data, sanctionsKnown, knownData, sanctionsView, panel, dialog, posts, agreed,
    accepting, until, bar, clock, made, issued, withdrawn, accepted>>
reportsVars ==
  <<admin, filed, kept, forms, sends, visits, listed, total, loads, removing, look,
    looks, preview, reportsFetches>>
composeVars ==
  <<opened, box, drafts, replyingTo, whispering, waits, posted, typed, acts, shared,
    swapped>>
uploadsVars ==
  <<files, status, dropped, taken, walk, step, attempt, uploadIsActive, uploadError,
    uploadsPosted, busy, fetching, settling, faults, runs, downloads>>
permsVars ==
  <<level, joined, own, form, shown, savedPl, adminJoinedRooms, savingRoomId, rowSaved,
    rowError, tasks, touched, blind, stuck, opens, picks, others, permsFaults>>
takeoverVars ==
  <<members, takeoverPower, promote, takeoverPanel, flow, takeoverOwn, apiMatrix,
    client, inProgress, brought, sentOff, missed, promotes, takeoverFaults>>
searchVars ==
  <<room, mount, searchTerm, searchResults, searched, isSearching, moreBatches,
    searchRuns, failed, searches, moves, searchFaults>>
votingOff ==
  /\ kind = Off /\ original = Off /\ events = Off /\ view = Off /\ known = Off
  /\ draft = Off
rolesOff ==
  /\ talk = Off /\ power = Off /\ roomList = Off /\ page = Off /\ invitations = Off
  /\ entries = Off /\ more = Off /\ loadingMore = Off /\ fetches = Off /\ selected = Off
  /\ confirm = Off /\ work = Off /\ fetched = Off /\ misses = Off /\ done = Off
  /\ promoted = Off
sanctionsOff ==
  /\ state = Off /\ data = Off /\ sanctionsKnown = Off /\ knownData = Off
  /\ sanctionsView = Off /\ panel = Off /\ dialog = Off /\ posts = Off /\ agreed = Off
  /\ accepting = Off /\ until = Off /\ bar = Off /\ clock = Off /\ made = Off
  /\ issued = Off /\ withdrawn = Off /\ accepted = Off
reportsOff ==
  /\ admin = Off /\ filed = Off /\ kept = Off /\ forms = Off /\ sends = Off
  /\ visits = Off /\ listed = Off /\ total = Off /\ loads = Off /\ removing = Off
  /\ look = Off /\ looks = Off /\ preview = Off /\ reportsFetches = Off
composeOff ==
  /\ opened = Off /\ box = Off /\ drafts = Off /\ replyingTo = Off /\ whispering = Off
  /\ waits = Off /\ posted = Off /\ typed = Off /\ acts = Off /\ shared = Off
  /\ swapped = Off
uploadsOff ==
  /\ files = Off /\ status = Off /\ dropped = Off /\ taken = Off /\ walk = Off
  /\ step = Off /\ attempt = Off /\ uploadIsActive = Off /\ uploadError = Off
  /\ uploadsPosted = Off /\ busy = Off /\ fetching = Off /\ settling = Off
  /\ faults = Off /\ runs = Off /\ downloads = Off
permsOff ==
  /\ level = Off /\ joined = Off /\ own = Off /\ form = Off /\ shown = Off
  /\ savedPl = Off /\ adminJoinedRooms = Off /\ savingRoomId = Off /\ rowSaved = Off
  /\ rowError = Off /\ tasks = Off /\ touched = Off /\ blind = Off /\ stuck = Off
  /\ opens = Off /\ picks = Off /\ others = Off /\ permsFaults = Off
takeoverOff ==
  /\ members = Off /\ takeoverPower = Off /\ promote = Off /\ takeoverPanel = Off
  /\ flow = Off /\ takeoverOwn = Off /\ apiMatrix = Off /\ client = Off
  /\ inProgress = Off /\ brought = Off /\ sentOff = Off /\ missed = Off
  /\ promotes = Off /\ takeoverFaults = Off
searchOff ==
  /\ room = Off /\ mount = Off /\ searchTerm = Off /\ searchResults = Off
  /\ searched = Off /\ isSearching = Off /\ moreBatches = Off /\ searchRuns = Off
  /\ failed = Off /\ searches = Off /\ moves = Off /\ searchFaults = Off

Init ==
  \/ /\ part = "voting" /\ voting!VotingInit /\ rolesOff /\ sanctionsOff /\ reportsOff
     /\ composeOff /\ uploadsOff /\ permsOff /\ takeoverOff /\ searchOff
  \/ /\ part = "roles" /\ roles!RolesInit /\ votingOff /\ sanctionsOff /\ reportsOff
     /\ composeOff /\ uploadsOff /\ permsOff /\ takeoverOff /\ searchOff
  \/ /\ part = "sanctions" /\ sanctions!SanctionInit /\ votingOff /\ rolesOff
     /\ reportsOff /\ composeOff /\ uploadsOff /\ permsOff /\ takeoverOff /\ searchOff
  \/ /\ part = "reports" /\ reports!ReportsInit /\ votingOff /\ rolesOff /\ sanctionsOff
     /\ composeOff /\ uploadsOff /\ permsOff /\ takeoverOff /\ searchOff
  \/ /\ part = "compose" /\ compose!ComposeInit /\ votingOff /\ rolesOff /\ sanctionsOff
     /\ reportsOff /\ uploadsOff /\ permsOff /\ takeoverOff /\ searchOff
  \/ /\ part = "uploads" /\ uploads!UploadsInit /\ votingOff /\ rolesOff /\ sanctionsOff
     /\ reportsOff /\ composeOff /\ permsOff /\ takeoverOff /\ searchOff
  \/ /\ part = "perms" /\ perms!PermsInit /\ votingOff /\ rolesOff /\ sanctionsOff
     /\ reportsOff /\ composeOff /\ uploadsOff /\ takeoverOff /\ searchOff
  \/ /\ part = "takeover" /\ takeover!TakeOverInit /\ votingOff /\ rolesOff
     /\ sanctionsOff /\ reportsOff /\ composeOff /\ uploadsOff /\ permsOff /\ searchOff
  \/ /\ part = "search" /\ search!SearchInit /\ votingOff /\ rolesOff /\ sanctionsOff
     /\ reportsOff /\ composeOff /\ uploadsOff /\ permsOff /\ takeoverOff

votingNext ==
  /\ part = "voting" /\ voting!VotingNext
  /\ UNCHANGED <<part, rolesVars, sanctionsVars, reportsVars, composeVars, uploadsVars, permsVars, takeoverVars, searchVars>>

rolesNext ==
  /\ part = "roles" /\ roles!RolesNext
  /\ UNCHANGED <<part, votingVars, sanctionsVars, reportsVars, composeVars, uploadsVars, permsVars, takeoverVars, searchVars>>

sanctionsNext ==
  /\ part = "sanctions" /\ sanctions!SanctionNext
  /\ UNCHANGED <<part, votingVars, rolesVars, reportsVars, composeVars, uploadsVars, permsVars, takeoverVars, searchVars>>

reportsNext ==
  /\ part = "reports" /\ reports!ReportsNext
  /\ UNCHANGED <<part, votingVars, rolesVars, sanctionsVars, composeVars, uploadsVars, permsVars, takeoverVars, searchVars>>

composeNext ==
  /\ part = "compose" /\ compose!ComposeNext
  /\ UNCHANGED <<part, votingVars, rolesVars, sanctionsVars, reportsVars, uploadsVars, permsVars, takeoverVars, searchVars>>

uploadsNext ==
  /\ part = "uploads" /\ uploads!UploadsNext
  /\ UNCHANGED <<part, votingVars, rolesVars, sanctionsVars, reportsVars, composeVars, permsVars, takeoverVars, searchVars>>

permsNext ==
  /\ part = "perms" /\ perms!PermsNext
  /\ UNCHANGED <<part, votingVars, rolesVars, sanctionsVars, reportsVars, composeVars, uploadsVars, takeoverVars, searchVars>>

takeoverNext ==
  /\ part = "takeover" /\ takeover!TakeOverNext
  /\ UNCHANGED <<part, votingVars, rolesVars, sanctionsVars, reportsVars, composeVars, uploadsVars, permsVars, searchVars>>

searchNext ==
  /\ part = "search" /\ search!SearchNext
  /\ UNCHANGED <<part, votingVars, rolesVars, sanctionsVars, reportsVars, composeVars, uploadsVars, permsVars, takeoverVars>>

Next == votingNext \/ rolesNext \/ sanctionsNext \/ reportsNext \/ composeNext \/ uploadsNext \/ permsNext \/ takeoverNext \/ searchNext
vars == <<part, votingVars, rolesVars, sanctionsVars, reportsVars, composeVars, uploadsVars, permsVars, takeoverVars, searchVars>>
Spec == Init /\ [][Next]_vars

-----------------------------------------------------------------------------
\* The types of the component that is looked at.
TypeOK ==
  /\ part = "voting" => voting!VotingTypeOK
  /\ part = "roles" => roles!RolesTypeOK
  /\ part = "sanctions" => sanctions!SanctionTypeOK
  /\ part = "reports" => reports!ReportsTypeOK
  /\ part = "compose" => compose!ComposeTypeOK
  /\ part = "uploads" => uploads!UploadsTypeOK
  /\ part = "perms" => perms!PermsTypeOK
  /\ part = "takeover" => takeover!TakeOverTypeOK
  /\ part = "search" => search!SearchTypeOK

\* Clients that have all events of a poll show the same options and agree
\* whether it is closed, however the events came in and however often the
\* widget was mounted in between.
SameWidget == part = "voting" => voting!SameWidget

\* Nobody gets a role who was not asked for that room and has not disclosed
\* attributes: not by what the administrator disclosed in the same
\* conversation, by a list that is old, by pages that arrive in another order
\* or by requests that fail.
PromotedAfterDisclosure == part = "roles" => roles!PromotedAfterDisclosure

\* What is on the screen is of what the user looks at, however answers overtake
\* one another: a warning is silent, in a session that has heard of it and has
\* its room in view, only if the member accepted it, or the same one in a room
\* it was copied from; the preview of a report is of the one selected; and when
\* no search is under way none is announced, and what is shown is all that the
\* search it is from has found.
ShownIsCurrent ==
  /\ part = "sanctions" => sanctions!NewWarningShows
  /\ part = "reports" => reports!PreviewOfSelection
  /\ part = "search" => search!SearchEnds

\* A file reaches a room once: one that was shared from the library is sent at
\* most once, however often the user presses the button and whether or not the
\* request fails; one that was dropped in the library is uploaded once at most
\* and is not forgotten before.
FilesOnce ==
  /\ part = "compose" => compose!SharedOnce
  /\ part = "uploads" => uploads!TransfersEnd

\* An administrator who changes levels or takes a room over leaves it as he was
\* told: the levels in the form are those of the server, he is in no room but
\* his own and those he failed to leave, and the previous administrator is sent
\* off only when he has taken over.
AdminHandsOver ==
  /\ part = "perms" => perms!FormKeepsPace
  /\ part = "takeover" => takeover!HandedOver

\* Titles, threads or rooms, and messages with a file are not told apart.
Sym == Permutations(Titles) \cup Permutations(SRooms) \cup Permutations(FileMessages)
=============================================================================
