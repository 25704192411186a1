----------------------------------- MODULE MCRooms -----------------------------------
(*****************************************************************************)
(* The rooms of a hub client: unread messages (Unread), entering and         *)
(* leaving (RoomEntry), the lists of rooms and the editor of secured rooms   *)
(* (Catalogue), and conversations (Contacts), and what is said below a       *)
(* message: threads (Threads), the comments of a forum (Forum) and the       *)
(* assessments of experts (Experts).                                         *)
(* These components run next to one another in the client and share no       *)
(* state that the modules model, so what one of them does alone is all it    *)
(* does. A behaviour looks at one of them, part, and leaves the variables    *)
(* of the others Off.                                                        *)
(*****************************************************************************)
EXTENDS Naturals, FiniteSets, TLC

CONSTANTS
  Rooms, Horizon, ListLimit, RoomLimit, MaxReloads,
  EntryRooms, Secured, NoRoom, MaxVisits, MaxMoves, MaxAnswers,
  CatalogueRooms, Users, NewRoom, MaxFetches, MaxEdits,
  ContactsUsers, Me, Types, MaxConvs, MaxChanges,
  Threads, PageSize, SyncLimit, Earlier, MaxReplies, MaxDeleted, ThreadsMaxMoves,
  MaxFailed,
  Clients, Viewer, MaxComments, Voted, MaxVotes, MaxFaults, MaxOpens,
  ExpertsUsers, ExpertsMe, ExpertsPageSize, MaxEvents, MaxTexts, ExpertsMaxChanges,
  ExpertsMaxOpens, MaxFails

ASSUME BoundsAssumption ==
  /\ MaxEdits \in Nat /\ MaxConvs \in Nat /\ MaxChanges \in Nat
  /\ Horizon \in Nat /\ MaxReloads \in Nat /\ {ListLimit, RoomLimit} \subseteq Nat \ {0}
ASSUME EntryAssumption ==
  /\ Secured \subseteq EntryRooms /\ NoRoom \notin EntryRooms /\ "error" \notin EntryRooms
  /\ {MaxVisits, MaxMoves, MaxAnswers} \subseteq Nat
ASSUME ThreadsAssumption ==
  {PageSize, SyncLimit} \subseteq Nat \ {0} /\ Earlier \in Nat /\ "none" \notin Threads
ASSUME ForumAssumption == MaxComments \in Nat /\ Voted \subseteq 1 .. MaxComments
ASSUME ExpertsAssumption == MaxEvents \in Nat \ {0} /\ ExpertsMe \in ExpertsUsers
\* There are conversations with one other, and with the administrators of the hub.
ASSUME ContactsAssumption ==
  {"dm", "admin"} \subseteq Types /\ Me \in ContactsUsers /\ IsFiniteSet(ContactsUsers)

VARIABLES
  part,   \* the component that is looked at
  joined, history, receipt, view, listed, shown, roomsLoaded, aggregate, dirty,
  tracking, cache, saveTimer, store, ready, queue, disk, learnt, due, reloads,
  member, admitted, lastSent, response, sdk, entryRoomsLoaded, list, entryStore,
  current, route, page, tasks, ops, dialog, callback, asked, removals, answers,
  kind, policy, within, recent, publics, catalogueShown, fetches, secured, meta,
  metaCalls, editor, kicks, unnoted, edits,
  convs, contactsView, admins, calls, setup, selected, tab, last, blind, changes,
  posted, deleted, byReason, feed, lost, threadsSdk, objs, root, threadsFetches,
  lengths, currentThreadId, panel, moves, failed,
  parent, held, gone, open, frozen, ranks, settling, log, told, hidden, forumOps, votes,
  faults, opens,
  expertsLog, expertsTold, isExpert, amExpert, loaded, record, since, revived, menu,
  verifyDialog, profileDialog, hasProfile, expertsOps, expertsChanges, expertsOpens,
  fails

unread == INSTANCE Unread
entry == INSTANCE RoomEntry WITH
  roomsLoaded <- entryRoomsLoaded, store <- entryStore, Rooms <- EntryRooms
catalogue == INSTANCE Catalogue WITH
  shown <- catalogueShown, Rooms <- CatalogueRooms
contacts == INSTANCE Contacts WITH
  view <- contactsView, Users <- ContactsUsers
threads == INSTANCE Threads WITH
  sdk <- threadsSdk, fetches <- threadsFetches, MaxMoves <- ThreadsMaxMoves
forum == INSTANCE Forum WITH
  ops <- forumOps
experts == INSTANCE Experts WITH
  log <- expertsLog, told <- expertsTold, ops <- expertsOps, changes <- expertsChanges,
  opens <- expertsOpens, Users <- ExpertsUsers, Me <- ExpertsMe,
  PageSize <- ExpertsPageSize, MaxChanges <- ExpertsMaxChanges,
  MaxOpens <- ExpertsMaxOpens

Off == "off"   \* a variable of another component
unreadVars ==
  <<joined, history, receipt, view, listed, shown, roomsLoaded, aggregate, dirty,
    tracking, cache, saveTimer, store, ready, queue, disk, learnt, due, reloads>>
entryVars ==
  <<member, admitted, lastSent, response, sdk, entryRoomsLoaded, list, entryStore,
    current, route, page, tasks, ops, dialog, callback, asked, removals, answers>>
catalogueVars ==
  <<kind, policy, within, recent, publics, catalogueShown, fetches, secured, meta,
    metaCalls, editor, kicks, unnoted, edits>>
contactsVars ==
  <<convs, contactsView, admins, calls, setup, selected, tab, last, blind, changes>>
threadsVars ==
  <<posted, deleted, byReason, feed, lost, threadsSdk, objs, root, threadsFetches,
    lengths, currentThreadId, panel, moves, failed>>
forumVars ==
  <<parent, held, gone, open, frozen, ranks, settling, log, told, hidden, forumOps,
    votes, faults, opens>>
expertsVars ==
  <<expertsLog, expertsTold, isExpert, amExpert, loaded, record, since, revived, menu,
    verifyDialog, profileDialog, hasProfile, expertsOps, expertsChanges, expertsOpens,
    fails>>
unreadOff ==
  /\ joined = Off /\ history = Off /\ receipt = Off /\ view = Off /\ listed = Off
  /\ shown = Off /\ roomsLoaded = Off /\ aggregate = Off /\ dirty = Off
  /\ tracking = Off /\ cache = Off /\ saveTimer = Off /\ store = Off /\ ready = Off
  /\ queue = Off /\ disk = Off /\ learnt = Off /\ due = Off /\ reloads = Off
entryOff ==
  /\ member = Off /\ admitted = Off /\ lastSent = Off /\ response = Off /\ sdk = Off
  /\ entryRoomsLoaded = Off /\ list = Off /\ entryStore = Off /\ current = Off
  /\ route = Off /\ page = Off /\ tasks = Off /\ ops = Off /\ dialog = Off
  /\ callback = Off /\ asked = Off /\ removals = Off /\ answers = Off
catalogueOff ==
  /\ kind = Off /\ policy = Off /\ within = Off /\ recent = Off /\ publics = Off
  /\ catalogueShown = Off /\ fetches = Off /\ secured = Off /\ meta = Off
  /\ metaCalls = Off /\ editor = Off /\ kicks = Off /\ unnoted = Off /\ edits = Off
contactsOff ==
  /\ convs = Off /\ contactsView = Off /\ admins = Off /\ calls = Off /\ setup = Off
  /\ selected = Off /\ tab = Off /\ last = Off /\ blind = Off /\ changes = Off
threadsOff ==
  /\ posted = Off /\ deleted = Off /\ byReason = Off /\ feed = Off /\ lost = Off
  /\ threadsSdk = Off /\ objs = Off /\ root = Off /\ threadsFetches = Off
  /\ lengths = Off /\ currentThreadId = Off /\ panel = Off /\ moves = Off
  /\ failed = Off
forumOff ==
  /\ parent = Off /\ held = Off /\ gone = Off /\ open = Off /\ frozen = Off
  /\ ranks = Off /\ settling = Off /\ log = Off /\ told = Off /\ hidden = Off
  /\ forumOps = Off /\ votes = Off /\ faults = Off /\ opens = Off
expertsOff ==
  /\ expertsLog = Off /\ expertsTold = Off /\ isExpert = Off /\ amExpert = Off
  /\ loaded = Off /\ record = Off /\ since = Off /\ revived = Off /\ menu = Off
  /\ verifyDialog = Off /\ profileDialog = Off /\ hasProfile = Off /\ expertsOps = Off
  /\ expertsChanges = Off /\ expertsOpens = Off /\ fails = Off

Init ==
  \/ /\ part = "unread" /\ unread!Init /\ entryOff /\ catalogueOff /\ contactsOff
     /\ threadsOff /\ forumOff /\ expertsOff
  \/ /\ part = "entry" /\ entry!Init /\ unreadOff /\ catalogueOff /\ contactsOff
     /\ threadsOff /\ forumOff /\ expertsOff
  \/ /\ part = "catalogue" /\ catalogue!Init /\ unreadOff /\ entryOff /\ contactsOff
     /\ threadsOff /\ forumOff /\ expertsOff
  \/ /\ part = "contacts" /\ contacts!Init /\ unreadOff /\ entryOff /\ catalogueOff
     /\ threadsOff /\ forumOff /\ expertsOff
  \/ /\ part = "threads" /\ threads!ThreadsInit /\ unreadOff /\ entryOff /\ catalogueOff
     /\ contactsOff /\ forumOff /\ expertsOff
  \/ /\ part = "forum" /\ forum!ForumInit /\ unreadOff /\ entryOff /\ catalogueOff
     /\ contactsOff /\ threadsOff /\ expertsOff
  \/ /\ part = "experts" /\ experts!ExpertsInit /\ unreadOff /\ entryOff /\ catalogueOff
     /\ contactsOff /\ threadsOff /\ forumOff

unreadNext ==
  /\ part = "unread" /\ unread!Next
  /\ UNCHANGED <<part, entryVars, catalogueVars, contactsVars, threadsVars, forumVars, expertsVars>>

entryNext ==
  /\ part = "entry" /\ entry!Next
  /\ UNCHANGED <<part, unreadVars, catalogueVars, contactsVars, threadsVars, forumVars, expertsVars>>

catalogueNext ==
  /\ part = "catalogue" /\ catalogue!Next
  /\ UNCHANGED <<part, unreadVars, entryVars, contactsVars, threadsVars, forumVars, expertsVars>>

contactsNext ==
  /\ part = "contacts" /\ contacts!Next
  /\ UNCHANGED <<part, unreadVars, entryVars, catalogueVars, threadsVars, forumVars, expertsVars>>

threadsNext ==
  /\ part = "threads" /\ threads!ThreadsNext
  /\ UNCHANGED <<part, unreadVars, entryVars, catalogueVars, contactsVars, forumVars, expertsVars>>

forumNext ==
  /\ part = "forum" /\ forum!ForumNext
  /\ UNCHANGED <<part, unreadVars, entryVars, catalogueVars, contactsVars, threadsVars, expertsVars>>

expertsNext ==
  /\ part = "experts" /\ experts!ExpertsNext
  /\ UNCHANGED <<part, unreadVars, entryVars, catalogueVars, contactsVars, threadsVars, forumVars>>

Next == unreadNext \/ entryNext \/ catalogueNext \/ contactsNext \/ threadsNext \/ forumNext \/ expertsNext
vars == <<part, unreadVars, entryVars, catalogueVars, contactsVars, threadsVars, forumVars, expertsVars>>
Spec == Init /\ [][Next]_vars

-----------------------------------------------------------------------------
\* The types of the component that is looked at.
TypeOK ==
  /\ part = "unread" => unread!TypeOK
  /\ part = "entry" => entry!TypeOK
  /\ part = "catalogue" => catalogue!TypeOK
  /\ part = "contacts" => contacts!TypeOK
  /\ part = "threads" => threads!ThreadsTypeOK
  /\ part = "forum" => forum!ForumTypeOK
  /\ part = "experts" => experts!ExpertsTypeOK

\* When the editor of a secured room is left and the removal it started is
\* over, everybody in the room can disclose what it now asks for, unless the
\* editor did not note the change (unnoted): attributeChanged is set by every
\* other change that may shut a user out.
AdmittedSatisfy == part = "catalogue" => catalogue!AdmittedSatisfy

\* A conversation is not started anew while there is one: as long as every room
\* was created by a client that knew of all others, no two rooms are for direct
\* messages of the same two people.
OneConversation == part = "contacts" => contacts!OneConversation

\* What this session has computed of a room is still in the cache of unread
\* messages, whenever the stored information arrives and however often it is
\* saved (loadUnreadInfoCache merges, saveCache drops only rooms that were
\* left); and when no save of it is scheduled or waits for the first load, the
\* disk of the global client has all that a save was scheduled for.
KnowledgeKept ==
  /\ part = "unread" => unread!KeepsKnowledge
  /\ part = "unread" => unread!SavedWhatWasDue

\* When all that was asked for is answered and sliding sync is up to date, each
\* room the user is in, and has not asked to leave, is in the list; isLoading
\* is reset when the last call of update() is over, whatever calls it
\* superseded or was overtaken by; and those calls do not switch the room
\* behind the back of a user who stays on the page of rooms.
RoomsSettle ==
  /\ part = "entry" => entry!JoinedAreListed
  /\ part = "entry" => entry!SpinnerEnds
  /\ part = "entry" => entry!CurrentIsRoute

\* What is said below a message is shown as the hub has it, however pages, sync
\* and failures overtake one another: the open thread is whole, each expert's
\* last word counts, a forum post gets its order, and clients that have heard
\* everything agree on the votes.
MessagesAgree ==
  /\ part = "threads" => threads!ThreadIsWhole
  /\ part = "experts" => experts!LastWordShows
  /\ part = "forum" => forum!OrderComes
  /\ part = "forum" => forum!VotesAgree

\* Users other than the one at this client are not told apart.
Sym == Permutations(ContactsUsers \ {Me})
=============================================================================
