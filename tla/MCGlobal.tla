----------------------------------- MODULE MCGlobal -----------------------------------
(*****************************************************************************)
(* The global client and its frames: accounts (Account), the hub in the      *)
(* frame (Frames), dialogs (Dialogs), and of the hub client the menus that   *)
(* both take part in (Menus), the house rules (HouseRules), calls            *)
(* (VideoCall) and the library of files (Library); and of the                *)
(* authentication server the sessions it chains for clients                  *)
(* (ChainedSessions).                                                        *)
(* These components run next to one another in the client and share no       *)
(* state that the modules model, so what one of them does alone is all it    *)
(* does. A behaviour looks at one of them, part, and leaves the variables    *)
(* of the others Off.                                                        *)
(*****************************************************************************)
EXTENDS Naturals, FiniteSets, TLC

CONSTANTS
  Devices, Flows, Nobody, MaxLogins, MaxFailures,
  Hubs, NoHub, MaxVisits, MaxMail, MaxToggles,
  Fields, Language, Values, MaxSessions, MaxDeeds,
  Desks, Admins, Rules, MaxEdits, MaxSaves, HouserulesMaxVisits, MaxSubmits, MaxMisses,
  Callers, CallRooms, NoRoom, MaxActs, MaxFails,
  Targets, MaxOpens, MaxResizes,
  Files, ShelfMaxOpens, MaxFaults, MaxSeals, MaxDeletes,
  Disclosures, NoDisclosure, Capacity, Validity, Window, Patience, Slots, Starts,
  Releases, MaxRequests, MaxTime

ASSUME BoundsAssumption ==
  /\ MaxMail \in Nat /\ MaxVisits \in Nat /\ MaxSessions \in Nat
  /\ MaxOpens \in Nat /\ MaxActs \in Nat /\ MaxFails \in Nat
  /\ MaxRequests \in Nat /\ MaxTime \in Nat /\ Window \in Nat /\ Validity \in Nat /\ Slots \in Nat
\* What stands for no hub, no menu or no file is none of them.
ASSUME NamesAssumption ==
  NoHub \notin Hubs /\ {"none", "bar"} \cap Targets = {} /\ "nothing" \notin Files
ASSUME FilesAssumption == IsFiniteSet(Files)

VARIABLES
  part,   \* the component that is looked at
  account, wallet, object, disk, mem, page, session, flow, existed, contents, secrets,
  logins, failures,
  current, pins, canBack, listeners, latest, ready, handlers, waiting, src, doc, mail,
  mini, told, store, visits, toggles,
  screen, signedIn, prefs, dialogsAccount, dialogsTold, sheet, form, asked, buttons,
  onOk, onCancel, yivi, begun, knocks, notify, permission, prompts, chosen, deeds,
  rules, consented, desk, saves, houserulesPage, kind, needs, version, forms, asks,
  agreedTo, edits, saved, houserulesVisits, submits, misses,
  call, flows, where, heard, sees, groups, news, acts, fails,
  isOpen, target, press, wheel, narrowHub, globalMenu, subscriptions, dimmed, narrow,
  up, down, muddled, mistaken, opened, resized,
  sent, redacted, lost, sealed, shelfNews, library, flagged, seals, redactions, load,
  filter, selection, batch, late, doing, spoilt, signing, active, hash, hashing,
  sessions, mixed, opens, faults, deletes,
  requests, states, chained, expiries, channel, aborts, clock

accounts == INSTANCE Account
frames == INSTANCE Frames
dialogs == INSTANCE Dialogs WITH
  account <- dialogsAccount, told <- dialogsTold
houserules == INSTANCE HouseRules WITH
  page <- houserulesPage, visits <- houserulesVisits, MaxVisits <- HouserulesMaxVisits
video == INSTANCE VideoCall
menus == INSTANCE Menus
shelf == INSTANCE Library WITH
  news <- shelfNews, MaxOpens <- ShelfMaxOpens
chains == INSTANCE ChainedSessions

Off == "off"   \* a variable of another component
accountsVars ==
  <<account, wallet, object, disk, mem, page, session, flow, existed, contents, secrets,
    logins, failures>>
framesVars ==
  <<current, pins, canBack, listeners, latest, ready, handlers, waiting, src, doc, mail,
    mini, told, store, visits, toggles>>
dialogsVars ==
  <<screen, signedIn, prefs, dialogsAccount, dialogsTold, sheet, form, asked, buttons,
    onOk, onCancel, yivi, begun, knocks, notify, permission, prompts, chosen, deeds>>
houserulesVars ==
  <<rules, consented, desk, saves, houserulesPage, kind, needs, version, forms, asks,
    agreedTo, edits, saved, houserulesVisits, submits, misses>>
videoVars ==
  <<call, flows, where, heard, sees, groups, news, acts, fails>>
menusVars ==
  <<isOpen, target, press, wheel, narrowHub, globalMenu, subscriptions, dimmed, narrow,
    up, down, muddled, mistaken, opened, resized>>
shelfVars ==
  <<sent, redacted, lost, sealed, shelfNews, library, flagged, seals, redactions, load,
    filter, selection, batch, late, doing, spoilt, signing, active, hash, hashing,
    sessions, mixed, opens, faults, deletes>>
chainsVars ==
  <<requests, states, chained, expiries, channel, aborts, clock>>
accountsOff ==
  /\ account = Off /\ wallet = Off /\ object = Off /\ disk = Off /\ mem = Off
  /\ page = Off /\ session = Off /\ flow = Off /\ existed = Off /\ contents = Off
  /\ secrets = Off /\ logins = Off /\ failures = Off
framesOff ==
  /\ current = Off /\ pins = Off /\ canBack = Off /\ listeners = Off /\ latest = Off
  /\ ready = Off /\ handlers = Off /\ waiting = Off /\ src = Off /\ doc = Off
  /\ mail = Off /\ mini = Off /\ told = Off /\ store = Off /\ visits = Off
  /\ toggles = Off
dialogsOff ==
  /\ screen = Off /\ signedIn = Off /\ prefs = Off /\ dialogsAccount = Off
  /\ dialogsTold = Off /\ sheet = Off /\ form = Off /\ asked = Off /\ buttons = Off
  /\ onOk = Off /\ onCancel = Off /\ yivi = Off /\ begun = Off /\ knocks = Off
  /\ notify = Off /\ permission = Off /\ prompts = Off /\ chosen = Off /\ deeds = Off
houserulesOff ==
  /\ rules = Off /\ consented = Off /\ desk = Off /\ saves = Off /\ houserulesPage = Off
  /\ kind = Off /\ needs = Off /\ version = Off /\ forms = Off /\ asks = Off
  /\ agreedTo = Off /\ edits = Off /\ saved = Off /\ houserulesVisits = Off
  /\ submits = Off /\ misses = Off
videoOff ==
  /\ call = Off /\ flows = Off /\ where = Off /\ heard = Off /\ sees = Off
  /\ groups = Off /\ news = Off /\ acts = Off /\ fails = Off
menusOff ==
  /\ isOpen = Off /\ target = Off /\ press = Off /\ wheel = Off /\ narrowHub = Off
  /\ globalMenu = Off /\ subscriptions = Off /\ dimmed = Off /\ narrow = Off /\ up = Off
  /\ down = Off /\ muddled = Off /\ mistaken = Off /\ opened = Off /\ resized = Off
shelfOff ==
  /\ sent = Off /\ redacted = Off /\ lost = Off /\ sealed = Off /\ shelfNews = Off
  /\ library = Off /\ flagged = Off /\ seals = Off /\ redactions = Off /\ load = Off
  /\ filter = Off /\ selection = Off /\ batch = Off /\ late = Off /\ doing = Off
  /\ spoilt = Off /\ signing = Off /\ active = Off /\ hash = Off /\ hashing = Off
  /\ sessions = Off /\ mixed = Off /\ opens = Off /\ faults = Off /\ deletes = Off
chainsOff ==
  /\ requests = Off /\ states = Off /\ chained = Off /\ expiries = Off /\ channel = Off
  /\ aborts = Off /\ clock = Off

Init ==
  \/ /\ part = "accounts" /\ accounts!Init /\ framesOff /\ dialogsOff /\ houserulesOff
     /\ videoOff /\ menusOff /\ shelfOff /\ chainsOff
  \/ /\ part = "frames" /\ frames!Init /\ accountsOff /\ dialogsOff /\ houserulesOff
     /\ videoOff /\ menusOff /\ shelfOff /\ chainsOff
  \/ /\ part = "dialogs" /\ dialogs!DialogsInit /\ accountsOff /\ framesOff
     /\ houserulesOff /\ videoOff /\ menusOff /\ shelfOff /\ chainsOff
  \/ /\ part = "houserules" /\ houserules!RulesInit /\ accountsOff /\ framesOff
     /\ dialogsOff /\ videoOff /\ menusOff /\ shelfOff /\ chainsOff
  \/ /\ part = "video" /\ video!CallInit /\ accountsOff /\ framesOff /\ dialogsOff
     /\ houserulesOff /\ menusOff /\ shelfOff /\ chainsOff
  \/ /\ part = "menus" /\ menus!MenusInit /\ accountsOff /\ framesOff /\ dialogsOff
     /\ houserulesOff /\ videoOff /\ shelfOff /\ chainsOff
  \/ /\ part = "shelf" /\ shelf!LibraryInit /\ accountsOff /\ framesOff /\ dialogsOff
     /\ houserulesOff /\ videoOff /\ menusOff /\ chainsOff
  \/ /\ part = "chains" /\ chains!ChainedInit /\ accountsOff /\ framesOff /\ dialogsOff
     /\ houserulesOff /\ videoOff /\ menusOff /\ shelfOff

accountsNext ==
  /\ part = "accounts" /\ accounts!Next
  /\ UNCHANGED <<part, framesVars, dialogsVars, houserulesVars, videoVars, menusVars, shelfVars, chainsVars>>

framesNext ==
  /\ part = "frames" /\ frames!Next
  /\ UNCHANGED <<part, accountsVars, dialogsVars, houserulesVars, videoVars, menusVars, shelfVars, chainsVars>>

dialogsNext ==
  /\ part = "dialogs" /\ dialogs!DialogsNext
  /\ UNCHANGED <<part, accountsVars, framesVars, houserulesVars, videoVars, menusVars, shelfVars, chainsVars>>

houserulesNext ==
  /\ part = "houserules" /\ houserules!RulesNext
  /\ UNCHANGED <<part, accountsVars, framesVars, dialogsVars, videoVars, menusVars, shelfVars, chainsVars>>

videoNext ==
  /\ part = "video" /\ video!CallNext
  /\ UNCHANGED <<part, accountsVars, framesVars, dialogsVars, houserulesVars, menusVars, shelfVars, chainsVars>>

menusNext ==
  /\ part = "menus" /\ menus!MenusNext
  /\ UNCHANGED <<part, accountsVars, framesVars, dialogsVars, houserulesVars, videoVars, shelfVars, chainsVars>>

shelfNext ==
  /\ part = "shelf" /\ shelf!LibraryNext
  /\ UNCHANGED <<part, accountsVars, framesVars, dialogsVars, houserulesVars, videoVars, menusVars, chainsVars>>

chainsNext ==
  /\ part = "chains" /\ chains!ChainedNext
  /\ UNCHANGED <<part, accountsVars, framesVars, dialogsVars, houserulesVars, videoVars, menusVars, shelfVars>>

Next == accountsNext \/ framesNext \/ dialogsNext \/ houserulesNext \/ videoNext \/ menusNext \/ shelfNext \/ chainsNext
vars == <<part, accountsVars, framesVars, dialogsVars, houserulesVars, videoVars, menusVars, shelfVars, chainsVars>>
Spec == Init /\ [][Next]_vars

-----------------------------------------------------------------------------
\* The types of the component that is looked at.
TypeOK ==
  /\ part = "accounts" => accounts!TypeOK
  /\ part = "frames" => frames!TypeOK
  /\ part = "dialogs" => dialogs!DialogsTypeOK
  /\ part = "houserules" => houserules!RulesTypeOK
  /\ part = "video" => video!CallTypeOK
  /\ part = "menus" => menus!MenusTypeOK
  /\ part = "shelf" => shelf!LibraryTypeOK
  /\ part = "chains" => chains!ChainedTypeOK

\* While others log in, fail, or lose their place between the two writes of the
\* user secret, the secret of an account that has one stays the same: every
\* device has the one that is stored, and was encrypted under.
SecretStays == part = "accounts" => accounts!SecretStays

\* However late a message of a hub that was left comes in, the local store of a
\* hub holds the data of the client of that hub only (resolveVerifiedStore).
StoreOfHub == part = "frames" => frames!StoreOfHub

\* However the user and the browser close a dialog, an answer starts one Yivi
\* session at most: the callbacks of the question about an attribute that is
\* taken are called once.
OneSessionPerAnswer == [][part = "dialogs" => begun' <= begun + 1]_vars

\* Who is past the onboarding of a hub, and no longer being asked about, has a
\* version of the rules on record that he accepted, whatever fails, is clicked
\* twice, or arrives late.
LetInOnRecord == part = "houserules" => houserules!LetInOnRecord

\* Whoever waits will be served. While _connecting is set every other attempt
\* to connect to a call is refused, so it is set only as long as one is under
\* way, whatever fails or overlaps (connectToCall). A request for a chained
\* session of the authentication server is in the channel or with a session
\* that waits for it and will expire, and a Yivi server whose leaving was
\* noticed has its abort on the way (ChainedSessionsCtl).
NobodyWaitsInVain ==
  /\ part = "video" => video!ConnectsAgain
  /\ part = "chains" => chains!EveryoneIsServed
  /\ part = "chains" => chains!LeftAreAborted

\* Who takes part in the same thing sees the same. The global client and the
\* hub client agree on the menu that is open, and on what it is of, once their
\* messages have arrived, as long as menus are opened one after another and the
\* layout changes under none. All who met in a chained session saw the same
\* disclosure, and one of them released it.
SidesAgree ==
  /\ part = "menus" => menus!MenusAgree
  /\ part = "chains" => chains!OneDisclosure
  /\ part = "chains" => chains!ReleasedOnce

\* When all requests are answered, the library of a room shows the files the
\* room has, but for those a failed deletion took away or an old answer brought
\* back; and a signature is attached to the file whose hash was signed.
FilesAgree ==
  /\ part = "shelf" => shelf!LibraryAgrees
  /\ part = "shelf" => shelf!SealsMatch

\* Devices, or disclosures, runs of a login, and hubs or rooms of calls are not
\* told apart.
Sym == Permutations(Devices) \cup Permutations(Flows) \cup Permutations(Hubs)
=============================================================================
