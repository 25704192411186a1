------------------------------- MODULE Frames -------------------------------
(***************************************************************************)
(* The windows of the client: the global client, the frame that shows the  *)
(* hub the user is in, and a miniclient for every pinned hub, which talk   *)
(* by window.postMessage (messagebox.ts, hubs.ts, Hub.vue, HubMenu.vue on  *)
(* the one side; App.vue, Miniclient.vue, authentication.ts,               *)
(* localStoreClient.ts on the other).                                      *)
(* One listener per visit stays attached for the one frame id that all     *)
(* hubs share, and the document of the hub that the user leaves goes on    *)
(* until that of the next one has come in.                                 *)
(***************************************************************************)
EXTENDS Integers, Sequences, FiniteSets

CONSTANTS Hubs, NoHub,
          MaxVisits,  \* bound on the hubs that are entered
          MaxMail,    \* bound on the messages under way to the global client
          MaxToggles  \* bound on what users do inside a hub

VARIABLES
  current,   \* hubs.ts: currentHubId
  pins,      \* global.ts: pinnedHubs, with whose token each of them has
  canBack,   \* global.ts: hubCanGoBack
  listeners, \* messagebox.ts: hubs whose listener for the hub frame is attached
  latest,    \* the last of them, which _windowMessageListener knows
  ready,     \* handshake.get(iframeHubId) is Ready
  handlers,  \* the hub for which callbacks.get(iframeHubId) were made
  waiting,   \* hubs for which a changeHub awaits startCommunication
  src, doc,  \* the hub frame: its src, and the document that runs in it
  mail,      \* messages on their way to the global client
  mini,      \* mini[h]: hubActive of the miniclient of h
  told,      \* told[h]: messages HubActive on their way to that miniclient
  store,     \* store[h]: hubs whose data are in the local store of h
  visits, toggles

parentVars == <<current, pins, canBack, listeners, latest, ready, handlers, waiting, store>>
frameVars  == <<src, doc>>
miniVars   == <<mini, told>>
vars == <<parentVars, frameVars, mail, miniVars, visits, toggles>>

NoDoc   == [hub |-> NoHub, phase |-> "none", fresh |-> FALSE, back |-> FALSE]
NoPin   == [on |-> FALSE, token |-> NoHub]
Unknown == "undefined"

TypeOK ==
  /\ current \in Hubs \cup {NoHub} /\ handlers \in Hubs \cup {NoHub}
  /\ pins \in [Hubs -> [on : BOOLEAN, token : Hubs \cup {NoHub}]]
  /\ canBack \in BOOLEAN /\ ready \in BOOLEAN
  /\ listeners \subseteq Hubs /\ waiting \subseteq Hubs /\ latest \in Hubs \cup {NoHub}
  /\ \A h \in {src.hub, doc.hub} : h \in Hubs \cup {NoHub}
  /\ doc.phase \in {"none", "loading", "started", "ready"}
  /\ current # NoHub => current \in listeners
  /\ Len(mail) <= MaxMail + 2
  /\ mini \in [Hubs -> {"absent", Unknown, "linked", "independent"}]
  /\ \A h \in Hubs : Len(told[h]) <= 2 * MaxVisits + 1
  /\ store \in [Hubs -> SUBSET Hubs]

\* Some hubs are pinned; the user is at home.
Init ==
  /\ current = NoHub /\ canBack = FALSE
  /\ pins \in [Hubs -> {NoPin} \cup {[on |-> TRUE, token |-> NoHub]}]
  /\ mini = [h \in Hubs |-> IF pins[h].on THEN "independent" ELSE "absent"]
  /\ told = [h \in Hubs |-> <<>>]
  /\ listeners = {} /\ latest = NoHub /\ ready = FALSE /\ handlers = NoHub /\ waiting = {}
  /\ src = NoDoc /\ doc = NoDoc /\ mail = <<>>
  /\ store = [h \in Hubs |-> {}]
  /\ visits = 0 /\ toggles = 0

-----------------------------------------------------------------------------
\* resolveTarget, sendMessage: a miniclient that there is gets the message.
Tell(hs, active) ==
  told' = [h \in Hubs |-> IF h \in hs /\ mini[h] # "absent" THEN Append(told[h], active) ELSE told[h]]

\* handleHubAuth, hubloggedinstatus: the frame gets the token that is stored
\* for the hub, or a new one when there is none.
HubAuth(h) == [hub |-> h, phase |-> "loading", fresh |-> pins[h].token = NoHub, back |-> FALSE]

\* Hub.vue, onRouteChange; then changeHub up to the await of startCommunication.
EnterHub(h) ==
  /\ visits < MaxVisits /\ visits' = visits + 1 /\ h # current
  /\ src' = HubAuth(h)
  /\ Tell({current} \ {NoHub}, FALSE)
  /\ current' = h
  /\ pins' = [pins EXCEPT ![h].on = TRUE]
  /\ canBack' = FALSE
  /\ listeners' = listeners \cup {h} /\ latest' = h
  /\ waiting' = waiting \cup {h}
  /\ UNCHANGED <<ready, handlers, store, doc, mail, mini, toggles>>

\* Hub.vue: onUnmounted; changeHub without a hub, resetCurrentHub.
LeaveHub ==
  /\ current # NoHub /\ current' = NoHub
  /\ Tell({current}, FALSE)
  /\ listeners' = listeners \ {latest} /\ latest' = NoHub
  /\ ready' = FALSE /\ handlers' = NoHub
  /\ src' = NoDoc /\ doc' = NoDoc
  /\ UNCHANGED <<pins, canBack, waiting, store, mail, mini, visits, toggles>>

\* The document of the src comes in, in place of the one before.
Loaded ==
  /\ src # NoDoc /\ src # doc /\ doc' = src /\ src' = [src EXCEPT !.phase = "in"]
  /\ src.phase = "loading"
  /\ UNCHANGED <<parentVars, mail, miniVars, visits, toggles>>

-----------------------------------------------------------------------------
Post(type) == Len(mail) < MaxMail /\ mail' = Append(mail, [from |-> doc.hub, type |-> type, back |-> doc'.back])

\* App.vue, startMessageBox: messagebox.init and the Sync of startCommunication.
StartMessageBox ==
  /\ doc.phase = "loading" /\ doc' = [doc EXCEPT !.phase = "started"] /\ Post("sync")
  /\ UNCHANGED <<parentVars, src, miniVars, visits, toggles>>

\* (slip: nothing is said of it)
SaysNothing == mail' = mail
\* Settings have come: the hub tells whether it has something to close.
SaysBackState == Post("back")

\* pubhubs.login, which stores a new token, has its own message.
Connected ==
  /\ doc.phase = "started" /\ doc.hub = latest /\ ready /\ [from |-> doc.hub, type |-> "sync", back |-> FALSE] \notin {mail[i] : i \in DOMAIN mail}
  /\ doc' = [doc EXCEPT !.phase = "ready"] /\ SaysBackState
  /\ UNCHANGED <<parentVars, src, miniVars, visits, toggles>>

\* _storeAccessTokenAndUserId, at the first login with a token.
StoreAccessToken ==
  /\ doc.phase = "ready" /\ doc.fresh /\ doc' = [doc EXCEPT !.fresh = FALSE] /\ Post("auth")
  /\ UNCHANGED <<parentVars, src, miniVars, visits, toggles>>

\* watch(canGoBack): a sidebar or a forum post is opened or closed.
ToggleSidebar ==
  /\ doc.phase = "ready" /\ toggles < MaxToggles /\ toggles' = toggles + 1
  /\ doc' = [doc EXCEPT !.back = ~@] /\ Post("back")
  /\ UNCHANGED <<parentVars, src, miniVars, visits>>

\* setLocalStoreItem, and the aggregate state of a hub that has unread rooms.
UpdateLocalStore ==
  /\ doc.phase = "ready" /\ toggles < MaxToggles /\ toggles' = toggles + 1
  /\ doc' = doc /\ Post("update")
  /\ UNCHANGED <<parentVars, src, miniVars, visits>>

\* _clearAuth: the session is no longer valid.
ClearAuth ==
  /\ doc.phase = "ready" /\ toggles < MaxToggles /\ toggles' = toggles + 1
  /\ doc' = doc /\ Post("remove")
  /\ UNCHANGED <<parentVars, src, miniVars, visits>>

-----------------------------------------------------------------------------
\* The rest of changeHub(h), for every call that awaited it: the callbacks for
\* the frame are those of h now, and its miniclient is told that h is active.
Continue(h) ==
  /\ waiting' = waiting \ {h}
  /\ IF h \in waiting
     THEN handlers' = h /\ Tell({h}, TRUE)
     ELSE UNCHANGED handlers /\ Tell({}, TRUE)

\* (slip: the hub that the message claims is not compared)
Unverified(h) == current # NoHub
\* resolveVerifiedStore
Verified(h) == current # NoHub /\ h = current

\* receivedMessage, and the callbacks that hubs.ts has set.
HandleMessage(m) ==
  /\ canBack' = IF m.type = "back" THEN m.back ELSE canBack
  /\ pins' = IF m.type = "auth" /\ current # NoHub THEN [pins EXCEPT ![current].token = m.from] ELSE pins
  /\ store' = IF m.type = "update" /\ Verified(m.from)
              THEN [store EXCEPT ![current] = @ \cup {m.from}] ELSE store

Heard(m) == m.from \in listeners /\ ready /\ handlers # NoHub

\* RemoveAccessToken: the token of the hub that is current goes, the settings
\* are saved and the page is loaded again.
RemoveAccessToken ==
  /\ mail # <<>> /\ Head(mail).type = "remove" /\ Heard(Head(mail))
  /\ pins' = [pins EXCEPT ![current].token = NoHub]
  /\ current' = NoHub /\ canBack' = FALSE /\ src' = NoDoc /\ doc' = NoDoc
  /\ listeners' = {} /\ latest' = NoHub /\ ready' = FALSE /\ handlers' = NoHub /\ waiting' = {}
  /\ mail' = <<>> /\ mini' = [h \in Hubs |-> "absent"] /\ told' = [h \in Hubs |-> <<>>]
  /\ UNCHANGED <<store, visits, toggles>>

\* A message that no listener is for, or that comes before the handshake, is
\* dropped; the listener of a hub that was left is still there.
Receive ==
  /\ mail # <<>> /\ ~(Head(mail).type = "remove" /\ Heard(Head(mail)))
  /\ LET m == Head(mail) IN
     IF m.from \notin listeners THEN UNCHANGED <<parentVars, told>>
     ELSE IF m.type = "sync"
     THEN /\ ready' = TRUE /\ Continue(m.from)
          /\ UNCHANGED <<current, pins, canBack, listeners, latest, store>>
     ELSE /\ IF Heard(m) THEN HandleMessage(m) ELSE UNCHANGED <<canBack, pins, store>>
          /\ UNCHANGED <<current, listeners, latest, ready, handlers, waiting, told>>
  /\ mail' = Tail(mail)
  /\ UNCHANGED <<frameVars, mini, visits, toggles>>

-----------------------------------------------------------------------------
\* HubMenuHubIcon.vue, setupMiniclient: the icon of a pinned hub has a
\* miniclient, which is told after its handshake whether the hub is active.
SetupMiniclient(h) ==
  /\ pins[h].on /\ mini[h] = "absent" /\ mini' = [mini EXCEPT ![h] = Unknown]
  /\ told' = [told EXCEPT ![h] = <<current = h>>]
  /\ UNCHANGED <<parentVars, frameVars, mail, visits, toggles>>

\* Miniclient.vue: HubActive mounts MiniclientLinked or MiniclientIndependent.
HubActive(h) ==
  /\ told[h] # <<>>
  /\ mini' = [mini EXCEPT ![h] = IF Head(told[h]) THEN "linked" ELSE "independent"]
  /\ told' = [told EXCEPT ![h] = Tail(@)]
  /\ UNCHANGED <<parentVars, frameVars, mail, visits, toggles>>

\* No answer within two seconds.
Fallback(h) ==
  /\ mini[h] = Unknown /\ mini' = [mini EXCEPT ![h] = "independent"]
  /\ UNCHANGED <<parentVars, frameVars, mail, told, visits, toggles>>

\* unpinHub, confirmationHubRemoval: not for the hub that is shown.
UnpinHub(h) ==
  /\ pins[h].on /\ h # current
  /\ pins' = [pins EXCEPT ![h] = NoPin]
  /\ mini' = [mini EXCEPT ![h] = "absent"] /\ told' = [told EXCEPT ![h] = <<>>]
  /\ UNCHANGED <<current, canBack, listeners, latest, ready, handlers, waiting, store, frameVars, mail, visits, toggles>>

Next ==
  \/ \E h \in Hubs : EnterHub(h) \/ SetupMiniclient(h) \/ HubActive(h) \/ Fallback(h) \/ UnpinHub(h)
  \/ LeaveHub \/ Loaded \/ StartMessageBox \/ Connected \/ StoreAccessToken
  \/ ToggleSidebar \/ UpdateLocalStore \/ ClearAuth \/ RemoveAccessToken \/ Receive

Spec == Init /\ [][Next]_vars

-----------------------------------------------------------------------------
\* resolveVerifiedStore: however late a message of a hub that was left comes
\* in, the local store of a hub holds the data of that hub's client only.
StoreOfHub == \A h \in Hubs : store[h] \subseteq {h}

Quiet == mail = <<>> /\ \A h \in Hubs : told[h] = <<>>

\* hubs.ts:189: "a stale true from the previous hub would lock the horizontal
\* scroll with no way left to unlock it". Once a hub is connected and has been
\* heard, hubCanGoBack is what that hub has.
BackStateTold ==
  Quiet /\ doc.phase = "ready" /\ src.phase = "in" /\ handlers = doc.hub => canBack = doc.back

\* MiniclientLinked.vue: "Used when this hub is the currently-active hub"; with
\* nothing under way no other miniclient waits for a hub that does not speak.
LinkedIsActive == Quiet => \A h \in Hubs : mini[h] = "linked" => h = current

\* hubs.ts: "guards against messages arriving in-flight from a previous iframe":
\* the token that is stored for a hub is one of that hub.
TokenOfHub == \A h \in Hubs : pins[h].token \in {NoHub, h}
=============================================================================
