------------------------------- MODULE Unread -------------------------------
(***************************************************************************)
(* Whether a room of a hub has messages this user did not read: what the   *)
(* hub client computes of the live timeline, its read receipts and a cache *)
(* kept in the global client (unreadInfoCache.ts, Room.unreadState,        *)
(* localStoreClient.ts), while messages, receipts, the answer of the       *)
(* global client and the timers of the hub client come in any order.       *)
(*                                                                         *)
(* An event is its position in its room.  A receipt carries the time it    *)
(* was posted, which is the number of events there were.                   *)
(***************************************************************************)
EXTENDS Integers, Sequences, FiniteSetsExt

CONSTANTS
  Rooms,
  Horizon,                \* bound on the events of a room
  ListLimit, RoomLimit,   \* how many events the list and a subscription send
  MaxReloads              \* bound on reloads of the hub client

Kinds  == {"other", "own", "silent"}
NoInfo == [vis |-> 0, all |-> 0]
NoView == [from |-> 0, got |-> 0, rcpt |-> 0, reach |-> 0, opened |-> FALSE,
           marker |-> 0, seen |-> {}]

VARIABLES
  joined, history, receipt, \* the homeserver: members, events, private receipt
  view,         \* per room: the live timeline from..got of the SDK and the
                \* receipt it knows; how far back its TimelineManager reaches
                \* (0: there is no Room object); whether it is on screen, the
                \* read marker and the messages whose READ_DELAY_MS runs
  listed,       \* roomList
  shown,        \* unreadState of its rooms
  roomsLoaded,  \* initialRoomsLoaded
  aggregate,    \* unreadState of the hub, as the composable has it
  dirty,        \* the watcher of unreadCountVersion is to run
  tracking,     \* setupUnreadAggregateTracking was called
  cache,        \* unreadInfoCache.ts: cache
  saveTimer,    \* its saveTimeout
  store,        \* localStoreClient.ts: cache, for the key of the unread info
  ready,        \* its readyPromise
  queue,        \* those who await it, in order: "load", or what is to be saved
  disk,         \* the encrypted entry in the global client
  learnt,       \* what this session has computed (history variable)
  due,          \* what is to be saved (history variable)
  reloads

serverVars == <<joined, history, receipt>>
listVars   == <<listed, shown, roomsLoaded>>
cacheVars  == <<cache, saveTimer, learnt, due>>
storeVars  == <<store, ready, queue, disk>>
vars == <<serverVars, view, listVars, aggregate, dirty, tracking, cacheVars,
          storeVars, reloads>>

Newest(S) == Max(S \cup {0})
Sent(r, a, b, kinds) == {e \in 1 .. Len(history[r]) : e \in a .. b /\ history[r][e] \in kinds}

\* mergeStoredUnreadInfo: both numbers only advance.
Merge(a, b)   == [vis |-> Max({a.vis, b.vis}), all |-> Max({a.all, b.all})]
AtLeast(a, b) == a.vis >= b.vis /\ a.all >= b.all

(***************************************************************************)
(* Room.unreadState of room r with view v and stored information: the live *)
(* timeline of the SDK is v.from .. v.got, 0 standing for the creation of  *)
(* the room; a room that was opened has a timeline of its own, which may   *)
(* reach further back. Zero stands for what is undefined in the code.      *)
(***************************************************************************)
EffectiveReceipt(r, v) == Max({v.rcpt, Newest(Sent(r, v.from, v.got, {"own"}))})
LastVisible(r, v) ==
  Newest(Sent(r, v.from, v.got, {"other", "own"})
         \cup IF v.reach = 0 THEN {} ELSE Sent(r, v.reach, v.got, {"other", "own"}))

ComputeUnreadState(receiptTs, lastVisible, start, stored) ==
  CASE stored.all > 0 /\ stored.all >= start /\ lastVisible <= stored.all -> "read"
    [] OTHER -> IF lastVisible > 0
                THEN IF lastVisible > receiptTs THEN "unread" ELSE "read"
                ELSE IF start > receiptTs /\ stored.vis > receiptTs THEN "unread"
                     ELSE "read"

UnreadState(r, v, stored) ==
  ComputeUnreadState(EffectiveReceipt(r, v), LastVisible(r, v), v.from, stored)
Computed(r, v, stored) ==
  [vis |-> LastVisible(r, v),
   all |-> IF UnreadState(r, v, stored) = "read" THEN v.got ELSE 0]

\* worstUnreadState
Worst(states) == IF "unread" \in states THEN "unread"
                 ELSE IF "unknown" \in states THEN "unknown" ELSE "read"

\* updateStoredUnreadInfo for the rooms of S, whose views are v and what is
\* stored of them c: what was computed is merged into the cache and, when that
\* changes it, a save is scheduled.
UpdateStored(S, v, c) ==
  /\ cache' = [r \in Rooms |-> IF r \in S THEN Merge(c[r], Computed(r, v[r], c[r])) ELSE c[r]]
  /\ learnt' = [r \in Rooms |-> IF r \in S THEN Merge(learnt[r], Computed(r, v[r], c[r]))
                                           ELSE learnt[r]]
  /\ saveTimer' = (saveTimer \/ \E r \in S : cache'[r] # c[r])
  /\ due' = IF \E r \in S : cache'[r] # c[r] THEN cache' ELSE due

\* notifyUnreadCountChanged for the rooms of S.
Notify(S, v, c) ==
  /\ shown' = [r \in Rooms |-> IF r \in S THEN UnreadState(r, v[r], c[r]) ELSE shown[r]]
  /\ dirty' = TRUE
  /\ UpdateStored(S, v, c)

-----------------------------------------------------------------------------
Info == [vis : 0 .. Horizon, all : 0 .. Horizon]

TypeOK ==
  /\ joined \subseteq Rooms /\ listed \subseteq Rooms
  /\ history \in [Rooms -> UNION {[1 .. n -> Kinds] : n \in 0 .. Horizon}]
  /\ receipt \in [Rooms -> 0 .. Horizon]
  /\ \A r \in Rooms :
       /\ view[r].from <= view[r].got /\ view[r].got <= Len(history[r])
       /\ view[r].rcpt <= receipt[r] /\ view[r].marker <= view[r].got
       /\ view[r].seen \subseteq 1 .. view[r].got
  /\ shown \in [Rooms -> {"read", "unread", "unknown"}]
  /\ aggregate \in {"read", "unread", "unknown"}
  /\ {roomsLoaded, dirty, tracking, saveTimer} \subseteq BOOLEAN
  /\ {cache, store, disk, learnt, due} \subseteq [Rooms -> Info]
  /\ ready \in {"idle", "asked", "ready"} /\ reloads \in 0 .. MaxReloads
  /\ (queue # <<>> => ready = "asked")

Init ==
  /\ joined = Rooms /\ history = [r \in Rooms |-> <<>>] /\ receipt = [r \in Rooms |-> 0]
  /\ view = [r \in Rooms |-> NoView] /\ listed = {} /\ shown = [r \in Rooms |-> "unknown"]
  /\ roomsLoaded = FALSE /\ aggregate = "unknown" /\ dirty = FALSE /\ tracking = FALSE
  /\ cache = [r \in Rooms |-> NoInfo] /\ saveTimer = FALSE /\ learnt = cache /\ due = cache
  /\ store = cache /\ ready = "idle" /\ queue = <<>> /\ disk = cache
  /\ reloads = 0

\* Anybody sends to a room, this user from another device as well.
Send(r, k) ==
  /\ r \in joined /\ Len(history[r]) < Horizon
  /\ history' = [history EXCEPT ![r] = Append(@, k)]
  /\ UNCHANGED <<joined, receipt, view, listVars, aggregate, dirty, tracking, cacheVars,
                 storeVars, reloads>>

(***************************************************************************)
(* The SDK takes in what sliding sync delivers of a room: it adds to the   *)
(* live timeline, or starts it anew after a gap; the timeline reaches the  *)
(* creation of the room when everything was sent. RoomEvent.Timeline then  *)
(* fires, for rooms in the list.                                           *)
(***************************************************************************)
Delivered(r, limit) ==
  LET v == view[r]
      n == Len(history[r])
      start == IF n <= limit THEN 0 ELSE n - limit + 1
  IN  [v EXCEPT !.got = n,
                !.from = IF v.got > 0 /\ start <= v.got + 1 THEN Min({@, start}) ELSE start]
TimelineEvent(r, limit) ==
  /\ r \in joined /\ Len(history[r]) > 0 /\ Delivered(r, limit) # view[r]
  /\ view' = [view EXCEPT ![r] = Delivered(r, limit)]
  /\ Notify({r} \cap listed, view', cache)
  /\ UNCHANGED <<serverVars, listed, roomsLoaded, aggregate, tracking, storeVars, reloads>>

\* RoomEvent.Receipt, when it is about this user.
ReceiptEvent(r) ==
  /\ r \in joined /\ view[r].got > 0 /\ view[r].rcpt < receipt[r]
  /\ view' = [view EXCEPT ![r].rcpt = receipt[r]]
  /\ Notify({r} \cap listed, view', cache)
  /\ UNCHANGED <<serverVars, listed, roomsLoaded, aggregate, tracking, storeVars, reloads>>

(***************************************************************************)
(* handleLifecycleEvent on Complete: rooms are added to the list as        *)
(* unknown; the first time the rooms are loaded and every state computed.  *)
(***************************************************************************)
Complete ==
  LET known == {r \in joined : view[r].got > 0} IN
  /\ ~roomsLoaded \/ known # listed
  /\ ~roomsLoaded => known = {r \in joined : Len(history[r]) > 0}
  /\ listed' = known /\ roomsLoaded' = TRUE
  /\ IF roomsLoaded THEN UNCHANGED <<shown, dirty, cacheVars>>
     ELSE Notify(known, view, cache)
  /\ UNCHANGED <<serverVars, view, aggregate, tracking, storeVars, reloads>>

-----------------------------------------------------------------------------
\* The room is put on screen: it is subscribed to, its timeline filled, and
\* the read marker is where this session left it or at the receipt.
OpenRoom(r) ==
  /\ r \in listed /\ ~view[r].opened
  /\ view' = [view EXCEPT ![r] = [Delivered(r, RoomLimit) EXCEPT
                                    !.opened = TRUE,
                                    !.reach = IF @ > 0 THEN @ ELSE Max({1, view[r].from}),
                                    !.marker = Max({@, view[r].rcpt})]]
  /\ Notify({r}, view', cache)
  /\ UNCHANGED <<serverVars, listed, roomsLoaded, aggregate, tracking, storeVars, reloads>>

\* The user scrolls back, and older messages are loaded.
LoadOlder(r) ==
  /\ view[r].opened /\ view[r].reach > 1
  /\ view' = [view EXCEPT ![r].reach = @ - 1]
  /\ UNCHANGED <<serverVars, listVars, aggregate, dirty, tracking, cacheVars, storeVars,
                 reloads>>

\* handleVisibilityTracking: a message newer than the marker scrolls into
\* view, and a timer starts.
BecomesVisible(r, e) ==
  /\ view[r].opened /\ e \in Sent(r, view[r].reach, view[r].got, {"other", "own"})
  /\ e > view[r].marker /\ e \notin view[r].seen
  /\ view' = [view EXCEPT ![r].seen = @ \cup {e}]
  /\ UNCHANGED <<serverVars, listVars, aggregate, dirty, tracking, cacheVars, storeVars,
                 reloads>>

\* The timer ends: a message that is still in view and newer than the marker
\* moves it, and a receipt is posted; notifyUnreadCountChanged follows, before
\* or after the receipt has come back.
ReadDelayEnds(r, e, stillVisible) ==
  LET read == stillVisible /\ e > view[r].marker IN
  /\ e \in view[r].seen
  /\ view' = [view EXCEPT ![r].seen = @ \ {e},
                          ![r].marker = IF read THEN e ELSE @]
  /\ receipt' = IF read THEN [receipt EXCEPT ![r] = Len(history[r])] ELSE receipt
  /\ IF read THEN Notify({r} \cap listed, view', cache)
             ELSE UNCHANGED <<shown, dirty, cacheVars>>
  /\ UNCHANGED <<joined, history, listed, roomsLoaded, aggregate, tracking, storeVars,
                 reloads>>

\* onBeforeUnmount: the receipt of the last visible message is posted once more.
CloseRoom(r) ==
  /\ view[r].opened
  /\ view' = [view EXCEPT ![r].opened = FALSE, ![r].seen = {}]
  /\ receipt' = IF view[r].marker > 0 THEN [receipt EXCEPT ![r] = Len(history[r])] ELSE receipt
  /\ Notify({r} \cap listed, view', cache)
  /\ UNCHANGED <<joined, history, listed, roomsLoaded, aggregate, tracking, storeVars,
                 reloads>>

\* deleteRoomsWithMatrixRoom: the user left, or was removed.
LeaveRoom(r) ==
  /\ r \in listed
  /\ joined' = joined \ {r} /\ listed' = listed \ {r}
  /\ view' = [view EXCEPT ![r] = NoView]
  /\ learnt' = [learnt EXCEPT ![r] = NoInfo] /\ due' = [due EXCEPT ![r] = NoInfo]
  /\ UNCHANGED <<history, receipt, shown, roomsLoaded, aggregate, dirty, tracking, cache,
                 saveTimer, storeVars, reloads>>

-----------------------------------------------------------------------------
(***************************************************************************)
(* localStoreClient.ts: whenReady asks the global client once; all who     *)
(* need the store before the answer wait, and go on in the order they came.*)
(***************************************************************************)
AskOnly(who) == /\ ready' = ready /\ queue' = Append(queue, who)   \* slip: not remembered
Ask(who) == /\ ready' = "asked" /\ queue' = Append(queue, who)

\* loadUnreadInfoCache: what was stored is merged into what is known by now.
LoadedOver(stored) == stored     \* slip: what was stored replaces it
Loaded(stored) == [r \in Rooms |-> Merge(stored[r], cache[r])]

\* setupUnreadAggregateTracking, after the login: loadUnreadInfoCache.
Track ==
  /\ ~tracking /\ tracking' = TRUE /\ dirty' = TRUE
  /\ IF ready = "ready"
     THEN /\ Notify(listed, view, Loaded(store))
          /\ UNCHANGED <<ready, queue>>
     ELSE /\ Ask([what |-> "load"])
          /\ UNCHANGED <<shown, cacheVars>>
  /\ UNCHANGED <<serverVars, view, listed, roomsLoaded, aggregate, store, disk, reloads>>

\* saveCache: entries of rooms the user is no longer in are dropped, but not
\* before the rooms are loaded.
Kept == IF roomsLoaded
        THEN [r \in Rooms |-> IF view[r].got > 0 THEN cache[r] ELSE NoInfo]
        ELSE cache
SaveTimeout ==
  /\ saveTimer
  /\ saveTimer' = FALSE /\ cache' = Kept
  /\ IF ready = "ready"
     THEN store' = Kept /\ disk' = Kept /\ UNCHANGED <<ready, queue>>
     ELSE Ask([what |-> "save", info |-> Kept]) /\ UNCHANGED <<store, disk>>
  /\ UNCHANGED <<serverVars, view, listVars, aggregate, dirty, tracking, learnt, due, reloads>>

(***************************************************************************)
(* LocalStoreLoaded arrives, or LOAD_TIMEOUT_MS ends and the client goes   *)
(* on without: those who waited go on in turn. A save replaces the entry   *)
(* in the store and on disk; the load merges what it finds in the store    *)
(* into the cache, and every room of the list is computed again.           *)
(***************************************************************************)
FirstSave(i, found) ==   \* slip: the save that was asked for first is done last
  LET saves == {j \in 1 .. i - 1 : queue[j].what = "save"} IN
  IF saves = {} THEN found ELSE queue[Min(saves)].info
Before(i, found) ==    \* the store when the i-th of the queue has its turn
  LET saves == {j \in 1 .. i - 1 : queue[j].what = "save"} IN
  IF saves = {} THEN found ELSE queue[Max(saves)].info
Resume(found) ==
  LET loads == {i \in 1 .. Len(queue) : queue[i].what = "load"}
      saved == Before(Len(queue) + 1, found)
  IN  /\ ready = "asked" /\ ready' = "ready" /\ queue' = <<>>
      /\ store' = saved
      /\ disk' = IF \E i \in 1 .. Len(queue) : queue[i].what = "save" THEN saved ELSE disk
      /\ IF loads = {} THEN UNCHANGED <<shown, dirty, cacheVars>>
         ELSE Notify(listed, view, Loaded(Before(CHOOSE i \in loads : TRUE, found)))
      /\ UNCHANGED <<serverVars, view, listed, roomsLoaded, aggregate, tracking, reloads>>
LocalStoreLoaded == Resume(disk)
LoadTimesOut     == Resume(store)

\* The watcher of unreadCountVersion: fetchAggregateUnreadState.
RefreshAggregate ==
  /\ dirty /\ roomsLoaded /\ tracking
  /\ dirty' = FALSE
  /\ aggregate' = Worst({shown[r] : r \in listed})
  /\ UNCHANGED <<serverVars, view, listVars, tracking, cacheVars, storeVars, reloads>>

\* The hub client is loaded again; only the server and the disk remain.
Reload ==
  /\ reloads < MaxReloads /\ reloads' = reloads + 1
  /\ view' = [r \in Rooms |-> NoView] /\ listed' = {} /\ roomsLoaded' = FALSE
  /\ shown' = [r \in Rooms |-> "unknown"] /\ aggregate' = "unknown"
  /\ dirty' = FALSE /\ tracking' = FALSE
  /\ cache' = [r \in Rooms |-> NoInfo] /\ learnt' = cache' /\ due' = cache'
  /\ saveTimer' = FALSE /\ store' = cache' /\ ready' = "idle" /\ queue' = <<>>
  /\ UNCHANGED <<serverVars, disk>>

Next ==
  \/ \E r \in Rooms, k \in Kinds : Send(r, k)
  \/ \E r \in Rooms, limit \in {ListLimit, RoomLimit} : TimelineEvent(r, limit)
  \/ \E r \in Rooms : ReceiptEvent(r) \/ OpenRoom(r) \/ LoadOlder(r) \/ CloseRoom(r) \/ LeaveRoom(r)
  \/ \E r \in Rooms, e \in 1 .. Horizon :
       BecomesVisible(r, e) \/ \E still \in BOOLEAN : ReadDelayEnds(r, e, still)
  \/ Complete \/ Track \/ SaveTimeout \/ LocalStoreLoaded \/ LoadTimesOut
  \/ RefreshAggregate \/ Reload

Spec == Init /\ [][Next]_vars

-----------------------------------------------------------------------------
(***************************************************************************)
(* What this session has computed of a room the user is in is still in the *)
(* cache, whenever the stored information arrives and however often it is  *)
(* saved (loadUnreadInfoCache merges, saveCache drops only rooms left).    *)
(***************************************************************************)
KeepsKnowledge == \A r \in listed : AtLeast(cache[r], learnt[r])

(***************************************************************************)
(* When no save is scheduled or waiting for the first load, the disk of the*)
(* global client has all that any save was scheduled for.                  *)
(***************************************************************************)
SavedWhatWasDue ==
  ~saveTimer /\ queue = <<>> => \A r \in listed : AtLeast(disk[r], due[r])

(***************************************************************************)
(* unreadInfoCache.ts has it that lastReadAllTs is a moment "at which we   *)
(* knew that ALL events up to and including that moment were read".        *)
(***************************************************************************)
ReadAllIsTrue ==
  \A r \in joined : \A e \in Sent(r, 1, cache[r].all, {"other"}) :
    \/ e <= receipt[r]
    \/ \E o \in Sent(r, e, Len(history[r]), {"own"}) : TRUE

(***************************************************************************)
(* unreadInfoCache.ts has it of lastReadAllTs: "Once set, only ever        *)
(* advances."                                                              *)
(***************************************************************************)
OnlyAdvances ==
  [][\A r \in joined \cap joined' : disk'[r].all >= disk[r].all]_vars
=============================================================================
