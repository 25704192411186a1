----------------------------- MODULE RoomEntry -----------------------------
(***************************************************************************)
(* Entering and leaving the rooms of a hub: the page of a room, whose      *)
(* update() opens the room it is routed to (Room.vue), the lists of rooms  *)
(* it reads (stores/rooms.ts), sliding sync, which fills them              *)
(* (matrix.service.ts), the calls that join and leave (stores/pubhubs.ts), *)
(* and the one dialog that all of them share (stores/dialog.ts).           *)
(***************************************************************************)
EXTENDS Integers, Sequences, FiniteSets

CONSTANTS
  Rooms,
  Secured,      \* the rooms that ask for a disclosure
  NoRoom,       \* currentRoomId = ''
  MaxVisits,    \* how often the user goes to the page of a room
  MaxMoves,     \* how often others remove the user, and the user leaves
  MaxAnswers    \* how many answers of sliding sync are modelled

VARIABLES
  member,    \* the server: this user's membership of a room
  admitted,  \* the secured rooms that a disclosure has opened
  lastSent,  \* the membership that sliding sync has told this client last
  response,  \* its answer under way: what it says of each room
  sdk,       \* the membership that the SDK knows of
  roomsLoaded, list, store, current,   \* rooms.ts: roomList, rooms, currentRoomId
  route,     \* a room, NoRoom for a page without one, or "error"
  page,      \* the page of a room that is mounted, see NoPage
  tasks,     \* the calls of update(), oldest first
  ops,       \* joinRoom and leaveRoom under way outside update()
  dialog,    \* the dialog on screen
  callback,  \* dialog.callbacks[DialogOk]: the room that handleKick is about
  asked,     \* the rooms that the user has asked to leave (at most once each)
  removals, answers

serverVars == <<member, admitted, lastSent, response>>
storeVars  == <<sdk, roomsLoaded, list, store>>
pageVars   == <<route, page, tasks>>
askVars    == <<dialog, callback>>
bounds     == <<asked, removals, answers>>
vars == <<serverVars, storeVars, current, pageVars, ops, askVars, bounds>>

NoPage   == [inst |-> 0, loading |-> FALSE, joinDialog |-> NoRoom]
NoDialog == [what |-> "none", room |-> NoRoom]
NoAnswer == [r \in Rooms |-> "absent"]
Member(r) == member[r] = "join"

(***************************************************************************)
(* props.id of a page follows the route while the page is mounted, and     *)
(* stays what it was afterwards: it is the room of the last visit to it.   *)
(* A call of update() is stale when the same page has made another one.    *)
(***************************************************************************)
SamePage(k)  == {j \in 1 .. Len(tasks) : tasks[j].inst = tasks[k].inst}
LastOf(S)    == CHOOSE j \in S : \A i \in S : i <= j
PropsId(k)   == tasks[LastOf(SamePage(k))].room
Stale(k)     == LastOf(SamePage(k)) # k
Running(k)   == tasks[k].pc \notin {"done", "stopped"}

\* joinRoom of the server: a banned user is refused, and a secured room that
\* was not opened by a disclosure is.
MayJoin(r) == member[r] # "ban" /\ (r \in Secured => r \in admitted)

\* What the page shows: nothing while there is no current room, a spinner, or
\* the room of the route.
Screen == CASE page.inst = 0         -> "elsewhere"
            [] current \notin store  -> "empty"
            [] page.loading          -> "spinner"
            [] OTHER                 -> "room"

-----------------------------------------------------------------------------
TypeOK ==
  /\ member \in [Rooms -> {"out", "join", "kicked", "ban"}]
  /\ lastSent \in [Rooms -> {"out", "join", "kicked", "ban"}]
  /\ admitted \subseteq Secured
  /\ response \in [Rooms -> {"absent", "quiet", "out", "join", "kicked", "ban"}]
  /\ sdk \in [Rooms -> {"absent", "out", "join", "kicked", "ban"}]
  /\ roomsLoaded \in BOOLEAN
  /\ list \subseteq Rooms /\ store \subseteq Rooms
  /\ current \in Rooms \cup {NoRoom} /\ route \in Rooms \cup {NoRoom, "error"}
  /\ page \in [inst : 0 .. MaxVisits, loading : BOOLEAN, joinDialog : Rooms \cup {NoRoom}]
  /\ (page.inst # 0) = (route \in Rooms)
  /\ tasks \in Seq([inst : 1 .. MaxVisits, room : Rooms,
       pc : {"loaded", "member", "list", "join", "names", "listed", "public",
             "join public", "names public", "end", "done", "stopped"}])
  /\ ops \subseteq [kind : {"join", "leave"}, room : Rooms, pc : {"call", "after"}]
  /\ dialog \in [what : {"none", "kick", "leave"}, room : Rooms \cup {NoRoom}]
  /\ callback \in Rooms \cup {NoRoom}
  /\ asked \subseteq Rooms /\ removals \in 0 .. MaxMoves /\ answers \in 0 .. MaxAnswers

Init ==
  /\ member \in [Rooms -> {"out", "join"}] /\ admitted = {}
  /\ lastSent = [r \in Rooms |-> "out"] /\ response = NoAnswer
  /\ sdk = [r \in Rooms |-> "absent"] /\ roomsLoaded = FALSE
  /\ list = {} /\ store = {} /\ current = NoRoom
  /\ route = NoRoom /\ page = NoPage /\ tasks = <<>> /\ ops = {}
  /\ dialog = NoDialog /\ callback = NoRoom /\ asked = {} /\ removals = 0 /\ answers = 0

\* A moderator removes the user from a room, or bans the user.
Remove(r, how) ==
  /\ removals + Cardinality(asked) < MaxMoves /\ Member(r)
  /\ removals' = removals + 1
  /\ member' = [member EXCEPT ![r] = how] /\ admitted' = admitted \ {r}
  /\ UNCHANGED <<lastSent, response, storeVars, current, pageVars, ops, askVars, asked, answers>>

(***************************************************************************)
(* Sliding sync answers: a room whose membership has changed comes with    *)
(* it, another room only when something was sent to it, without it.        *)
(***************************************************************************)
SyncAnswers(busy) ==
  /\ answers < MaxAnswers /\ response = NoAnswer
  /\ response' = [r \in Rooms |-> IF member[r] # lastSent[r] THEN member[r]
                                  ELSE IF Member(r) /\ r \in busy THEN "quiet" ELSE "absent"]
  /\ response' # NoAnswer \/ ~roomsLoaded
  /\ lastSent' = member /\ answers' = answers + 1
  /\ IF response' = NoAnswer THEN roomsLoaded' = TRUE ELSE UNCHANGED roomsLoaded
  /\ UNCHANGED <<member, admitted, sdk, list, store, current, pageVars, ops, askVars, asked, removals>>

\* updateRoomList: the room is added unless it is there.
UpdateRoomList(S) == list' = list \cup S

\* handleLifecycleEvent, on Complete: rooms that were left are skipped; rooms
\* that this client has opened and is told to be joined to are there already.
Complete ==
  LET out == {r \in Rooms : response[r] \in {"out", "kicked", "ban"}}
      in  == {r \in Rooms : response[r] \in {"join", "quiet"}}
  IN  /\ response # NoAnswer
      /\ response' = NoAnswer
      /\ sdk' = [r \in Rooms |-> IF response[r] = "quiet" THEN "join"
                                 ELSE IF response[r] = "absent" THEN sdk[r] ELSE response[r]]
      /\ UpdateRoomList({r \in in : ~(r \in store /\ response[r] = "join")} \ out)
      /\ roomsLoaded' = TRUE
      /\ UNCHANGED <<member, admitted, lastSent, store, current, pageVars, ops, askVars, bounds>>

-----------------------------------------------------------------------------
(***************************************************************************)
(* update(): a room that was opened before, or that the SDK knows this user*)
(* to be in, is shown at once; for another one it waits for the list.      *)
(***************************************************************************)
EnsureRoomFromSdk(r) == sdk[r] = "join"
FastPathKeepsSpinner(r, p) == current' = r /\ page' = p   \* slip: isLoading is left as it was
FastPathShowsOld(r, p) == UNCHANGED current /\ page' = [p EXCEPT !.loading = FALSE]   \* slip
FastPath(r, p) == current' = r /\ page' = [p EXCEPT !.loading = FALSE]

Visit(r) ==
  LET fresh == page.inst = 0
      inst  == IF fresh THEN 1 + Cardinality({tasks[k].inst : k \in DOMAIN tasks}) ELSE page.inst
      p     == IF fresh THEN [NoPage EXCEPT !.inst = inst, !.loading = r \notin store] ELSE page
  IN  /\ Len(tasks) < MaxVisits /\ route # r
      /\ route' = r
      /\ IF r \in store \/ EnsureRoomFromSdk(r)
         THEN /\ tasks' = Append(tasks, [inst |-> inst, room |-> r, pc |-> "done"])
              /\ store' = store \cup {r}
              /\ FastPath(r, p)
         ELSE /\ tasks' = Append(tasks, [inst |-> inst, room |-> r, pc |-> "loaded"])
              /\ page' = [p EXCEPT !.loading = TRUE]
              /\ UNCHANGED <<store, current>>
      /\ UNCHANGED <<serverVars, sdk, roomsLoaded, list, ops, askVars, bounds>>

\* The page is left; what update() was doing there goes on.
UnmountLate(to) == route' = to /\ UNCHANGED page   \* slip: the page stays
Unmount(to) == route' = to /\ page' = NoPage
GoHome ==
  /\ page.inst # 0 /\ Unmount(NoRoom)
  /\ UNCHANGED <<serverVars, storeVars, current, tasks, ops, askVars, bounds>>

Goto(k, pc) == tasks' = [tasks EXCEPT ![k].pc = pc]
\* update() returns, and isLoading is reset unless it was superseded.
Completed(k) ==
  /\ Goto(k, "done")
  /\ page' = IF tasks[k].inst = page.inst THEN [page EXCEPT !.loading = FALSE] ELSE page

\* waitForInitialRoomsLoaded
ListIsLoaded(k) ==
  /\ tasks[k].pc = "loaded" /\ roomsLoaded
  /\ Goto(k, IF Stale(k) THEN "stopped" ELSE "member")
  /\ UNCHANGED <<serverVars, storeVars, current, route, page, ops, askVars, bounds>>

\* isUserRoomMember is answered; a room the user is not in becomes current.
MemberKnown(k) ==
  /\ tasks[k].pc = "member"
  /\ Goto(k, IF Stale(k) THEN "stopped" ELSE IF Member(PropsId(k)) THEN "list" ELSE "public")
  /\ current' = IF Stale(k) \/ Member(PropsId(k)) THEN current ELSE PropsId(k)
  /\ UNCHANGED <<serverVars, storeVars, route, page, ops, askVars, bounds>>

\* joinRoomListRoom: asks once more, unless the room was opened meanwhile.
StillMember(k) ==
  /\ tasks[k].pc = "list"
  /\ Goto(k, IF PropsId(k) \in store \/ ~Member(PropsId(k)) THEN "listed" ELSE "join")
  /\ UNCHANGED <<serverVars, storeVars, current, route, page, ops, askVars, bounds>>

(***************************************************************************)
(* joinRoom of pubhubs.ts. The SDK asks the server unless it knows the user*)
(* to be in the room; then the names of the public rooms are awaited, and  *)
(* the room is put in the store and the list. A failure shows the error    *)
(* page, and the caller goes on.                                           *)
(***************************************************************************)
JoinOnServer(r) ==
  member' = IF sdk[r] = "join" THEN member ELSE [member EXCEPT ![r] = "join"]
JoinUnlisted(r) == store' = store \cup {r} /\ UNCHANGED list   \* slip: no updateRoomList
JoinReturns(r) == store' = store \cup {r} /\ UpdateRoomList({r})

TaskJoins(k) ==
  LET r == PropsId(k) IN
  /\ tasks[k].pc \in {"join", "join public"}
  /\ IF sdk[r] = "join" \/ MayJoin(r) \/ Member(r)
     THEN /\ JoinOnServer(r)
          /\ Goto(k, IF tasks[k].pc = "join" THEN "names" ELSE "names public")
          /\ UNCHANGED <<route, page>>
     ELSE /\ Goto(k, IF tasks[k].pc = "join" THEN "listed" ELSE "end")
          /\ Unmount("error") /\ UNCHANGED member
  /\ UNCHANGED <<admitted, lastSent, response, storeVars, current, ops, askVars, bounds>>

TaskJoined(k) ==
  /\ tasks[k].pc \in {"names", "names public"}
  /\ JoinReturns(PropsId(k))
  /\ Goto(k, IF tasks[k].pc = "names" THEN "listed" ELSE "end")
  /\ UNCHANGED <<serverVars, sdk, roomsLoaded, current, route, page, ops, askVars, bounds>>

\* After joinRoomListRoom the room becomes the current one.
Listed(k) ==
  /\ tasks[k].pc = "listed"
  /\ Goto(k, IF Stale(k) THEN "stopped" ELSE "end")
  /\ current' = IF Stale(k) THEN current ELSE PropsId(k)
  /\ UNCHANGED <<serverVars, storeVars, route, page, ops, askVars, bounds>>

\* After fetchPublicRooms: a secured room is not joined but asks for a
\* disclosure.
PublicKnown(k) ==
  /\ tasks[k].pc = "public"
  /\ IF Stale(k) THEN Goto(k, "stopped") /\ UNCHANGED page
     ELSE IF PropsId(k) \in Secured
     THEN /\ Goto(k, "done")
          /\ page' = IF tasks[k].inst = page.inst
                     THEN [page EXCEPT !.loading = FALSE, !.joinDialog = PropsId(k)] ELSE page
     ELSE Goto(k, "join public") /\ UNCHANGED page
  /\ UNCHANGED <<serverVars, storeVars, current, route, ops, askVars, bounds>>

\* The end: without a current room at once, else after fetchPublicRooms.
UpdateEnds(k) ==
  /\ tasks[k].pc = "end"
  /\ IF current \in store /\ Stale(k) THEN Goto(k, "stopped") /\ UNCHANGED page ELSE Completed(k)
  /\ UNCHANGED <<serverVars, storeVars, current, route, ops, askVars, bounds>>

-----------------------------------------------------------------------------
\* The dialog of a secured room: the user discloses what it asks for, and the
\* room is joined; or closes it.
Disclose ==
  /\ page.joinDialog # NoRoom
  /\ admitted' = admitted \cup {page.joinDialog}
  /\ page' = [page EXCEPT !.joinDialog = NoRoom]
  /\ ops' = ops \cup {[kind |-> "join", room |-> page.joinDialog, pc |-> "call"]}
  /\ UNCHANGED <<member, lastSent, response, storeVars, current, route, tasks, askVars, bounds>>
CloseJoinDialog ==
  /\ page.joinDialog # NoRoom
  /\ page' = [page EXCEPT !.joinDialog = NoRoom]
  /\ UNCHANGED <<serverVars, storeVars, current, route, tasks, ops, askVars, bounds>>

OpStep(o, pc) == ops' = (ops \ {o}) \cup {[o EXCEPT !.pc = pc]}
Joins(o) ==
  /\ o \in ops /\ o.kind = "join" /\ o.pc = "call"
  /\ IF sdk[o.room] = "join" \/ MayJoin(o.room) \/ Member(o.room)
     THEN JoinOnServer(o.room) /\ OpStep(o, "after") /\ UNCHANGED <<route, page>>
     ELSE ops' = ops \ {o} /\ Unmount("error") /\ UNCHANGED member
  /\ UNCHANGED <<admitted, lastSent, response, storeVars, current, tasks, askVars, bounds>>
Joined(o) ==
  /\ o \in ops /\ o.kind = "join" /\ o.pc = "after"
  /\ JoinReturns(o.room) /\ ops' = ops \ {o}
  /\ UNCHANGED <<serverVars, sdk, roomsLoaded, current, pageVars, askVars, bounds>>

(***************************************************************************)
(* leaveRoom of RoomList.vue: after a dialog the server is told, then the  *)
(* room is dropped from the lists; its page, if shown, is left.            *)
(***************************************************************************)
AskToLeave(r) ==
  /\ removals + Cardinality(asked) < MaxMoves /\ r \in list \ asked /\ dialog = NoDialog
  /\ asked' = asked \cup {r}
  /\ dialog' = [what |-> "leave", room |-> r]
  /\ UNCHANGED <<serverVars, storeVars, current, pageVars, ops, callback, removals, answers>>
Leaves(o) ==
  /\ o \in ops /\ o.kind = "leave" /\ o.pc = "call"
  /\ member' = [member EXCEPT ![o.room] = IF @ = "join" THEN "out" ELSE @]
  /\ admitted' = admitted \ {o.room}
  /\ OpStep(o, "after")
  /\ UNCHANGED <<lastSent, response, storeVars, current, pageVars, askVars, bounds>>
Left(o) ==
  /\ o \in ops /\ o.kind = "leave" /\ o.pc = "after"
  /\ store' = store \ {o.room} /\ list' = list \ {o.room}
  /\ current' = IF current = o.room THEN NoRoom ELSE current
  /\ IF route = o.room THEN Unmount(NoRoom) ELSE UNCHANGED <<route, page>>
  /\ ops' = ops \ {o}
  /\ UNCHANGED <<serverVars, sdk, roomsLoaded, tasks, askVars, bounds>>

\* The watchEffect of the page: the user was removed from the current room.
Removed ==
  /\ page.inst # 0 /\ current \in store /\ sdk[current] \in {"kicked", "ban"}
  /\ IF sdk[current] = "ban"
     THEN Unmount("error") /\ UNCHANGED askVars
     ELSE /\ Unmount(NoRoom)
          /\ dialog' = [what |-> "kick", room |-> current] /\ callback' = current
  /\ UNCHANGED <<serverVars, storeVars, current, tasks, ops, bounds>>

(***************************************************************************)
(* dialog.close: the callback on record for the answer is called, and who  *)
(* awaits the dialog is answered. That of handleKick removes itself and    *)
(* joins the room again (its way back to the page is a Visit).             *)
(***************************************************************************)
AnswerYes ==
  /\ dialog # NoDialog /\ dialog' = NoDialog
  /\ ops' = ops \cup (IF callback = NoRoom THEN {}
                      ELSE {[kind |-> "join", room |-> callback, pc |-> "call"]})
                \cup (IF dialog.what # "leave" THEN {}
                      ELSE {[kind |-> "leave", room |-> dialog.room, pc |-> "call"]})
  /\ callback' = NoRoom
  /\ UNCHANGED <<serverVars, storeVars, current, pageVars, bounds>>
AnswerNo ==
  /\ dialog # NoDialog /\ dialog' = NoDialog
  /\ UNCHANGED <<serverVars, storeVars, current, pageVars, ops, callback, bounds>>

Next ==
  \/ \E r \in Rooms : Visit(r) \/ AskToLeave(r) \/ \E how \in {"kicked", "ban"} : Remove(r, how)
  \/ \E busy \in SUBSET Rooms : SyncAnswers(busy)
  \/ Complete \/ GoHome \/ Disclose \/ CloseJoinDialog \/ Removed \/ AnswerYes \/ AnswerNo
  \/ \E k \in 1 .. Len(tasks) :
       \/ ListIsLoaded(k) \/ MemberKnown(k) \/ StillMember(k) \/ TaskJoins(k) \/ TaskJoined(k)
       \/ Listed(k) \/ PublicKnown(k) \/ UpdateEnds(k)
  \/ \E o \in ops : Joins(o) \/ Joined(o) \/ Leaves(o) \/ Left(o)

Spec == Init /\ [][Next]_vars

-----------------------------------------------------------------------------
Idle == ops = {} /\ \A k \in 1 .. Len(tasks) : ~Running(k)

(***************************************************************************)
(* A page never keeps its spinner: when the last call of update() of the   *)
(* page on screen is over, isLoading is reset, whatever calls it           *)
(* superseded or was overtaken by.                                         *)
(***************************************************************************)
SpinnerEnds ==
  page.inst # 0 /\ ~Running(Len(tasks)) => ~page.loading

(***************************************************************************)
(* Calls of update() that were superseded do not switch the room behind    *)
(* the user's back: when the page on screen has done its update, and the   *)
(* user has stayed on it while going from room to room, the current room   *)
(* is the room of the route.                                               *)
(***************************************************************************)
OneVisit == \A k \in 1 .. Len(tasks) : tasks[k].inst = page.inst
CurrentIsRoute ==
  page.inst # 0 /\ ~Running(Len(tasks)) /\ current # NoRoom /\ OneVisit => current = route

(***************************************************************************)
(* When all that was asked for is answered, and sliding sync is up to date,*)
(* each room the user is in, and has not asked to leave, is in the list.   *)
(***************************************************************************)
JoinedAreListed ==
  roomsLoaded /\ Idle /\ response = NoAnswer /\ lastSent = member =>
    \A r \in Rooms \ asked : Member(r) => r \in list

\* matrix.service.ts: rooms where the user has left or been banned are skipped,
\* as "the sync may still include them briefly after leaving".
LeftAreNotListed ==
  Idle /\ response = NoAnswer /\ lastSent = member => \A r \in list : member[r] # "out"

\* Room.vue has it of updateVersion: "Used to cancel stale update() calls".
StaleIsCancelled ==
  page.inst # 0 /\ ~Running(Len(tasks)) /\ current # NoRoom => current = route

\* Room.vue: the dialog about a kick asks whether to join the room again.
RejoinsOnlyWhenAsked ==
  [][\A o \in ops' \ ops : o.kind = "join" /\ o.pc = "call" /\ o.room # page.joinDialog
       => dialog = [what |-> "kick", room |-> o.room]]_vars
=============================================================================
