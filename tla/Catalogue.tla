----------------------------- MODULE Catalogue -----------------------------
(***************************************************************************)
(* The directory of a hub's public rooms as a client keeps it (pubhubs.ts, *)
(* rooms.ts, DiscoverRoomsPage.vue, useManageRooms.ts), and the editor of  *)
(* the rooms that ask for a disclosure (EditRoom.vue, useEditRoom.ts).     *)
(*                                                                         *)
(* What a secured room asks for (attributes, and accepted values of each)  *)
(* is abstracted to the set of the users who can disclose it.              *)
(***************************************************************************)
EXTENDS Integers, FiniteSets

CONSTANTS Rooms, Users,
          NewRoom,      \* the room that is not there yet
          MaxFetches,   \* fetches of the directory under way at once
          MaxEdits      \* changes made in the editor

VARIABLES
  kind, policy, within,  \* the server: the rooms, who may enter, who did
  recent,       \* pubhubs.ts: lastPublicCheck is less than a reload time ago
  publics,      \* pubhubs.ts: publicRooms
  shown,        \* rooms.ts: publicRooms, a copy
  fetches,      \* calls of publicRooms under way, and what the server said
  secured,      \* rooms.ts: securedRooms, with what they ask for
  meta,         \* rooms.ts: publicSecuredRoomMetadata
  metaCalls,    \* its calls under way, and what the server said
  editor,       \* EditRoom.vue
  kicks,        \* calls of kickUsersFromSecuredRoom under way
  unnoted,      \* rooms saved after a change that EditRoom.vue does not note:
                \* an attribute turned into another one, or a secured room
                \* whose form was opened as that of a public room (history)
  edits

serverVars == <<kind, policy, within>>
dirVars    == <<recent, publics, shown, fetches>>
metaVars   == <<meta, metaCalls>>
vars == <<serverVars, dirVars, secured, metaVars, editor, kicks, unnoted, edits>>

Unknown == [asks |-> FALSE, who |-> {}]    \* not in a cache
Asks(S) == [asks |-> TRUE, who |-> S]
Nothing == [r \in Rooms |-> "none"]
Closed  == [pc |-> "closed", room |-> NewRoom, form |-> {}, changed |-> FALSE, other |-> FALSE]
Fetch(by, got, has) == [by |-> by, got |-> got, has |-> has]

\* publicRoomIsSecure
PublicRoomIsSecure(r) == shown[r] = "secured"

TypeOK ==
  /\ kind \in [Rooms -> {"none", "public", "secured"}]
  /\ policy \in [Rooms -> SUBSET Users] /\ within \in [Rooms -> SUBSET Users]
  /\ recent \in BOOLEAN
  /\ publics \in [Rooms -> {"none", "public", "secured"}]
  /\ \A r \in Rooms : shown[r] \in {"none", publics[r]}
  /\ \A f \in fetches : f.by \in {"page", "editor", "save"} /\ (~f.has => f.got = Nothing)
  /\ \A c \in {secured, meta} : c \in [Rooms -> [asks : BOOLEAN, who : SUBSET Users]]
  /\ metaCalls \subseteq [room : Rooms, said : [asks : BOOLEAN, who : SUBSET Users]]
  /\ editor.pc \in {"closed", "loading", "reading", "open", "saving", "listing", "stuck"}
  /\ (editor.pc \in {"reading", "open", "saving", "stuck"} => editor.room \in Rooms)
  /\ kicks \subseteq Rooms /\ unnoted \subseteq Rooms /\ edits \in 0 .. MaxEdits

Init ==
  /\ kind \in [Rooms -> {"none", "public", "secured"}]
  /\ \A r \in Rooms : (kind[r] = "none") = (r = NewRoom)
  /\ policy = [r \in Rooms |-> IF kind[r] = "secured" THEN Users ELSE {}]
  /\ within = [r \in Rooms |-> {}]
  /\ recent = FALSE /\ publics = Nothing /\ shown = Nothing /\ fetches = {}
  /\ secured = [r \in Rooms |-> Unknown] /\ meta = secured /\ metaCalls = {}
  /\ editor = Closed /\ kicks = {} /\ unnoted = {} /\ edits = 0

\* A user discloses what a secured room asks for, and enters it.
Enter(u, r) ==
  /\ kind[r] = "secured" /\ u \in policy[r] \ within[r]
  /\ within' = [within EXCEPT ![r] = @ \cup {u}]
  /\ UNCHANGED <<kind, policy, dirVars, secured, metaVars, editor, kicks, unnoted, edits>>

(***************************************************************************)
(* performGetAllPublicRooms: a call within the reload time is answered     *)
(* with what there is, unless it is forced; otherwise the time of the check*)
(* is set at once, and the server is asked. fetchPublicRooms copies what   *)
(* it gets. Every call runs: what ensureSingleExecution is given to keep   *)
(* the promise of the running one in is new for each call.                 *)
(***************************************************************************)
FetchPublicRooms(by, force) ==
  IF recent /\ ~force
  THEN shown' = publics /\ UNCHANGED <<recent, publics, fetches>>
  ELSE /\ Cardinality(fetches) < MaxFetches
       /\ recent' = TRUE
       /\ fetches' = fetches \cup {Fetch(by, Nothing, FALSE)}
       /\ UNCHANGED <<publics, shown>>

\* DiscoverRoomsPage and the page of a room, or useManageRooms, which forces.
PageFetches(force) ==
  /\ FetchPublicRooms("page", force)
  /\ UNCHANGED <<serverVars, secured, metaVars, editor, kicks, unnoted, edits>>

PublicRoomsSaid(f) ==
  /\ f \in fetches /\ ~f.has
  /\ fetches' = (fetches \ {f}) \cup {Fetch(f.by, kind, TRUE)}
  /\ UNCHANGED <<serverVars, recent, publics, shown, secured, metaVars, editor, kicks,
                 unnoted, edits>>

\* The editor goes on when its fetch is answered: it reads what a secured room
\* asks for, or opens; after adding a room, it is left.
AfterFetch(e, isSecure) ==
  CASE e.pc = "loading" /\ e.room # NewRoom /\ isSecure -> [e EXCEPT !.pc = "reading"]
    [] e.pc = "loading" -> [e EXCEPT !.pc = "open", !.other = e.room # NewRoom]
    [] e.pc = "listing" -> Closed
    [] OTHER -> e
Answered(f) == (f.by = "editor" /\ editor.pc = "loading") \/ (f.by = "save" /\ editor.pc = "listing")

PublicRoomsArrive(f) ==
  /\ f \in fetches /\ f.has
  /\ publics' = f.got /\ shown' = f.got /\ fetches' = fetches \ {f}
  /\ editor' = IF Answered(f) THEN AfterFetch(editor, f.got[editor.room] = "secured") ELSE editor
  /\ UNCHANGED <<serverVars, recent, secured, metaVars, kicks, unnoted, edits>>

\* The call fails: recent stays, and an editor waits for ever.
PublicRoomsFail(f) ==
  /\ f \in fetches /\ fetches' = fetches \ {f}
  /\ editor' = IF Answered(f) THEN [editor EXCEPT !.pc = "stuck"] ELSE editor
  /\ UNCHANGED <<serverVars, recent, publics, shown, secured, metaVars, kicks, unnoted, edits>>

ReloadTimePasses ==
  /\ recent /\ recent' = FALSE
  /\ UNCHANGED <<serverVars, publics, shown, fetches, secured, metaVars, editor, kicks,
                 unnoted, edits>>

-----------------------------------------------------------------------------
\* getSecuredRoomPublicMetadata, for the dialog that lists what a room asks.
AskMetadata(r) ==
  /\ PublicRoomIsSecure(r) /\ ~meta[r].asks
  /\ \A c \in metaCalls : c.room # r
  /\ metaCalls' = metaCalls \cup {[room |-> r, said |-> Asks(policy[r])]}
  /\ UNCHANGED <<serverVars, dirVars, secured, meta, editor, kicks, unnoted, edits>>
MetadataArrives(c) ==
  /\ c \in metaCalls /\ metaCalls' = metaCalls \ {c}
  /\ meta' = [meta EXCEPT ![c.room] = c.said]
  /\ UNCHANGED <<serverVars, dirVars, secured, editor, kicks, unnoted, edits>>

-----------------------------------------------------------------------------
\* EditRoom.vue is mounted, for a room or for a new one.
OpenEditor(r) ==
  /\ editor = Closed /\ kicks = {} /\ edits < MaxEdits
  /\ r = NewRoom => kind[r] = "none"
  /\ FetchPublicRooms("editor", FALSE)
  /\ editor' = LET e == [Closed EXCEPT !.pc = "loading", !.room = r]
               IN  IF recent THEN AfterFetch(e, publics[r] = "secured") ELSE e
  /\ UNCHANGED <<serverVars, secured, metaVars, kicks, unnoted, edits>>

\* getSecuredRoomForEditor: the form is filled with all that the room asks for.
FillInForm ==
  /\ editor.pc = "reading"
  /\ IF kind[editor.room] = "secured"
     THEN /\ secured' = [secured EXCEPT ![editor.room] = Asks(policy[editor.room])]
          /\ editor' = [editor EXCEPT !.pc = "open", !.form = policy[editor.room]]
     ELSE editor' = [editor EXCEPT !.pc = "stuck"] /\ UNCHANGED secured
  /\ UNCHANGED <<serverVars, dirVars, metaVars, kicks, unnoted, edits>>

\* A value that is taken away, and an attribute that is added, may shut users
\* out; an attribute that is removed, and a value that is added, may let them in.
RemoveValueUnnoticed(S) == editor' = [editor EXCEPT !.form = S]     \* slip: attributeChanged
Narrow(S) == editor' = [editor EXCEPT !.form = S, !.changed = TRUE]
RemoveAttribute(S) == editor' = [editor EXCEPT !.form = S, !.changed = TRUE]
AddUniqueValue(S) == editor' = [editor EXCEPT !.form = S]
\* The list of attributes is bound to the form, and notes no change.
Relabel(S) == editor' = [editor EXCEPT !.form = S, !.other = TRUE]

EditForm ==
  /\ editor.pc = "open" /\ (editor.room = NewRoom \/ PublicRoomIsSecure(editor.room))
  /\ edits < MaxEdits /\ edits' = edits + 1
  /\ \E S \in SUBSET Users :
       \/ S \in (SUBSET editor.form) \ {editor.form} /\ Narrow(S)
       \/ editor.form \in (SUBSET S) \ {S} /\ (RemoveAttribute(S) \/ AddUniqueValue(S))
       \/ S # editor.form /\ Relabel(S)
  /\ UNCHANGED <<serverVars, dirVars, secured, metaVars, kicks, unnoted>>

CancelEdit ==
  /\ editor.pc \in {"open", "stuck"} /\ editor' = Closed
  /\ UNCHANGED <<serverVars, dirVars, secured, metaVars, kicks, unnoted, edits>>

(***************************************************************************)
(* submitRoom. A new secured room is added (or a public one), a secured    *)
(* room is changed; a public one gets another name and topic only.         *)
(***************************************************************************)
Submit(asSecured) ==
  /\ editor.pc = "open"
  /\ editor.room # NewRoom => asSecured = PublicRoomIsSecure(editor.room)
  /\ kind[editor.room] # "none" \/ editor.room = NewRoom
  /\ editor' = [editor EXCEPT !.pc = "saving"]
  /\ kind' = [kind EXCEPT ![editor.room] =
                IF @ # "none" THEN @ ELSE IF asSecured THEN "secured" ELSE "public"]
  /\ policy' = IF asSecured THEN [policy EXCEPT ![editor.room] = editor.form] ELSE policy
  /\ unnoted' = IF editor.other THEN unnoted \cup {editor.room} ELSE unnoted
  /\ UNCHANGED <<within, dirVars, secured, metaVars, kicks, edits>>

\* The server refuses, and waitForServer is not reset.
SubmitFails ==
  /\ editor.pc = "open" /\ editor' = [editor EXCEPT !.pc = "stuck"]
  /\ UNCHANGED <<serverVars, dirVars, secured, metaVars, kicks, unnoted, edits>>

\* addSecuredRoom goes on with a forced fetch; createRoom is over.
Added ==
  /\ editor.pc = "saving" /\ editor.room = NewRoom
  /\ IF kind[NewRoom] = "secured"
     THEN /\ secured' = [secured EXCEPT ![NewRoom] = Asks(policy[NewRoom])]
          /\ editor' = [editor EXCEPT !.pc = "listing"]
          /\ FetchPublicRooms("save", TRUE)
     ELSE editor' = Closed /\ UNCHANGED <<secured, dirVars>>
  /\ UNCHANGED <<serverVars, metaVars, kicks, unnoted, edits>>

\* changeSecuredRoom, and the kick of all users when attributeChanged.
Kicks(r) == IF editor.changed /\ PublicRoomIsSecure(r) THEN kicks \cup {r} ELSE kicks
ChangeSecuredRoom ==
  /\ editor.pc = "saving" /\ editor.room # NewRoom
  /\ LET r == editor.room IN
     /\ secured' = IF secured[r].asks THEN [secured EXCEPT ![r] = Asks(editor.form)] ELSE secured
     /\ meta' = [meta EXCEPT ![r] = Unknown]
     /\ kicks' = Kicks(r)
  /\ editor' = Closed
  /\ UNCHANGED <<serverVars, dirVars, metaCalls, unnoted, edits>>

\* remove_users: everybody who disclosed anything leaves the room.
KickUsersFromSecuredRoom(r) ==
  /\ r \in kicks /\ kicks' = kicks \ {r}
  /\ within' = [within EXCEPT ![r] = {}]
  /\ UNCHANGED <<kind, policy, dirVars, secured, metaVars, editor, unnoted, edits>>

(***************************************************************************)
(* removePublicRoom and removeSecuredRoom: the room is dropped from the    *)
(* copy, and stays in what pubhubs.ts has.                                 *)
(***************************************************************************)
RemoveRoom(r) ==
  /\ kind[r] # "none" /\ r # NewRoom /\ shown[r] # "none" /\ editor = Closed
  /\ kind' = [kind EXCEPT ![r] = "none"] /\ policy' = [policy EXCEPT ![r] = {}]
  /\ within' = [within EXCEPT ![r] = {}]
  /\ shown' = [shown EXCEPT ![r] = "none"]
  /\ secured' = [secured EXCEPT ![r] = Unknown] /\ meta' = [meta EXCEPT ![r] = Unknown]
  /\ kicks' = IF kind[r] = "secured" THEN kicks \cup {r} ELSE kicks
  /\ UNCHANGED <<recent, publics, fetches, metaCalls, editor, unnoted, edits>>

Next ==
  \/ \E r \in Rooms : \/ OpenEditor(r) \/ AskMetadata(r) \/ RemoveRoom(r)
                      \/ KickUsersFromSecuredRoom(r) \/ \E u \in Users : Enter(u, r)
  \/ \E b \in BOOLEAN : PageFetches(b) \/ Submit(b)
  \/ \E f \in fetches : PublicRoomsSaid(f) \/ PublicRoomsArrive(f) \/ PublicRoomsFail(f)
  \/ \E c \in metaCalls : MetadataArrives(c)
  \/ ReloadTimePasses \/ FillInForm \/ EditForm \/ CancelEdit \/ SubmitFails \/ Added
  \/ ChangeSecuredRoom

Spec == Init /\ [][Next]_vars

-----------------------------------------------------------------------------
(***************************************************************************)
(* When the editor of a secured room is left, and the removal it started   *)
(* is over, everybody in the room can disclose what the room now asks for: *)
(* attributeChanged is set by every change that may shut a user out. Only  *)
(* the changes in unnoted are excepted.                                    *)
(***************************************************************************)
AdmittedSatisfy ==
  \A r \in Rooms \ unnoted :
    kind[r] = "secured" /\ ~(editor.room = r /\ editor.pc = "saving") /\ r \notin kicks
      => within[r] \subseteq policy[r]

\* EditRoom.vue awaits fetchPublicRooms to "make sure rooms are loaded".
RoomsAreLoaded ==
  editor.pc = "open" /\ editor.room # NewRoom => shown[editor.room] # "none"
=============================================================================
