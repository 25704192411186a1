------------------------------ MODULE Contacts ------------------------------
(***************************************************************************)
(* Conversations of a user with others, with the administrators of a hub,  *)
(* and with the stewards of a room: how the client finds the room of one,  *)
(* or creates it (pubhubs.ts, rooms.ts, useDirectMessage.ts), and which of *)
(* them the page of conversations shows (DirectMessage.vue, useSidebar.ts, *)
(* NewConversationPanel.vue).                                              *)
(***************************************************************************)
EXTENDS Integers, Sequences, FiniteSets

CONSTANTS Users, Me,
          Types,        \* "dm", "group", "admin", "steward", or some of them
          MaxConvs,     \* bound on the rooms of conversations
          MaxChanges    \* bound on the changes of the administrators

VARIABLES
  convs,     \* the rooms of conversations: type, and each user's membership
  view,      \* the memberships that the SDK of this client knows
  admins,    \* the administrators, as the server has them
  calls,     \* creations under way
  setup,     \* setUpAdminRoom: the adminIds it was answered, or NoSetup
  selected,  \* useSidebar.ts: selectedDMRoom, an index, or 0
  tab,       \* useSidebar.ts: activeTab
  last,      \* useSidebar.ts: lastDMRoomId
  blind,     \* a room was created next to one that the client could not know
             \* of (history variable)
  changes

roomVars == <<convs, view>>
sideVars == <<selected, tab, last>>
vars == <<roomVars, admins, calls, setup, sideVars, blind, changes>>

Others  == Users \ {Me}
NoSetup == [on |-> FALSE, ids |-> {}]
Nobody  == [u \in Users |-> "none"]

TypeOK ==
  /\ Len(view) = Len(convs) /\ Len(convs) <= MaxConvs
  /\ \A i \in 1 .. Len(convs) :
       /\ convs[i].type \in Types
       /\ convs[i].mem \in [Users -> {"none", "invite", "join", "leave"}]
       /\ view[i] \in [Users -> {"none", "invite", "join", "leave"}]
  /\ admins \subseteq Others /\ calls \subseteq [type : Types, with : SUBSET Others]
  /\ setup \in [on : BOOLEAN, ids : SUBSET Others]
  /\ selected \in 0 .. Len(convs) /\ last \in 0 .. Len(convs)
  /\ tab \in {"none", "dm", "newdm"} /\ (tab = "dm" => selected # 0)
  /\ blind \in BOOLEAN /\ changes \in 0 .. MaxChanges

Init ==
  /\ convs = <<>> /\ view = <<>> /\ admins \in (SUBSET Others) \ {{}}
  /\ calls = {} /\ setup = NoSetup
  /\ selected = 0 /\ tab = "none" /\ last = 0
  /\ blind = FALSE /\ changes = 0

(***************************************************************************)
(* getPrivateRoomWithMembers: of the rooms of a type the last one whose    *)
(* members, those invited included, are exactly the ones asked for.        *)
(***************************************************************************)
JoinedOnly(m) == {u \in Users : m[u] = "join"}         \* slip: without the invited
Members(m) == {u \in Users : m[u] \in {"join", "invite"}}
Found(type, who) == {i \in 1 .. Len(view) : convs[i].type = type /\ Members(view[i]) = who}
PrivateRoomWithMembers(type, who) ==
  IF Found(type, who) = {} THEN 0
  ELSE CHOOSE i \in Found(type, who) : \A j \in Found(type, who) : j <= i

\* The bound: a change of the administrators takes the place of a conversation.
WithinBounds == Len(convs) + Cardinality(calls) + changes < MaxConvs

\* openDMRoom of useSidebar.ts.
OpenDMRoom(i) == selected' = i /\ last' = i /\ tab' = "dm"
Close == selected' = 0 /\ tab' = "none" /\ UNCHANGED last

\* The server has a room that would do, which the client does not find.
Exists(type, who) == \E i \in 1 .. Len(convs) : convs[i].type = type /\ Members(convs[i].mem) = who

(***************************************************************************)
(* createPrivateRoomWith: a room that is found is used, and joined when    *)
(* this user was invited; otherwise one is created. Two calls that overlap *)
(* both create one.                                                        *)
(***************************************************************************)
CreatePrivateRoomWith(type, with) ==
  LET i == PrivateRoomWithMembers(type, with \cup {Me}) IN
  IF i # 0 /\ view[i][Me] \in {"join", "invite"}
  THEN /\ convs' = IF view[i][Me] = "invite" /\ convs[i].mem[Me] = "invite"
                   THEN [convs EXCEPT ![i].mem[Me] = "join"] ELSE convs
       /\ OpenDMRoom(i)
       /\ UNCHANGED <<calls, blind>>
  ELSE /\ WithinBounds
       /\ blind' = (blind \/ view # [j \in 1 .. Len(convs) |-> convs[j].mem]
                    \/ \E c \in calls : c.type = type /\ c.with = with)
       /\ calls' = calls \cup {[type |-> type, with |-> with]}
       /\ UNCHANGED <<convs, sideVars>>

\* A click on a user, or on a group that was put together, or on the stewards.
StartConversation(type, with) ==
  /\ CASE type = "dm" -> Cardinality(with) = 1
       [] type = "group" -> Cardinality(with) > 1
       [] type = "steward" -> with # {}
       [] OTHER -> FALSE
  /\ tab = "newdm"
  /\ CreatePrivateRoomWith(type, with)
  /\ UNCHANGED <<view, admins, setup, changes>>

\* The server creates the room and invites; the client joins it, and knows
\* of nobody else there before the next answer of sliding sync; a room with the
\* administrators is opened only if that comes within ten attempts.
Created(c) ==
  /\ c \in calls /\ calls' = calls \ {c}
  /\ convs' = Append(convs, [type |-> c.type,
                mem |-> [u \in Users |-> IF u = Me THEN "join"
                                         ELSE IF u \in c.with THEN "invite" ELSE "none"]])
  /\ view' = Append(view, Nobody)
  /\ OpenDMRoom(Len(convs')) \/ (c.type = "admin" /\ UNCHANGED sideVars)
  /\ UNCHANGED <<admins, setup, blind, changes>>

\* Another user accepts or declines an invitation, or leaves (the client lags
\* by one such step at most); invites this user to a new conversation; and
\* sliding sync tells the client.
MemberMoves(i, u, m) ==
  /\ view[i] \in {convs[i].mem, Nobody}
  /\ u \in Others /\ convs[i].mem[u] \in {"invite", "join"} /\ m # convs[i].mem[u]
  /\ m \in {"join", "leave"}
  /\ convs' = [convs EXCEPT ![i].mem[u] = m]
  /\ UNCHANGED <<view, admins, calls, setup, sideVars, blind, changes>>
IsInvited(u) ==
  /\ WithinBounds /\ ~Exists("dm", {u, Me})
  /\ \A c \in calls : c.with # {u}
  /\ convs' = Append(convs, [type |-> "dm",
                mem |-> [Nobody EXCEPT ![u] = "join", ![Me] = "invite"]])
  /\ view' = Append(view, Nobody)
  /\ UNCHANGED <<admins, calls, setup, sideVars, blind, changes>>
Synced ==
  /\ view # [i \in 1 .. Len(convs) |-> convs[i].mem]
  /\ view' = [i \in 1 .. Len(convs) |-> convs[i].mem]
  /\ UNCHANGED <<convs, admins, calls, setup, sideVars, blind, changes>>

\* leaveConversation: the page drops the room, and the sidebar is closed.
LeaveConversation(i) ==
  /\ convs[i].mem[Me] = "join" /\ view[i][Me] = "join"
  /\ convs' = [convs EXCEPT ![i].mem[Me] = "leave"] /\ Close
  /\ UNCHANGED <<view, admins, calls, setup, blind, changes>>

\* The panel for a new conversation.
ToggleNewConversation ==
  /\ IF tab = "newdm" THEN Close ELSE tab' = "newdm" /\ UNCHANGED <<selected, last>>
  /\ UNCHANGED <<roomVars, admins, calls, setup, blind, changes>>
OpenConversation(i) ==
  /\ convs[i].mem[Me] = "join" /\ OpenDMRoom(i)
  /\ UNCHANGED <<roomVars, admins, calls, setup, blind, changes>>

\* The page is opened: the room of the sidebar, the last one if it is still
\* there, or the latest.
Listed == {i \in 1 .. Len(convs) : view[i][Me] = "join"}
FindTargetRoom ==
  CASE selected # 0 -> selected
    [] last # 0 -> IF last \in Listed THEN last ELSE 0
    [] OTHER -> 0
OpenPage ==
  /\ LET t == IF FindTargetRoom # 0 \/ Listed = {} THEN FindTargetRoom
              ELSE CHOOSE i \in Listed : \A j \in Listed : j <= i
     IN  t # 0 /\ OpenDMRoom(t)
  /\ UNCHANGED <<roomVars, admins, calls, setup, blind, changes>>

-----------------------------------------------------------------------------
\* The administrators of the hub change.
AdminsChange(S) ==
  /\ WithinBounds /\ changes < MaxChanges /\ S # admins /\ S # {}
  /\ admins' = S /\ changes' = changes + 1
  /\ UNCHANGED <<roomVars, calls, setup, sideVars, blind>>

\* handleAdminContact and setUpAdminRoom: the ids of the administrators are
\* fetched first.
FetchAdminIds ==
  /\ ~setup.on /\ tab = "newdm" /\ calls = {}
  /\ setup' = [on |-> TRUE, ids |-> admins]
  /\ UNCHANGED <<roomVars, admins, calls, sideVars, blind, changes>>

AdminRooms == {i \in 1 .. Len(convs) : convs[i].type = "admin" /\ view[i][Me] = "join"}
FindAdminContactRoom == CHOOSE i \in AdminRooms : \A j \in AdminRooms : j <= i
ExistingAdmins(i) == Members(view[i]) \ {Me}

(***************************************************************************)
(* hasNewAdmin, findNewAdminId and removeOldAdminId compare how many       *)
(* administrators there are with how many the room has: more are invited,  *)
(* and when there are fewer, those who are none any more are removed.      *)
(***************************************************************************)
FindNewAdminId(i, ids) ==
  IF Cardinality(ExistingAdmins(i)) >= Cardinality(ids) THEN {} ELSE ids \ ExistingAdmins(i)
RemoveOldAdminId(i, ids) ==
  IF Cardinality(ExistingAdmins(i)) <= Cardinality(ids) THEN {} ELSE ExistingAdmins(i) \ ids

HandleExistingAdminRoom(i, ids) ==
  convs' = [convs EXCEPT ![i].mem =
    [u \in Users |-> CASE u \in FindNewAdminId(i, ids) /\ @[u] # "join" -> "invite"
                       [] u \in RemoveOldAdminId(i, ids) /\ view[i][u] = "join" /\ @[u] = "join" -> "leave"
                       [] OTHER -> @[u]]]

SetUpAdminRoom ==
  /\ setup.on /\ setup' = NoSetup
  /\ IF AdminRooms = {} THEN CreatePrivateRoomWith("admin", setup.ids)
     ELSE /\ HandleExistingAdminRoom(FindAdminContactRoom, setup.ids)
          /\ \/ OpenDMRoom(FindAdminContactRoom)
             \/ view[FindAdminContactRoom] = Nobody /\ UNCHANGED sideVars
          /\ UNCHANGED <<calls, blind>>
  /\ UNCHANGED <<view, admins, changes>>

Next ==
  \/ \E type \in Types, with \in SUBSET Others : StartConversation(type, with)
  \/ \E c \in calls : Created(c)
  \/ \E i \in 1 .. Len(convs) :
       \/ \E u \in Users, m \in {"join", "leave"} : MemberMoves(i, u, m)
       \/ LeaveConversation(i) \/ OpenConversation(i)
  \/ \E u \in Others : IsInvited(u)
  \/ \E S \in SUBSET Others : AdminsChange(S)
  \/ Synced \/ ToggleNewConversation \/ OpenPage \/ FetchAdminIds \/ SetUpAdminRoom

Spec == Init /\ [][Next]_vars

-----------------------------------------------------------------------------
(***************************************************************************)
(* A conversation is not started anew while there is one: as long as every *)
(* room was created by a client that knew of all others, no two rooms are  *)
(* for direct messages of the same two people, whoever accepts, declines,  *)
(* leaves or is invited again.                                             *)
(***************************************************************************)
OneConversation ==
  ~blind => \A i, j \in 1 .. Len(convs) :
              /\ i # j /\ convs[i].type = "dm" /\ convs[j].type = "dm"
              /\ Me \in Members(convs[i].mem) /\ Cardinality(Members(convs[i].mem)) > 1
              => Members(convs[i].mem) # Members(convs[j].mem)

\* pubhubs.ts has it that handleExistingAdminRoom "invites new admins or remove
\* them based on their admin status".
AdminsInvited ==
  [][\A i \in AdminRooms :
       setup.on /\ ~setup'.on /\ i = FindAdminContactRoom /\ view[i] = convs[i].mem
         => setup.ids \subseteq Members(convs'[i].mem)]_vars
=============================================================================
