-------------------------------- MODULE Roles --------------------------------
(***************************************************************************)
(* How members become stewards and experts (manage-roles.composable.ts,    *)
(* ManageRoles.vue, ManageRoleSidebar.vue, DisclosureRequestForm.vue,      *)
(* MessageDisclosureRequest.vue).  An administrator asks a user, in their  *)
(* conversation, to disclose attributes for a role in a room; the user     *)
(* answers there by a disclosed message.  The page of the roles has no     *)
(* store of its own: it reads the conversation page by page, backwards,    *)
(* makes invitations of the requests it finds and lists them with those    *)
(* who have a role.  One user and its conversation are modelled.           *)
(***************************************************************************)
EXTENDS Integers, Sequences, FiniteSets

CONSTANTS RoleRooms, Elsewhere,
          Purposes,      \* of DisclosurePurpose
          PageLength,    \* MESSAGES_PER_PAGE
          MaxMessages,   \* bound on the conversation
          MaxFetches,    \* bound on requests of pages
          MaxDone,       \* bound on actions that are confirmed
          MaxMisses      \* bound on requests that fail

VARIABLES
  talk,        \* the conversation: requests and disclosed messages
  power,       \* power[r]: role of the user in r at the hub
  roomList,    \* roomList[r]: role of the user in r, as roomList has it
  page,        \* paginationTokens: Unset, or how many messages are left
  invitations, \* roleInvitations
  entries,     \* roleEntries
  more,        \* hasMoreToLoad
  loadingMore, \* isLoadingMore
  fetches,     \* calls of fetchRoleInvitations that wait for a page
  selected,    \* id of the selected entry
  confirm,     \* the action of the dialog that is open
  work,        \* calls of promoteToSteward and its like after their first request
  fetched, misses, done,
  promoted     \* history: roles that were given, with what had been said before

rolesPage == <<page, invitations, entries, more, loadingMore>>
rolesVars == <<talk, power, roomList, rolesPage, fetches, selected, confirm, work, fetched, misses, done, promoted>>

NoEntry == [type |-> "none", room |-> Elsewhere]
Roles == {"user", "expert", "steward"}
Conditions == {"pending", "disclosed"}
Unset == -1
Asks(r, p) == [kind |-> "ask", room |-> r, purpose |-> p, sender |-> "admin", redacted |-> FALSE]
Disclosed(who) == [kind |-> "disclosed", room |-> Elsewhere, purpose |-> "none", sender |-> who, redacted |-> FALSE]

RolesTypeOK ==
  /\ Len(talk) <= MaxMessages
  /\ power \in [RoleRooms -> Roles] /\ roomList \in [RoleRooms -> Roles]
  /\ page \in Unset..MaxMessages
  /\ \A i \in invitations : /\ i.room \in RoleRooms /\ i.condition \in Conditions /\ i.ask \in 1..Len(talk)
                            /\ i.disclosed \in 0..Len(talk) /\ (i.disclosed # 0) = (i.condition = "disclosed")
  /\ \A i, j \in invitations : i.room = j.room => i = j
  /\ more \in BOOLEAN /\ loadingMore \in BOOLEAN /\ fetched \in 0..MaxFetches

RolesInit ==
  /\ talk = <<>>
  /\ power = [r \in RoleRooms |-> "user"] /\ roomList = power
  /\ page = Unset /\ invitations = {} /\ entries = {} /\ more = FALSE /\ loadingMore = FALSE
  /\ fetches = {[more |-> FALSE, close |-> FALSE]}
  /\ selected = NoEntry /\ confirm = "none" /\ work = {} /\ fetched = 0 /\ misses = 0 /\ done = 0 /\ promoted = {}

-----------------------------------------------------------------------------
(* The conversation.                                                       *)

Say(m) == Len(talk) < MaxMessages /\ talk' = Append(talk, m)
Unchanged == UNCHANGED <<power, roomList, rolesPage, selected, confirm, work, misses, done, promoted>>

\* onSubmit of DisclosureRequestForm.vue; when the form closes, the roles are
\* fetched (handleDisclosureFormClose).
AskDisclosure ==
  /\ \E r \in RoleRooms, p \in Purposes : Say(Asks(r, p))
  /\ fetched < MaxFetches /\ fetched' = fetched + 1
  /\ fetches' = fetches \cup {[more |-> FALSE, close |-> FALSE]}
  /\ page' = Unset
  /\ UNCHANGED <<power, roomList, invitations, entries, more, loadingMore, selected, confirm, work, misses, done, promoted>>

\* finishDisclosure: whoever reads the request can disclose, the administrator
\* too.  The message goes to the room that is current by then.
Disclose(who) ==
  /\ \E i \in DOMAIN talk : talk[i].kind = "ask"
  /\ Say(Disclosed(who)) \/ UNCHANGED talk
  /\ Unchanged /\ UNCHANGED <<fetches, fetched>>

-----------------------------------------------------------------------------
(* The list.                                                               *)

\* The newest index in S, 0 if there is none.
Newest(S) == IF S = {} THEN 0 ELSE CHOOSE i \in S : \A j \in S : j <= i

\* The page of the conversation that ends at n.
Chunk(n) == {i \in 1..n : i > n - PageLength}

\* Whoever disclosed it.
DisclosedByAnyone(C) == Newest({i \in C : talk[i].kind = "disclosed" /\ ~talk[i].redacted})

\* userDisclosedMessage: any message the user disclosed, of the same page.
DisclosedIn(C) == Newest({i \in C : talk[i].kind = "disclosed" /\ talk[i].sender = "user" /\ ~talk[i].redacted})

\* processDmRoom: of each room the latest request of the page.
InvitationsForAll(C) ==   \* slip: one for every request
  {[room |-> talk[i].room, purpose |-> talk[i].purpose, ask |-> i, disclosed |-> DisclosedIn(C),
    condition |-> IF DisclosedIn(C) # 0 THEN "disclosed" ELSE "pending"] :
     i \in {j \in C : talk[j].kind = "ask" /\ ~talk[j].redacted}}
InvitationsIn(C) ==
  LET ask(r) == Newest({i \in C : talk[i].kind = "ask" /\ talk[i].room = r /\ ~talk[i].redacted})
      d == DisclosedIn(C) IN
  {[room |-> r, purpose |-> talk[ask(r)].purpose, ask |-> ask(r), disclosed |-> d,
    condition |-> IF d # 0 THEN "disclosed" ELSE "pending"] : r \in {q \in RoleRooms : ask(q) # 0}}

\* rebuildRoleEntries: a request with any purpose but expert is an invitation
\* of a steward.
EntriesOf(I) ==
  {[type |-> IF i.purpose = "expert" THEN "expert-invitation" ELSE "steward-invitation",
    room |-> i.room, invitation |-> i] : i \in I}
  \cup {[type |-> IF roomList[r] = "expert" THEN "active-expert" ELSE "active-steward", room |-> r,
         invitation |-> NoEntry] : r \in {q \in RoleRooms : roomList[q] # "user"}}
IdOf(e) == [type |-> e.type, room |-> e.room]

\* selectedRole
SelectedRole == {e \in entries : IdOf(e) = selected}

\* fetchRoles and fetchRoleInvitations up to the first await.
FetchRoles ==
  /\ fetched < MaxFetches /\ fetched' = fetched + 1
  /\ fetches' = fetches \cup {[more |-> FALSE, close |-> FALSE]} /\ page' = Unset
  /\ UNCHANGED <<talk, power, roomList, invitations, entries, more, loadingMore, selected, confirm, work, misses, done, promoted>>

\* loadMoreInvitations
LoadMore ==
  /\ more /\ ~loadingMore /\ loadingMore' = TRUE
  /\ fetched < MaxFetches /\ fetched' = fetched + 1
  /\ fetches' = fetches \cup {[more |-> TRUE, close |-> FALSE]}
  /\ UNCHANGED <<talk, power, roomList, page, invitations, entries, more, selected, confirm, work, misses, done, promoted>>

\* The selection is cleared and the sidebar closed after the fetch that
\* follows an action.
Finish(f) == IF f.close THEN selected' = NoEntry ELSE UNCHANGED selected

\* A page arrives: the token, the invitations and the entries.  The only
\* conversation is never asked for more once it has been read to its end.
PageArrives(f) ==
  LET n == IF f.more /\ page # Unset THEN page ELSE Len(talk)
      new == InvitationsIn(Chunk(n))
      all == IF f.more THEN invitations \cup {i \in new : \A j \in invitations : j.room # i.room} ELSE new IN
  /\ more' = (n > PageLength)
  /\ page' = IF n > PageLength THEN n - PageLength ELSE 0
  /\ invitations' = all /\ entries' = EntriesOf(all)

\* A request that fails gives nothing either: the list is empty but for those
\* who have a role.
PageFails(f) ==
  /\ misses < MaxMisses /\ more' = FALSE
  /\ invitations' = (IF f.more THEN invitations ELSE {}) /\ entries' = EntriesOf(invitations') /\ UNCHANGED page

Fetched(f) ==
  /\ \/ PageArrives(f) /\ UNCHANGED misses
     \/ PageFails(f) /\ misses' = misses + 1
  /\ fetches' = fetches \ {f} /\ Finish(f)
  /\ loadingMore' = (loadingMore /\ ~f.more)
  /\ UNCHANGED <<talk, power, roomList, confirm, work, fetched, done, promoted>>

\* Sliding sync; the list is not made anew.
SyncRoomList(r) ==
  /\ roomList[r] # power[r] /\ roomList' = [roomList EXCEPT ![r] = power[r]]
  /\ UNCHANGED <<talk, power, rolesPage, fetches, selected, confirm, work, fetched, misses, done, promoted>>

-----------------------------------------------------------------------------
(* The administrator acts.                                                 *)

\* handleSelectRole
SelectRole(e) ==
  /\ confirm = "none" /\ selected' = IF selected = IdOf(e) THEN NoEntry ELSE IdOf(e)
  /\ UNCHANGED <<talk, power, roomList, rolesPage, fetches, confirm, work, fetched, misses, done, promoted>>

\* The buttons of ManageRoleSidebar.vue.
Buttons(e) ==
  CASE e.type = "steward-invitation" -> {"reject"} \cup (IF e.invitation.condition = "disclosed" THEN {"steward"} ELSE {})
    [] e.type = "expert-invitation" -> {"reject"} \cup (IF e.invitation.condition = "disclosed" THEN {"expert"} ELSE {})
    [] OTHER -> {"user"}

AskToConfirm ==
  /\ confirm = "none" /\ \E e \in SelectedRole : \E b \in Buttons(e) : confirm' = b
  /\ UNCHANGED <<talk, power, roomList, rolesPage, fetches, selected, work, fetched, misses, done, promoted>>

\* The dialog is cancelled, or what was selected is no longer there.
Cancel ==
  /\ confirm # "none" /\ confirm' = "none"
  /\ UNCHANGED <<talk, power, roomList, rolesPage, fetches, selected, work, fetched, misses, done, promoted>>

\* promoteToSteward, promoteToExpert, demoteSteward, removeExpert: the power
\* level first; they do nothing for an entry of another type.
SetPowerLevel(e, role) ==
  /\ \/ role = "steward" /\ e.type = "steward-invitation"
     \/ role = "expert" /\ e.type = "expert-invitation"
     \/ role = "user" /\ e.type \in {"active-steward", "active-expert"}
  /\ power' = [power EXCEPT ![e.room] = role]
  /\ promoted' = IF role = "user" THEN promoted
                 ELSE promoted \cup {[room |-> e.room, role |-> role, asked |-> {talk[i].purpose : i \in {j \in DOMAIN talk : talk[j].room = e.room}},
                                      disclosed |-> \E i \in DOMAIN talk : talk[i].kind = "disclosed" /\ talk[i].sender = "user"]}
  /\ work' = work \cup {[invitation |-> e.invitation]}

\* rejectInvitation
Reject(e) == e.type \in {"steward-invitation", "expert-invitation"} /\ work' = work \cup {[invitation |-> e.invitation]}
             /\ UNCHANGED <<power, promoted>>

\* The dialog is confirmed: the action is for what is selected now.
Confirm ==
  /\ confirm # "none" /\ confirm' = "none" /\ done < MaxDone /\ done' = done + 1
  /\ \E e \in SelectedRole : IF confirm = "reject" THEN Reject(e) ELSE SetPowerLevel(e, confirm)
  /\ UNCHANGED <<talk, roomList, rolesPage, fetches, selected, fetched, misses>>

\* setPowerLevel fails: nothing else happens.
ConfirmFails ==
  /\ confirm \in Roles /\ confirm' = "none" /\ misses < MaxMisses /\ misses' = misses + 1
  /\ UNCHANGED <<talk, power, roomList, rolesPage, fetches, selected, work, fetched, done, promoted>>

\* removeRoleInvite, whose redactions may fail, and fetchRoles after it.
AfterAction(w) ==
  /\ work' = work \ {w}
  /\ IF w.invitation = NoEntry THEN UNCHANGED <<invitations, talk>>
     ELSE /\ invitations' = {i \in invitations : i.room # w.invitation.room}
          /\ \E gone \in SUBSET ({w.invitation.ask, w.invitation.disclosed} \ {0}) :
               talk' = [i \in DOMAIN talk |-> [talk[i] EXCEPT !.redacted = @ \/ i \in gone]]
  /\ fetches' = fetches \cup {[more |-> FALSE, close |-> TRUE]} /\ page' = Unset
  /\ UNCHANGED <<power, roomList, entries, more, loadingMore, selected, confirm, fetched, misses, done, promoted>>

-----------------------------------------------------------------------------
RolesNext ==
  \/ AskDisclosure \/ \E who \in {"user", "admin"} : Disclose(who)
  \/ FetchRoles \/ LoadMore \/ \E f \in fetches : Fetched(f)
  \/ \E r \in RoleRooms : SyncRoomList(r)
  \/ \E e \in entries : SelectRole(e)
  \/ AskToConfirm \/ Cancel \/ Confirm \/ ConfirmFails
  \/ \E w \in work : AfterAction(w)

RolesSpec == RolesInit /\ [][RolesNext]_rolesVars

-----------------------------------------------------------------------------
\* Nobody gets a role who was not asked for that room and has not disclosed
\* attributes: not by what the administrator disclosed in the same
\* conversation, by a list that is old, by pages that arrive in another order
\* or by requests that fail.
PromotedAfterDisclosure ==
  \A p \in promoted : p.asked # {} /\ p.disclosed

\* manage-roles.composable.ts:240: "Add invitations to entries based on
\* purpose": who becomes a steward was asked to become one.
PromotedAsAsked == \A p \in promoted : p.role \in p.asked
=============================================================================
