------------------------------ MODULE Sanctions ------------------------------
(***************************************************************************)
(* Sanctions in a room (composables/moderation/*.ts, RoomMemberList.vue,   *)
(* the dialogs it opens, the bars of MessageInput.vue).  Stewards warn     *)
(* (yellow card), time out, remove and ban (red card) members.  All        *)
(* warnings of a room are in one state event and all timeouts in another,  *)
(* which a steward's client reads from what it knows, changes and sends    *)
(* back whole.  The member, in several sessions, sees a bar for a warning  *)
(* until it accepts that one; what it accepted is in its own account data. *)
(***************************************************************************)
EXTENDS Integers, FiniteSets

CONSTANTS Stewards, Members,
          Me,        \* the member whose sessions are modelled
          Sessions,
          SRooms, Nowhere,
          MaxClock,  \* bound on time, which also bounds warnings and timeouts
          MaxPosts   \* bound on requests of stewards

VARIABLES
  state,     \* state[r]: the state of the room at the hub
  data,      \* data[r]: account data of Me, the warning it accepted, 0 for none
  known,     \* known[c][r]: state[r] as far as the client c has heard of it
  knownData, \* knownData[s][r]: data[r], as far as the session s has heard of it
  view,      \* view[c]: rooms.currentRoom
  panel,     \* panel[p]: selectedMemberId of useSidebar, "" for the list
  dialog,    \* dialog[p]: the dialog of RoomMemberList.vue that is visible
  posts,     \* requests of stewards that the hub has not yet received
  agreed,    \* agreed[s]: acceptedIssuedAt
  accepting, \* accepting[s]: calls of acceptYellowCard that wait
  until,     \* until[s]: timeout_until of currentUserTimeoutInfo, 0 for none
  bar,       \* bar[s]: TimeoutNotificationBar
  clock, made,
  issued, withdrawn, accepted \* history: warnings that were issued, revoked, accepted

hubVars == <<state, data>>
stewardVars == <<panel, dialog>>
sessionVars == <<agreed, accepting, until, bar>>
history == <<issued, withdrawn, accepted>>
sanctionVars == <<hubVars, known, knownData, view, stewardVars, posts, sessionVars, clock, made, history>>

Clients == Stewards \cup Sessions
Memberships == {"join", "leave", "ban", "unbanned"}  \* unbanned: leave after ban
NoDialog == [kind |-> "none", room |-> Nowhere, member |-> Me]
Warning(r, m, t) == [room |-> r, member |-> m, at |-> t]

States == [warnings: [Members -> 0..MaxClock], timeouts: [Members -> 0..MaxClock + 1],
           membership: [Members -> Memberships]]
NoState == [warnings |-> [m \in Members |-> 0], timeouts |-> [m \in Members |-> 0],
            membership |-> [m \in Members |-> "join"]]

SanctionTypeOK ==
  /\ \A r \in SRooms : state[r] \in States /\ data[r] \in 0..MaxClock
  /\ \A c \in Clients : view[c] \in SRooms \cup {Nowhere} /\ \A r \in SRooms : known[c][r] \in States
  /\ \A p \in Stewards : panel[p] \in Members \cup {Nowhere} /\ dialog[p].room \in SRooms \cup {Nowhere}
  /\ \A s \in Sessions : /\ agreed[s] \in 0..MaxClock /\ until[s] \in 0..MaxClock + 1
                         /\ bar[s] \in {"none", "mounting", "running", "over"}
                         /\ (until[s] = 0) = (bar[s] = "none")
  /\ clock \in 0..MaxClock /\ made \in 0..MaxPosts /\ Cardinality(posts) <= made

SanctionInit ==
  /\ state = [r \in SRooms |-> NoState] /\ data = [r \in SRooms |-> 0]
  /\ known = [c \in Clients |-> [r \in SRooms |-> NoState]]
  /\ knownData = [s \in Sessions |-> [r \in SRooms |-> 0]]
  /\ view \in [Clients -> SRooms]
  /\ panel = [p \in Stewards |-> Nowhere] /\ dialog = [p \in Stewards |-> NoDialog]
  /\ posts = {}
  /\ agreed = [s \in Sessions |-> 0] /\ accepting = [s \in Sessions |-> {}]
  /\ until = [s \in Sessions |-> 0] /\ bar = [s \in Sessions |-> "none"]
  /\ clock = 0 /\ made = 0
  /\ issued = {} /\ withdrawn = {} /\ accepted = {}

-----------------------------------------------------------------------------
(* What a client shows of the state it knows.                              *)

\* The room in view, as the client c knows it: getCurrentRoom.
InView(c) == known[c][view[c]]

\* getRoomMembers; stewards and experts are not among Members.
PlainMembers(st) == {m \in Members : st.membership[m] = "join"}
ActiveTimeout(st, m) == IF st.timeouts[m] > clock THEN st.timeouts[m] ELSE 0
RedCards(st) == {m \in Members : st.membership[m] = "ban"}
RevokedRedCards(st) == {m \in Members : st.membership[m] = "unbanned"}

\* Any warning counts as accepted once one is.
IsWarnedOnce(s) == InView(s).warnings[Me] # 0 /\ agreed[s] = 0

\* isCurrentUserWarned: a warning that is not the one accepted.
IsWarned(s) == LET info == InView(s).warnings[Me] IN info # 0 /\ agreed[s] # info

\* selectedMemberStillPresent
StillPresent(st, m) ==
  \/ m \in PlainMembers(st) \cup RedCards(st) \cup RevokedRedCards(st)
  \/ st.warnings[m] # 0 \/ ActiveTimeout(st, m) # 0

\* getMemberUserDetailsMenuItems and getRedCardUserDetails: what a steward is
\* offered for a member.
Offered(st, m) ==
  IF m \in RedCards(st) THEN {"revokeRed"}
  ELSE IF m \in PlainMembers(st)
       THEN {"kick", "yellow", "red", IF ActiveTimeout(st, m) # 0 THEN "revokeTimeout" ELSE "timeout"}
            \cup (IF st.warnings[m] # 0 THEN {"revokeYellow"} ELSE {})
       ELSE {}

-----------------------------------------------------------------------------
(* Stewards.  The member list stays when the steward goes to another room, *)
(* and a dialog with it, which keeps the room it was opened for.           *)

Rest(p) == UNCHANGED <<hubVars, known, knownData, sessionVars>>

OpenProfile(p, m) ==
  /\ view[p] # Nowhere /\ panel[p] = Nowhere /\ StillPresent(InView(p), m)
  /\ panel' = [panel EXCEPT ![p] = m]
  /\ Rest(p) /\ UNCHANGED <<view, dialog, posts, clock, made, history>>

OpenDialog(p, kind) ==
  /\ panel[p] # Nowhere /\ dialog[p] = NoDialog /\ kind \in Offered(InView(p), panel[p])
  /\ kind \in {"kick", "timeout", "yellow", "red"}
  /\ dialog' = [dialog EXCEPT ![p] = [kind |-> kind, room |-> view[p], member |-> panel[p]]]
  /\ Rest(p) /\ UNCHANGED <<view, panel, posts, clock, made, history>>

CloseDialog(p) ==
  /\ dialog[p] # NoDialog /\ dialog' = [dialog EXCEPT ![p] = NoDialog]
  /\ Rest(p) /\ UNCHANGED <<view, panel, posts, clock, made, history>>

\* A request: "warnings" and "timeouts" carry the whole content of the event.
Post(r, what, m, content) ==
  /\ made < MaxPosts /\ made' = made + 1
  /\ posts' = posts \cup {[room |-> r, what |-> what, member |-> m, content |-> content, nr |-> made]}

\* issueYellowCard: the content is made of the warnings in the room in view.
IssueYellowCard(p, r, m) ==
  /\ clock < MaxClock /\ clock' = clock + 1
  /\ Post(r, "warnings", m, [InView(p).warnings EXCEPT ![m] = clock + 1])
  /\ UNCHANGED history

\* issueTimeout, for one or two units of time.
IssueTimeout(p, r, m) ==
  /\ \E d \in 1..2 : clock + d <= MaxClock + 1 /\ Post(r, "timeouts", m, [InView(p).timeouts EXCEPT ![m] = clock + d])
  /\ UNCHANGED <<clock, history>>

\* onYellowCardDialogSubmit, onTimeoutDialogSubmit, onRedCardDialogSubmit and
\* onKickDialogSubmit; the dialog closes in any case.
Submit(p) ==
  LET d == dialog[p] IN
  /\ d # NoDialog /\ view[p] # Nowhere
  /\ CASE d.kind = "yellow" -> IssueYellowCard(p, d.room, d.member)
       [] d.kind = "timeout" -> IssueTimeout(p, d.room, d.member)
       [] d.kind = "red" -> Post(d.room, "ban", d.member, 0) /\ UNCHANGED <<clock, history>>
       [] d.kind = "kick" -> Post(d.room, "kick", d.member, 0) /\ UNCHANGED <<clock, history>>
  /\ dialog' = [dialog EXCEPT ![p] = NoDialog]
  /\ Rest(p) /\ UNCHANGED <<view, panel>>

\* revokeYellowCard
RevokeYellowCard(p, m) ==
  /\ Post(view[p], "warnings", m, [InView(p).warnings EXCEPT ![m] = 0])
  /\ withdrawn' = withdrawn \cup {w \in issued : w.room = view[p] /\ w.member = m}
  /\ UNCHANGED <<issued, accepted>>

\* revokeTimeout and revokeRedCard
Revoke(p) ==
  LET m == panel[p] IN
  /\ m # Nowhere
  /\ \E kind \in Offered(InView(p), m) :
       \/ kind = "revokeYellow" /\ RevokeYellowCard(p, m)
       \/ kind = "revokeTimeout" /\ UNCHANGED history /\ Post(view[p], "timeouts", m, [InView(p).timeouts EXCEPT ![m] = 0])
       \/ kind = "revokeRed" /\ UNCHANGED history /\ Post(view[p], "unban", m, 0)
  /\ Rest(p) /\ UNCHANGED <<view, panel, dialog, clock>>

\* The steward goes to another room: the panel returns to the list.
StewardMoves(p) ==
  /\ \E r \in SRooms \ {view[p]} : view' = [view EXCEPT ![p] = r]
  /\ panel' = [panel EXCEPT ![p] = Nowhere]
  /\ Rest(p) /\ UNCHANGED <<dialog, posts, clock, made, history>>

-----------------------------------------------------------------------------
(* The hub.                                                                *)

Received(q, st) ==
  CASE q.what = "warnings" -> [st EXCEPT !.warnings = q.content]
    [] q.what = "timeouts" -> [st EXCEPT !.timeouts = q.content]
    [] q.what = "ban" -> [st EXCEPT !.membership[q.member] = "ban"]
    [] q.what = "kick" -> IF st.membership[q.member] = "join" THEN [st EXCEPT !.membership[q.member] = "leave"] ELSE st
    [] q.what = "unban" -> IF st.membership[q.member] = "ban" THEN [st EXCEPT !.membership[q.member] = "unbanned"] ELSE st

\* A request arrives, or is lost: nobody tries again.
Receive(q) ==
  /\ posts' = posts \ {q}
  /\ \/ /\ state' = [state EXCEPT ![q.room] = Received(q, @)]
        /\ issued' = IF q.what = "warnings" /\ q.content[q.member] # 0
                     THEN issued \cup {Warning(q.room, q.member, q.content[q.member])} ELSE issued
     \/ UNCHANGED <<state, issued>>
  /\ UNCHANGED <<data, known, knownData, view, stewardVars, sessionVars, clock, made, withdrawn, accepted>>

\* A member who was removed joins the room again (handleKick).
Rejoin(r, m) ==
  /\ state[r].membership[m] \in {"leave", "unbanned"} /\ made < MaxPosts /\ made' = made + 1
  /\ state' = [state EXCEPT ![r].membership[m] = "join"]
  /\ UNCHANGED <<data, known, knownData, view, stewardVars, posts, sessionVars, clock, history>>

-----------------------------------------------------------------------------
(* What clients hear by sliding sync.                                      *)

\* currentUserTimeoutInfo is computed anew, and its bar with it.  A bar that
\* is there stays and counts down to the new end.
Recompute(s, st) ==
  LET u == ActiveTimeout(st, Me) IN
  /\ until' = [until EXCEPT ![s] = u]
  /\ bar' = [bar EXCEPT ![s] = IF u = 0 THEN "none" ELSE IF @ = "none" THEN "mounting" ELSE IF @ = "over" THEN "running" ELSE @]

SyncSteward(p, r) ==
  /\ known[p][r] # state[r] /\ known' = [known EXCEPT ![p][r] = state[r]]
  /\ panel' = [panel EXCEPT ![p] = IF view[p] = r /\ @ # Nowhere /\ ~StillPresent(state[r], @) THEN Nowhere ELSE @]
  /\ UNCHANGED <<hubVars, knownData, view, dialog, posts, sessionVars, clock, made, history>>

\* A session of Me that hears that Me was removed or banned leaves the page
\* (watchEffect of Room.vue).
SyncSession(s, r) ==
  /\ known[s][r] # state[r] /\ known' = [known EXCEPT ![s][r] = state[r]]
  /\ IF view[s] # r THEN UNCHANGED <<view, until, bar>>
     ELSE IF state[r].membership[Me] = "join" THEN Recompute(s, state[r]) /\ UNCHANGED view
     ELSE view' = [view EXCEPT ![s] = Nowhere] /\ until' = [until EXCEPT ![s] = 0] /\ bar' = [bar EXCEPT ![s] = "none"]
  /\ UNCHANGED <<hubVars, knownData, stewardVars, posts, agreed, accepting, clock, made, history>>

\* onRoomAccountData, of the room in view.
SyncAccountData(s, r) ==
  /\ knownData[s][r] # data[r] /\ knownData' = [knownData EXCEPT ![s][r] = data[r]]
  /\ agreed' = [agreed EXCEPT ![s] = IF view[s] = r THEN data[r] ELSE @]
  /\ UNCHANGED <<hubVars, known, view, stewardVars, posts, accepting, until, bar, clock, made, history>>

-----------------------------------------------------------------------------
(* The member.                                                             *)

\* Another room is in view: syncAcceptedFromAccountData.
SessionMoves(s) ==
  \E r \in SRooms \ {view[s]} :
    /\ known[s][r].membership[Me] = "join"
    /\ view' = [view EXCEPT ![s] = r] /\ agreed' = [agreed EXCEPT ![s] = knownData[s][r]]
    /\ Recompute(s, known[s][r])
    /\ UNCHANGED <<hubVars, known, knownData, stewardVars, posts, accepting, clock, made, history>>

\* acceptYellowCard up to its await.
AcceptYellowCard(s) ==
  LET info == Warning(view[s], Me, InView(s).warnings[Me]) IN
  /\ view[s] # Nowhere /\ IsWarned(s)
  /\ accepting' = [accepting EXCEPT ![s] = @ \cup {[warning |-> info, stored |-> FALSE]}]
  /\ accepted' = accepted \cup {info}
  /\ UNCHANGED <<hubVars, known, knownData, view, stewardVars, posts, agreed, until, bar, clock, made, issued, withdrawn>>

\* setRoomAccountData at the hub, or its failure.
Store(s, a) ==
  /\ ~a.stored
  /\ \/ /\ data' = [data EXCEPT ![a.warning.room] = a.warning.at]
        /\ accepting' = [accepting EXCEPT ![s] = (@ \ {a}) \cup {[a EXCEPT !.stored = TRUE]}]
     \/ UNCHANGED data /\ accepting' = [accepting EXCEPT ![s] = @ \ {a}]
  /\ UNCHANGED <<state, known, knownData, view, stewardVars, posts, agreed, until, bar, clock, made, history>>

\* acceptYellowCard after its await, whatever the room in view is then.
Accepted(s, a) ==
  /\ a.stored /\ accepting' = [accepting EXCEPT ![s] = @ \ {a}]
  /\ agreed' = [agreed EXCEPT ![s] = a.warning.at]
  /\ UNCHANGED <<hubVars, known, knownData, view, stewardVars, posts, until, bar, clock, made, history>>

\* TimeoutNotificationBar: mounted, and each second after.  It says that the
\* timeout is over only if it has seen it run.
BarMounted(s) ==
  /\ bar[s] = "mounting" /\ bar' = [bar EXCEPT ![s] = IF until[s] > clock THEN "running" ELSE "over"]
  /\ UNCHANGED <<hubVars, known, knownData, view, stewardVars, posts, agreed, accepting, until, clock, made, history>>

TimeoutExpired(s) ==
  /\ bar[s] = "running" /\ until[s] <= clock /\ Recompute(s, InView(s))
  /\ UNCHANGED <<hubVars, known, knownData, view, stewardVars, posts, agreed, accepting, clock, made, history>>

Tick ==
  /\ clock < MaxClock /\ clock' = clock + 1
  /\ UNCHANGED <<hubVars, known, knownData, view, stewardVars, posts, sessionVars, made, history>>

-----------------------------------------------------------------------------
SanctionNext ==
  \/ \E p \in Stewards : \/ \E m \in Members : OpenProfile(p, m)
                         \/ \E kind \in {"kick", "timeout", "yellow", "red"} : OpenDialog(p, kind)
                         \/ CloseDialog(p) \/ Submit(p) \/ Revoke(p) \/ StewardMoves(p)
                         \/ \E r \in SRooms : SyncSteward(p, r)
  \/ \E q \in posts : Receive(q)
  \/ \E r \in SRooms, m \in Members : Rejoin(r, m)
  \/ \E s \in Sessions : \/ \E r \in SRooms : SyncSession(s, r) \/ SyncAccountData(s, r)
                         \/ SessionMoves(s) \/ AcceptYellowCard(s) \/ BarMounted(s) \/ TimeoutExpired(s)
                         \/ \E a \in accepting[s] : Store(s, a) \/ Accepted(s, a)
  \/ Tick

SanctionSpec == SanctionInit /\ [][SanctionNext]_sanctionVars

-----------------------------------------------------------------------------
\* A warning is silent, in a session that has heard of it and has its room in
\* view, only if the member accepted it: that one, or the same one in a room it
\* was copied from, whatever else was accepted, in this room or in another.
NewWarningShows ==
  \A s \in Sessions : view[s] # Nowhere /\ InView(s).warnings[Me] # 0 /\ ~IsWarned(s)
                        => \E r \in SRooms : Warning(r, Me, InView(s).warnings[Me]) \in accepted

\* "that exact warning" would have it that the room is the same.  But a dialog that
\* was opened in one room and is submitted with another in view sends the warnings
\* of the one in view to the first (issueYellowCard).
AcceptedThere ==
  \A s \in Sessions : view[s] # Nowhere /\ InView(s).warnings[Me] # 0 /\ ~IsWarned(s)
                        => Warning(view[s], Me, InView(s).warnings[Me]) \in accepted

\* yellow-card.composable.ts:72: "A warning keeps nagging the user until they
\* accept that exact warning": once its request has arrived, a warning that was
\* neither accepted nor revoked is in the state of its room, or a later one is.
KeepsNagging ==
  \A w \in issued \ (withdrawn \cup accepted) :
    (posts = {} /\ w.member = Me) => state[w.room].warnings[Me] >= w.at
=============================================================================
