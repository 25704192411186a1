------------------------------- MODULE RoomPerms -------------------------------
(***************************************************************************)
(* The form in which a hub administrator sets the level of one user in each   *)
(* of that user's public rooms (UserInRoomsForm.vue, Administrator).  A       *)
(* change is sent when it is picked, for one row at a time, and only from     *)
(* inside the room: the administrator joins for the occasion and leaves after *)
(* it.  The form can be closed, and opened again, while a change is under way.*)
(***************************************************************************)
EXTENDS Naturals, FiniteSets

CONSTANTS Rooms, Levels,
          MaxOpens, MaxPicks, MaxOthers, MaxFaults \* bounds

NoRoom == "no room"

VARIABLES
  level,            \* of the user in each room, on the server
  joined,           \* the rooms the administrator is in, on the server
  own,              \* history: those that he is in whatever the form does
  form,             \* closed, or what is being loaded, or how far that came
  shown,            \* the level in each row
  savedPl, adminJoinedRooms, savingRoomId, rowSaved, rowError,
  tasks,            \* calls of onRoleChange under way, also of closed forms
  touched,          \* history: rooms whose level something else changed since
  blind,            \* history: the form could not load the rooms of the administrator
  stuck,            \* history: rooms that the administrator failed to leave
  opens, picks, others, faults

serverVars == <<level, joined, own>>
formVars == <<form, shown, savedPl, adminJoinedRooms, savingRoomId, rowSaved, rowError>>
historyVars == <<touched, blind, stuck>>
countVars == <<opens, picks, others, faults>>
permsVars == <<serverVars, formVars, tasks, historyVars, countVars>>

Task == [room : Rooms, level : Levels, wasMember : BOOLEAN, form : 1 .. MaxOpens,
         step : {"join", "change", "leave"}]
HasRows == form \in {"rooms", "ready"}
Rows == IF HasRows THEN Rooms ELSE {}
Fault == faults < MaxFaults /\ faults' = faults + 1

PermsTypeOK ==
  /\ level \in [Rooms -> Levels] /\ joined \subseteq Rooms /\ own \subseteq Rooms
  /\ form \in {"closed", "levels", "rooms", "ready", "empty"}
  /\ shown \in [Rooms -> Levels] /\ savedPl \in [Rooms -> Levels]
  /\ adminJoinedRooms \subseteq Rooms /\ savingRoomId \in Rooms \cup {NoRoom}
  /\ rowSaved \subseteq Rooms /\ rowError \subseteq Rooms /\ rowSaved \cap rowError = {}
  /\ tasks \subseteq Task /\ \A t, u \in tasks : t.form = u.form => t = u
  /\ touched \subseteq Rooms /\ stuck \subseteq Rooms /\ blind \in BOOLEAN

PermsInit ==
  /\ level \in [Rooms -> Levels] /\ own \in SUBSET Rooms /\ joined = own
  /\ form = "closed" /\ shown = level /\ savedPl = level /\ adminJoinedRooms = {}
  /\ savingRoomId = NoRoom /\ rowSaved = {} /\ rowError = {} /\ tasks = {}
  /\ touched = {} /\ blind = FALSE /\ stuck = {}
  /\ opens = 0 /\ picks = 0 /\ others = 0 /\ faults = 0

-----------------------------------------------------------------------------
(* The form is mounted anew each time: first the levels are loaded, then the *)
(* rooms that the administrator is in himself.                              *)

Open ==
  /\ form = "closed" /\ opens < MaxOpens /\ opens' = opens + 1
  /\ form' = "levels" /\ savingRoomId' = NoRoom /\ rowSaved' = {} /\ rowError' = {}
  /\ adminJoinedRooms' = {}
  /\ UNCHANGED <<serverVars, shown, savedPl, tasks, historyVars, picks, others, faults>>

\* What the state of each room says of the user.
UserPermissions == level

LoadLevels ==
  /\ form = "levels" /\ form' = "rooms" /\ shown' = UserPermissions /\ savedPl' = UserPermissions
  /\ touched' = {}
  /\ UNCHANGED <<serverVars, adminJoinedRooms, savingRoomId, rowSaved, rowError, tasks, blind, stuck, countVars>>

LoadRooms ==
  /\ form = "rooms" /\ form' = "ready" /\ adminJoinedRooms' = joined
  /\ UNCHANGED <<serverVars, shown, savedPl, savingRoomId, rowSaved, rowError, tasks, historyVars, countVars>>

\* The rows that were loaded are shown nevertheless.
LoadFails ==
  /\ form \in {"levels", "rooms"} /\ Fault
  /\ form' = IF form = "levels" THEN "empty" ELSE "ready"
  /\ blind' = (blind \/ form = "rooms")
  /\ UNCHANGED <<serverVars, shown, savedPl, adminJoinedRooms, savingRoomId, rowSaved, rowError, tasks,
                 touched, stuck, opens, picks, others>>

CloseForm ==
  /\ form # "closed" /\ form' = "closed"
  /\ UNCHANGED <<serverVars, shown, savedPl, adminJoinedRooms, savingRoomId, rowSaved, rowError, tasks,
                 historyVars, countVars>>

-----------------------------------------------------------------------------
(* onRoleChange, which the row calls when its level has been changed.       *)

\* The rows are hidden while they are loaded; that of a change under way is disabled.
Pick(r, l) ==
  /\ form = "ready" /\ r # savingRoomId /\ l # shown[r] /\ picks < MaxPicks /\ picks' = picks + 1
  /\ shown' = [shown EXCEPT ![r] = l]
  /\ UNCHANGED <<serverVars, form, savedPl, adminJoinedRooms, historyVars, opens, others, faults>>

Ignored(r, l) ==
  /\ Pick(r, l) /\ (l = savedPl[r] \/ savingRoomId # NoRoom)
  /\ UNCHANGED <<savingRoomId, rowSaved, rowError, tasks>>

OnRoleChange(r, l) ==
  /\ Pick(r, l) /\ l # savedPl[r] /\ savingRoomId = NoRoom /\ savingRoomId' = r
  /\ rowSaved' = rowSaved \ {r} /\ rowError' = rowError \ {r}
  /\ LET was == r \in adminJoinedRooms IN
     tasks' = tasks \cup {[room |-> r, level |-> l, wasMember |-> was, form |-> opens,
                           step |-> IF was THEN "change" ELSE "join"]}

MovesTo(t, s) == tasks' = (tasks \ {t}) \cup {[t EXCEPT !.step = s]}
\* What a call tells a form that is gone, nobody sees.
Seen(t) == form # "closed" /\ t.form = opens

\* joinRoom reports an error itself and lets its caller go on.
JoinRoom(t) ==
  /\ t.step = "join" /\ MovesTo(t, "change")
  /\ \/ joined' = joined \cup {t.room} /\ UNCHANGED faults
     \/ Fault /\ UNCHANGED joined
  /\ UNCHANGED <<level, own, formVars, historyVars, opens, picks, others>>

\* After the change, for better or for worse: leave, or be done.
AfterChange(t) ==
  IF t.wasMember
  THEN tasks' = tasks \ {t} /\ savingRoomId' = IF Seen(t) THEN NoRoom ELSE savingRoomId
  ELSE MovesTo(t, "leave") /\ UNCHANGED savingRoomId

ChangePermission(t) ==
  /\ t.step = "change" /\ t.room \in joined /\ level' = [level EXCEPT ![t.room] = t.level]
  /\ AfterChange(t)
  /\ savedPl' = IF Seen(t) THEN [savedPl EXCEPT ![t.room] = t.level] ELSE savedPl
  /\ rowSaved' = IF Seen(t) THEN rowSaved \cup {t.room} ELSE rowSaved
  /\ touched' = IF Seen(t) THEN touched ELSE touched \cup {t.room}
  /\ UNCHANGED <<joined, own, form, shown, adminJoinedRooms, rowError, blind, stuck, countVars>>

\* The row shows again what it showed before.
Reverted(t, pl) == [shown EXCEPT ![t.room] = pl[t.room]]
\* slip: the level is taken for saved before the server has confirmed it
TakenForSaved(t, pl) == [pl EXCEPT ![t.room] = t.level]
Confirmed(t, pl) == pl

\* The administrator is not in the room or has no say there, or the answer is lost.
ChangeFails(t) ==
  /\ t.step = "change" /\ AfterChange(t)
  /\ \/ t.room \notin joined /\ UNCHANGED <<level, faults>>
     \/ Fault /\ t.room \in joined /\ level' \in {level, [level EXCEPT ![t.room] = t.level]}
  /\ savedPl' = IF Seen(t) THEN Confirmed(t, savedPl) ELSE savedPl
  /\ shown' = IF Seen(t) THEN Reverted(t, savedPl) ELSE shown
  /\ rowError' = IF Seen(t) THEN rowError \cup {t.room} ELSE rowError
  /\ touched' = IF level' = level THEN touched ELSE touched \cup {t.room}
  /\ UNCHANGED <<joined, own, form, adminJoinedRooms, rowSaved, blind, stuck, opens, picks, others>>

\* A failure to leave is not told.
LeaveRoom(t) ==
  /\ t.step = "leave" /\ tasks' = tasks \ {t}
  /\ savingRoomId' = IF Seen(t) THEN NoRoom ELSE savingRoomId
  /\ \/ joined' = joined \ {t.room} /\ UNCHANGED <<stuck, faults>>
     \/ Fault /\ t.room \in joined /\ stuck' = stuck \cup {t.room} /\ UNCHANGED joined
  /\ UNCHANGED <<level, own, form, shown, savedPl, adminJoinedRooms, rowSaved, rowError, touched, blind,
                 opens, picks, others>>

\* Another administrator changes the level.
OtherChanges(r, l) ==
  /\ others < MaxOthers /\ others' = others + 1 /\ l # level[r]
  /\ level' = [level EXCEPT ![r] = l] /\ touched' = touched \cup {r}
  /\ UNCHANGED <<joined, own, formVars, tasks, blind, stuck, opens, picks, faults>>

PermsNext ==
  \/ Open \/ LoadLevels \/ LoadRooms \/ LoadFails \/ CloseForm
  \/ \E r \in Rooms, l \in Levels : Ignored(r, l) \/ OnRoleChange(r, l) \/ OtherChanges(r, l)
  \/ \E t \in tasks : JoinRoom(t) \/ ChangePermission(t) \/ ChangeFails(t) \/ LeaveRoom(t)

PermsSpec == PermsInit /\ [][PermsNext]_permsVars

-----------------------------------------------------------------------------
\* The level to which a row falls back is that of the user in the room, unless something
\* else changed it since the form was loaded.  Between changes the administrator
\* is in no room but his own and those he failed to leave, whatever failed; and
\* he is in his own, unless the form could not find out which those are.
FormKeepsPace ==
  /\ \A r \in Rows \ touched : savedPl[r] = level[r]
  /\ tasks = {} => joined \ own \subseteq stuck
  /\ blind \/ own \subseteq joined

\* "Role changes apply per row, immediately": between changes every row shows the
\* level that was last saved.
AppliedImmediately ==
  form = "ready" /\ savingRoomId = NoRoom => shown = savedPl
=============================================================================
