----------------------------- MODULE TalkProofs -----------------------------
(***************************************************************************)
(* Theorems about what is said and done in a room, for any numbers of      *)
(* rooms, files, messages and calls.  For each component an invariant is   *)
(* shown of its own steps; Parts carries it over to the composition.       *)
(***************************************************************************)
EXTENDS MCTalk, Integers, Sequences, SequenceTheorems, FiniteSetTheorems,
        WellFoundedInduction, TLAPS

\* A behaviour that looks at a component starts as it does and takes its steps.
LEMMA Parts ==
  /\ Init =>
       /\ part = "voting" => voting!VotingInit
       /\ part = "roles" => roles!RolesInit
       /\ part = "sanctions" => sanctions!SanctionInit
       /\ part = "reports" => reports!ReportsInit
       /\ part = "compose" => compose!ComposeInit
       /\ part = "uploads" => uploads!UploadsInit
       /\ part = "perms" => perms!PermsInit
       /\ part = "takeover" => takeover!TakeOverInit
       /\ part = "search" => search!SearchInit
  /\ [Next]_vars =>
       /\ part' = part
       /\ part = "voting" => voting!VotingNext \/ UNCHANGED votingVars
       /\ part = "roles" => roles!RolesNext \/ UNCHANGED rolesVars
       /\ part = "sanctions" => sanctions!SanctionNext \/ UNCHANGED sanctionsVars
       /\ part = "reports" => reports!ReportsNext \/ UNCHANGED reportsVars
       /\ part = "compose" => compose!ComposeNext \/ UNCHANGED composeVars
       /\ part = "uploads" => uploads!UploadsNext \/ UNCHANGED uploadsVars
       /\ part = "perms" => perms!PermsNext \/ UNCHANGED permsVars
       /\ part = "takeover" => takeover!TakeOverNext \/ UNCHANGED takeoverVars
       /\ part = "search" => search!SearchNext \/ UNCHANGED searchVars
<1>1. ASSUME Init
      PROVE  /\ part = "voting" => voting!VotingInit
             /\ part = "roles" => roles!RolesInit
             /\ part = "sanctions" => sanctions!SanctionInit
             /\ part = "reports" => reports!ReportsInit
             /\ part = "compose" => compose!ComposeInit
             /\ part = "uploads" => uploads!UploadsInit
             /\ part = "perms" => perms!PermsInit
             /\ part = "takeover" => takeover!TakeOverInit
             /\ part = "search" => search!SearchInit
  BY <1>1 DEF Init
<1>2. CASE UNCHANGED vars
  BY <1>1, <1>2 DEF vars
<1>3. CASE Next
  BY <1>1, <1>3 DEF Next, votingNext, rolesNext, sanctionsNext, reportsNext, composeNext,
       uploadsNext, permsNext, takeoverNext, searchNext
<1> QED
  BY <1>1, <1>2, <1>3

-----------------------------------------------------------------------------
(* TakeOver: the previous administrator leaves when the room has another.  *)

Leaving == {"login2", "leave", "poll"}
InRoom == takeover!Me \in members \/ missed

\* What each call of handleActionClick has done when it gets that far.
TakeOverInv ==
  /\ takeover!TakeOverTypeOK
  /\ \A c \in Clicks :
       /\ flow[c] \in {"join", "make"} \cup Leaving => brought
       /\ flow[c] \in {"make"} \cup Leaving => InRoom
       /\ flow[c] \in Leaving => takeover!Me \in takeoverPower
  /\ takeover!HandedOver

\* The steps of a call of handleActionClick.
LEMMA ClickStep ==
  ASSUME TakeOverInv, NEW c \in Clicks,
         \/ takeover!HandleActionClick(c) \/ takeover!ForceRoomJoin(c)
         \/ takeover!ForcedJoinEnds(c) \/ takeover!JoinAsMe(c) \/ takeover!MakeAdmin(c)
         \/ takeover!LoginFails(c) \/ takeover!SetAccessToken(c)
         \/ takeover!LeavePrevAdmin(c) \/ takeover!CompleteFlow(c)
  PROVE  TakeOverInv'
<1> USE DEF TakeOverInv, Leaving, InRoom, takeover!TakeOverTypeOK, takeover!HandedOver,
        takeover!Users, takeover!Me, takeover!Prev, takeover!Steps, takeover!At,
        takeover!GoTo, takeover!Fault, takeover!roomVars, takeover!panelVars,
        takeover!flowVars, takeover!tokenVars, takeover!pastVars
<1>1. CASE takeover!HandleActionClick(c)
  BY <1>1 DEF takeover!HandleActionClick
<1>2. CASE takeover!ForceRoomJoin(c)
  BY <1>2 DEF takeover!ForceRoomJoin
<1>3. CASE takeover!ForcedJoinEnds(c)
  BY ZenonT(60), <1>3 DEF takeover!ForcedJoinEnds, takeover!Joins
<1>4. CASE takeover!JoinAsMe(c)
  BY ZenonT(60), <1>4 DEF takeover!JoinAsMe, takeover!JoinRoom, takeover!Joins
<1>5. CASE takeover!MakeAdmin(c)
  BY ZenonT(60), <1>5 DEF takeover!MakeAdmin, takeover!Stops
<1>6. CASE takeover!LoginFails(c)
  BY <1>6 DEF takeover!LoginFails
<1>7. CASE takeover!SetAccessToken(c)
  BY <1>7 DEF takeover!SetAccessToken
<1>8. CASE takeover!LeavePrevAdmin(c)
  BY ZenonT(60), <1>8 DEF takeover!LeavePrevAdmin, takeover!Stops
<1>9. CASE takeover!CompleteFlow(c)
  BY <1>9 DEF takeover!CompleteFlow
<1> QED
  BY <1>1, <1>2, <1>3, <1>4, <1>5, <1>6, <1>7, <1>8, <1>9

LEMMA TakeOverStep ==
  ASSUME TakeOverInv, takeover!TakeOverNext \/ UNCHANGED takeoverVars
  PROVE  TakeOverInv'
<1>1. CASE \E c \in Clicks :
             \/ takeover!HandleActionClick(c) \/ takeover!ForceRoomJoin(c)
             \/ takeover!ForcedJoinEnds(c) \/ takeover!JoinAsMe(c) \/ takeover!MakeAdmin(c)
             \/ takeover!LoginFails(c) \/ takeover!SetAccessToken(c)
             \/ takeover!LeavePrevAdmin(c) \/ takeover!CompleteFlow(c)
  BY <1>1, ClickStep
<1> USE DEF TakeOverInv, Leaving, InRoom, takeover!TakeOverTypeOK, takeover!HandedOver,
        takeover!Users, takeover!Me, takeover!Prev, takeover!roomVars, takeover!panelVars,
        takeover!flowVars, takeover!tokenVars, takeover!pastVars
<1>2. CASE takeover!PromoteSelectedRoom
  BY <1>2 DEF takeover!PromoteSelectedRoom
<1>3. CASE takeover!Confirm
  BY <1>3 DEF takeover!Confirm
<1>4. CASE takeover!MakeRoomAdmin
  BY ZenonT(60), <1>4 DEF takeover!MakeRoomAdmin
<1>5. CASE takeover!RoomCreatorIsMember
  BY <1>5 DEF takeover!RoomCreatorIsMember
<1>6. CASE takeover!PromoteJoins
  BY <1>6 DEF takeover!PromoteJoins, takeover!JoinRoom, takeover!Joins
<1>7. CASE takeover!FetchRoomCreatorInfo \/ takeover!ClosePanel
  <2>1. CASE takeover!FetchRoomCreatorInfo
    BY <2>1 DEF takeover!FetchRoomCreatorInfo
  <2>2. CASE takeover!ClosePanel
    BY <2>2 DEF takeover!ClosePanel
  <2> QED
    BY <1>7, <2>1, <2>2
<1>8. CASE takeover!PrevComesAndGoes
  <2>1. members' \subseteq takeover!Users /\ (takeover!Me \in members => takeover!Me \in members')
    <3>1. CASE takeover!Prev \in members
      BY <1>8, <3>1 DEF takeover!PrevComesAndGoes
    <3>2. CASE takeover!Prev \notin members
      BY <1>8, <3>2 DEF takeover!PrevComesAndGoes
    <3> QED
      BY <3>1, <3>2
  <2>2. UNCHANGED <<takeoverPower, promote, takeoverPanel, inProgress, flow, takeoverOwn,
                    apiMatrix, client, brought, sentOff, missed>>
    BY <1>8 DEF takeover!PrevComesAndGoes
  <2> QED
    BY <2>1, <2>2
<1>9. CASE UNCHANGED takeoverVars
  BY <1>9 DEF takeoverVars
<1> QED
  BY <1>1, <1>2, <1>3, <1>4, <1>5, <1>6, <1>7, <1>8, <1>9 DEF takeover!TakeOverNext

LEMMA TakeOverStart == takeover!TakeOverInit => TakeOverInv
  BY DEF takeover!TakeOverInit, TakeOverInv, Leaving, InRoom, takeover!TakeOverTypeOK,
       takeover!HandedOver, takeover!Users, takeover!Me, takeover!Prev, takeover!Steps

-----------------------------------------------------------------------------
(* RoomPerms: the form of levels.                                          *)

\* The levels to which rows fall back are those on the server.
LevelInv ==
  /\ level \in [Rooms -> Levels] /\ savedPl \in [Rooms -> Levels] /\ shown \in [Rooms -> Levels]
  /\ form \in {"closed", "levels", "rooms", "ready", "empty"}
  /\ touched \subseteq Rooms
  /\ form \in {"rooms", "ready"} => \A r \in Rooms \ touched : savedPl[r] = level[r]

\* Whoever joined for the occasion has a call under way that will leave, and
\* the form knows the rooms of its administrator.
RoomInv ==
  /\ joined \subseteq Rooms /\ own \subseteq Rooms /\ stuck \subseteq Rooms
  /\ adminJoinedRooms \subseteq Rooms /\ blind \in BOOLEAN
  /\ tasks \subseteq perms!Task
  /\ \A t \in tasks : t.step \in {"join", "leave"} => ~t.wasMember
  /\ \A r \in joined \ own : r \in stuck \/ \E t \in tasks : t.room = r /\ ~t.wasMember /\ t.step # "join"
  /\ blind \/ own \subseteq joined
  /\ blind \/ \A t \in tasks : ~t.wasMember => t.room \notin own
  /\ form = "ready" => blind \/ own \subseteq adminJoinedRooms

\* A form has one call under way, for the row that is disabled.
SavingInv ==
  /\ opens \in 0 .. MaxOpens
  /\ form # "closed" => opens > 0
  /\ savingRoomId \in Rooms \cup {perms!NoRoom}
  /\ rowSaved \subseteq Rooms /\ rowError \subseteq Rooms /\ rowSaved \cap rowError = {}
  /\ \A t \in tasks : t.form <= opens
  /\ \A t, u \in tasks : t.form = u.form => t = u
  /\ form # "closed" => \A t \in tasks : t.form = opens =>
       savingRoomId = t.room /\ (t.step # "leave" => t.room \notin rowSaved \cup rowError)

PermsInv == LevelInv /\ RoomInv /\ SavingInv

LEMMA PermsStart ==
  ASSUME perms!PermsInit, MaxOpens \in Nat
  PROVE  PermsInv
<1>1. LevelInv
  BY DEF perms!PermsInit, LevelInv
<1>2. RoomInv
  BY DEF perms!PermsInit, RoomInv
<1>3. SavingInv
  BY DEF perms!PermsInit, SavingInv
<1> QED
  BY <1>1, <1>2, <1>3 DEF PermsInv

\* The form is opened, loaded and closed.
LEMMA FormStep ==
  ASSUME PermsInv, MaxOpens \in Nat,
         \/ perms!Open \/ perms!LoadLevels \/ perms!LoadRooms \/ perms!LoadFails
         \/ perms!CloseForm
  PROVE  PermsInv'
<1> USE DEF PermsInv, perms!serverVars, perms!historyVars, perms!countVars
<1>1. CASE perms!Open
  <2>1. LevelInv' /\ RoomInv'
    BY <1>1 DEF perms!Open, LevelInv, RoomInv
  <2>2. SavingInv'
    <3>1. \A t \in tasks : t.form \in 1 .. MaxOpens /\ t.form <= opens
      BY DEF RoomInv, SavingInv, perms!Task
    <3>2. /\ form = "closed" /\ opens < MaxOpens /\ opens' = opens + 1 /\ tasks' = tasks
          /\ savingRoomId' = perms!NoRoom /\ rowSaved' = {} /\ rowError' = {}
      BY <1>1 DEF perms!Open
    <3>3. opens \in 0 .. MaxOpens
      BY DEF SavingInv
    <3>4. opens' \in 0 .. MaxOpens /\ opens' > 0 /\ \A t \in tasks : t.form < opens'
      BY <3>1, <3>2, <3>3
    <3>5. \A t \in tasks' : t.form <= opens' /\ t.form # opens'
      BY <3>1, <3>2, <3>3
    <3> QED
      BY <3>2, <3>4, <3>5 DEF SavingInv
  <2> QED
    BY <2>1, <2>2
<1>2. CASE perms!LoadLevels
  <2>1. LevelInv'
    BY <1>2 DEF perms!LoadLevels, LevelInv, perms!UserPermissions
  <2>2. RoomInv'
    BY <1>2 DEF perms!LoadLevels, RoomInv
  <2>3. SavingInv'
    BY <1>2 DEF perms!LoadLevels, SavingInv
  <2> QED
    BY <2>1, <2>2, <2>3
<1>3. CASE perms!LoadRooms
  <2>1. LevelInv'
    BY <1>3 DEF perms!LoadRooms, LevelInv
  <2>2. RoomInv'
    BY <1>3 DEF perms!LoadRooms, RoomInv
  <2>3. SavingInv'
    BY <1>3 DEF perms!LoadRooms, SavingInv
  <2> QED
    BY <2>1, <2>2, <2>3
<1>4. CASE perms!LoadFails
  <2>0. /\ form' = IF form = "levels" THEN "empty" ELSE "ready"
        /\ form \in {"levels", "rooms"} /\ blind' = (blind \/ form = "rooms")
        /\ UNCHANGED <<level, joined, own, shown, savedPl, adminJoinedRooms, savingRoomId,
                       rowSaved, rowError, tasks, touched, stuck, opens>>
    BY <1>4 DEF perms!LoadFails
  <2>1. LevelInv'
    BY <2>0 DEF LevelInv
  <2>2. RoomInv'
    BY <2>0 DEF RoomInv
  <2>3. SavingInv'
    BY <2>0 DEF SavingInv
  <2> QED
    BY <2>1, <2>2, <2>3
<1>5. CASE perms!CloseForm
  <2>1. LevelInv' /\ RoomInv'
    BY <1>5 DEF perms!CloseForm, LevelInv, RoomInv
  <2>2. SavingInv'
    BY <1>5 DEF perms!CloseForm, SavingInv
  <2> QED
    BY <2>1, <2>2
<1> QED
  BY <1>1, <1>2, <1>3, <1>4, <1>5

\* A level is picked, or changed by another administrator.
LEMMA PickStep ==
  ASSUME PermsInv, MaxOpens \in Nat, perms!NoRoom \notin Rooms, NEW r \in Rooms, NEW l \in Levels,
         perms!Ignored(r, l) \/ perms!OnRoleChange(r, l) \/ perms!OtherChanges(r, l)
  PROVE  PermsInv'
<1> USE DEF PermsInv, perms!serverVars, perms!historyVars, perms!countVars
<1>1. CASE perms!Ignored(r, l)
  <2>1. LevelInv'
    BY <1>1 DEF perms!Ignored, perms!Pick, LevelInv
  <2>2. RoomInv' /\ SavingInv'
    BY <1>1 DEF perms!Ignored, perms!Pick, RoomInv, SavingInv
  <2> QED
    BY <2>1, <2>2
<1>2. CASE perms!OnRoleChange(r, l)
  <2> DEFINE was == r \in adminJoinedRooms
             t == [room |-> r, level |-> l, wasMember |-> was, form |-> opens,
                   step |-> IF was THEN "change" ELSE "join"]
  <2>1. t \in perms!Task /\ t.room = r /\ t.wasMember = was /\ t.form = opens
    <3>1. opens \in 1 .. MaxOpens
      BY <1>2 DEF perms!OnRoleChange, perms!Pick, SavingInv
    <3>2. was \in BOOLEAN
      OBVIOUS
    <3> HIDE DEF was
    <3> QED
      BY <3>1, <3>2 DEF perms!Task
  <2>2. IF was THEN t.step = "change" ELSE t.step = "join"
    OBVIOUS
  <2>3. tasks' = tasks \cup {t} /\ savingRoomId = perms!NoRoom /\ savingRoomId' = r /\ form = "ready"
    BY <1>2 DEF perms!OnRoleChange, perms!Pick
  <2>4. /\ rowSaved' = rowSaved \ {r} /\ rowError' = rowError \ {r}
        /\ shown' = [shown EXCEPT ![r] = l]
        /\ UNCHANGED <<level, joined, own, form, savedPl, adminJoinedRooms, touched, blind,
                       stuck, opens>>
    BY <1>2 DEF perms!OnRoleChange, perms!Pick
  <2> HIDE DEF t
  <2>5. LevelInv'
    BY <2>4 DEF LevelInv
  <2>6. RoomInv'
    <3>1. ~was => blind \/ r \notin own
      BY <2>3 DEF RoomInv
    <3> HIDE DEF was
    <3> QED
      BY <2>1, <2>2, <2>3, <2>4, <3>1 DEF RoomInv
  <2>7. SavingInv'
    <3>1. \A u \in tasks : u.form # opens
      <4> SUFFICES ASSUME NEW u \in tasks, u.form = opens PROVE FALSE
        OBVIOUS
      <4> QED
        BY <2>3 DEF SavingInv, RoomInv, perms!Task
    <3> HIDE DEF was
    <3>2. opens' \in 0 .. MaxOpens /\ (form' # "closed" => opens' > 0)
      BY <2>4 DEF SavingInv
    <3>3. /\ savingRoomId' \in Rooms \cup {perms!NoRoom}
          /\ rowSaved' \subseteq Rooms /\ rowError' \subseteq Rooms /\ rowSaved' \cap rowError' = {}
          /\ r \notin rowSaved' \cup rowError'
      BY <2>3, <2>4 DEF SavingInv
    <3>4. \A u \in tasks : u.form <= opens
      BY DEF SavingInv
    <3>5. \A u \in tasks' : u.form <= opens'
      BY <2>1, <2>3, <2>4, <3>2, <3>4
    <3>6. \A u, v \in tasks' : u.form = v.form => u = v
      BY <2>1, <2>3, <3>1 DEF SavingInv
    <3>7. \A u \in tasks' : u.form = opens' => u = t
      BY <2>1, <2>3, <2>4, <3>1
    <3> QED
      BY <2>1, <2>3, <3>2, <3>3, <3>5, <3>6, <3>7 DEF SavingInv
  <2> QED
    BY <2>5, <2>6, <2>7
<1>3. CASE perms!OtherChanges(r, l)
  <2>1. LevelInv'
    BY <1>3 DEF perms!OtherChanges, LevelInv, perms!formVars
  <2>2. RoomInv' /\ SavingInv'
    BY <1>3 DEF perms!OtherChanges, RoomInv, SavingInv, perms!formVars
  <2> QED
    BY <2>1, <2>2
<1> QED
  BY <1>1, <1>2, <1>3

\* A call goes on: u is what is left of it.
LEMMA MoveStep ==
  ASSUME PermsInv, NEW t \in tasks, NEW s \in {"change", "leave"}, perms!MovesTo(t, s)
  PROVE  \E u \in perms!Task :
           /\ u.room = t.room /\ u.level = t.level /\ u.wasMember = t.wasMember
           /\ u.form = t.form /\ u.step = s
           /\ tasks' = (tasks \ {t}) \cup {u}
<1> DEFINE u == [t EXCEPT !.step = s]
<1>1. t \in perms!Task
  BY DEF PermsInv, RoomInv
<1>2. u \in perms!Task /\ u.room = t.room /\ u.level = t.level /\ u.wasMember = t.wasMember
      /\ u.form = t.form /\ u.step = s
  BY <1>1 DEF perms!Task
<1>3. tasks' = (tasks \ {t}) \cup {u}
  BY DEF perms!MovesTo
<1> HIDE DEF u
<1> QED
  BY <1>2, <1>3

\* joinRoom
LEMMA JoinStep ==
  ASSUME PermsInv, NEW t \in tasks, perms!JoinRoom(t)
  PROVE  PermsInv'
<1>1. PICK u \in perms!Task :
           /\ u.room = t.room /\ u.level = t.level /\ u.wasMember = t.wasMember
           /\ u.form = t.form /\ u.step = "change"
           /\ tasks' = (tasks \ {t}) \cup {u}
  BY MoveStep DEF perms!JoinRoom
<1>2. /\ t.step = "join" /\ ~t.wasMember /\ t.room \in Rooms
      /\ joined' \in {joined, joined \cup {t.room}}
      /\ UNCHANGED <<level, own, form, shown, savedPl, adminJoinedRooms, savingRoomId, rowSaved,
                     rowError, touched, blind, stuck, opens>>
  BY DEF perms!JoinRoom, PermsInv, RoomInv, perms!Task, perms!formVars, perms!historyVars
<1>3. LevelInv'
  BY <1>2 DEF PermsInv, LevelInv
<1>4. RoomInv'
  <2>1. ASSUME NEW r \in joined' \ own'
        PROVE  r \in stuck' \/ \E v \in tasks' : v.room = r /\ ~v.wasMember /\ v.step # "join"
    <3>1. CASE r = t.room
      BY <1>1, <1>2, <3>1
    <3>2. CASE r # t.room
      BY <1>1, <1>2, <3>2, <2>1 DEF PermsInv, RoomInv
    <3> QED
      BY <3>1, <3>2
  <2>2. \A v \in tasks' : ~v.wasMember => blind \/ v.room \notin own
    BY <1>1, <1>2 DEF PermsInv, RoomInv
  <2> QED
    BY <1>1, <1>2, <2>1, <2>2 DEF PermsInv, RoomInv
<1>5. SavingInv'
  BY <1>1, <1>2 DEF PermsInv, SavingInv
<1> QED
  BY <1>3, <1>4, <1>5 DEF PermsInv

\* What is left of a call after the change, for better or for worse.
LEMMA AfterChangeStep ==
  ASSUME PermsInv, NEW t \in tasks, t.step = "change", perms!AfterChange(t),
         UNCHANGED <<joined, own, form, adminJoinedRooms, blind, stuck, opens>>,
         perms!NoRoom \notin Rooms,
         \/ perms!Seen(t) /\ rowSaved' = rowSaved \cup {t.room} /\ rowError' = rowError
         \/ perms!Seen(t) /\ rowError' = rowError \cup {t.room} /\ rowSaved' = rowSaved
         \/ UNCHANGED <<rowSaved, rowError>>
  PROVE  RoomInv' /\ SavingInv'
<1>0. t \in perms!Task /\ t.room \in Rooms
  BY DEF PermsInv, RoomInv, perms!Task
<1>1. CASE t.wasMember
  <2>1. /\ tasks' = tasks \ {t}
        /\ savingRoomId' = IF perms!Seen(t) THEN perms!NoRoom ELSE savingRoomId
    BY <1>1 DEF perms!AfterChange
  <2>2. RoomInv'
    BY <1>1, <2>1 DEF PermsInv, RoomInv
  <2>3. SavingInv'
    <3>1. CASE perms!Seen(t)
      BY <1>0, <2>1, <3>1 DEF PermsInv, SavingInv, perms!Seen
    <3>2. CASE ~perms!Seen(t)
      BY <1>0, <2>1, <3>2 DEF PermsInv, SavingInv, perms!Seen
    <3> QED
      BY <3>1, <3>2
  <2> QED
    BY <2>2, <2>3
<1>2. CASE ~t.wasMember
  <2>1. PICK u \in perms!Task :
             /\ u.room = t.room /\ u.level = t.level /\ u.wasMember = t.wasMember
             /\ u.form = t.form /\ u.step = "leave"
             /\ tasks' = (tasks \ {t}) \cup {u}
    BY <1>2, MoveStep DEF perms!AfterChange
  <2>2. savingRoomId' = savingRoomId
    BY <1>2 DEF perms!AfterChange
  <2>3. RoomInv'
    <3>1. ASSUME NEW r \in joined \ own
          PROVE  r \in stuck \/ \E v \in tasks' : v.room = r /\ ~v.wasMember /\ v.step # "join"
      <4>1. CASE r \in stuck
        BY <4>1
      <4>2. CASE \E v \in tasks : v.room = r /\ ~v.wasMember /\ v.step # "join"
        <5>1. PICK v \in tasks : v.room = r /\ ~v.wasMember /\ v.step # "join"
          BY <4>2
        <5>2. CASE v = t
          BY <1>2, <2>1, <5>1, <5>2
        <5>3. CASE v # t
          BY <2>1, <5>1, <5>3
        <5> QED
          BY <5>2, <5>3
      <4> QED
        BY <3>1, <4>1, <4>2 DEF PermsInv, RoomInv
    <3>2. \A v \in tasks' : ~v.wasMember => blind \/ v.room \notin own
      BY <1>2, <2>1 DEF PermsInv, RoomInv
    <3> QED
      BY <1>2, <2>1, <3>1, <3>2 DEF PermsInv, RoomInv
  <2>4. SavingInv'
    BY <1>0, <2>1, <2>2 DEF PermsInv, SavingInv, perms!Seen
  <2> QED
    BY <2>3, <2>4
<1> QED
  BY <1>1, <1>2

LEMMA ChangeStep ==
  ASSUME PermsInv, perms!NoRoom \notin Rooms, NEW t \in tasks,
         perms!ChangePermission(t) \/ perms!ChangeFails(t)
  PROVE  PermsInv'
<1>0. t \in perms!Task /\ t.room \in Rooms /\ t.level \in Levels
  BY DEF PermsInv, RoomInv, perms!Task
<1>1. CASE perms!ChangePermission(t)
  <2>1. LevelInv'
    <3>1. level' = [level EXCEPT ![t.room] = t.level] /\ UNCHANGED <<form, shown>>
      BY <1>1 DEF perms!ChangePermission
    <3>2. CASE perms!Seen(t)
      <4>1. savedPl' = [savedPl EXCEPT ![t.room] = t.level] /\ touched' = touched
        BY <1>1, <3>2 DEF perms!ChangePermission
      <4> QED
        BY <1>0, <3>1, <4>1 DEF PermsInv, LevelInv
    <3>3. CASE ~perms!Seen(t)
      <4>1. savedPl' = savedPl /\ touched' = touched \cup {t.room}
        BY <1>1, <3>3 DEF perms!ChangePermission
      <4> QED
        BY <1>0, <3>1, <4>1 DEF PermsInv, LevelInv
    <3> QED
      BY <3>2, <3>3
  <2>2. \/ perms!Seen(t) /\ rowSaved' = rowSaved \cup {t.room} /\ rowError' = rowError
        \/ UNCHANGED <<rowSaved, rowError>>
    BY <1>1 DEF perms!ChangePermission
  <2>3. /\ t.step = "change" /\ perms!AfterChange(t)
        /\ UNCHANGED <<joined, own, form, adminJoinedRooms, blind, stuck, opens>>
    BY <1>1 DEF perms!ChangePermission, perms!countVars
  <2> QED
    BY <2>1, <2>2, <2>3, AfterChangeStep DEF PermsInv
<1>2. CASE perms!ChangeFails(t)
  <2>1. LevelInv'
    <3>1. /\ level' \in {level, [level EXCEPT ![t.room] = t.level]} /\ UNCHANGED form
          /\ touched' = IF level' = level THEN touched ELSE touched \cup {t.room}
          /\ savedPl' = savedPl
          /\ shown' \in {shown, [shown EXCEPT ![t.room] = savedPl[t.room]]}
      BY <1>2 DEF perms!ChangeFails, perms!Confirmed, perms!Reverted
    <3>2. CASE level' = level
      BY <1>0, <3>1, <3>2 DEF PermsInv, LevelInv
    <3>3. CASE level' # level
      BY <1>0, <3>1, <3>3 DEF PermsInv, LevelInv
    <3> QED
      BY <3>2, <3>3
  <2>2. \/ perms!Seen(t) /\ rowError' = rowError \cup {t.room} /\ rowSaved' = rowSaved
        \/ UNCHANGED <<rowSaved, rowError>>
    BY <1>2 DEF perms!ChangeFails
  <2>3. /\ t.step = "change" /\ perms!AfterChange(t)
        /\ UNCHANGED <<joined, own, form, adminJoinedRooms, blind, stuck, opens>>
    BY <1>2 DEF perms!ChangeFails
  <2> QED
    BY <2>1, <2>2, <2>3, AfterChangeStep DEF PermsInv
<1> QED
  BY <1>1, <1>2

\* leaveRoom
LEMMA LeaveStep ==
  ASSUME PermsInv, perms!NoRoom \notin Rooms, NEW t \in tasks, perms!LeaveRoom(t)
  PROVE  PermsInv'
<1>1. /\ t.step = "leave" /\ ~t.wasMember /\ t.room \in Rooms /\ tasks' = tasks \ {t}
      /\ savingRoomId' = IF perms!Seen(t) THEN perms!NoRoom ELSE savingRoomId
      /\ UNCHANGED <<level, own, form, shown, savedPl, adminJoinedRooms, rowSaved, rowError,
                     touched, blind, opens>>
  BY DEF perms!LeaveRoom, PermsInv, RoomInv, perms!Task
<1>2. LevelInv'
  BY <1>1 DEF PermsInv, LevelInv
<1>3. RoomInv'
  <2>0. /\ joined' \subseteq joined /\ stuck \subseteq stuck' /\ stuck' \subseteq Rooms
        /\ joined \ joined' \subseteq {t.room} /\ (t.room \in joined' => t.room \in stuck')
    BY <1>1 DEF perms!LeaveRoom, PermsInv, RoomInv
  <2>1. ASSUME NEW r \in joined' \ own
        PROVE  r \in stuck' \/ \E v \in tasks' : v.room = r /\ ~v.wasMember /\ v.step # "join"
    <3>1. CASE r = t.room
      BY <2>0, <2>1, <3>1
    <3>2. CASE r # t.room
      BY <1>1, <2>0, <2>1, <3>2 DEF PermsInv, RoomInv
    <3> QED
      BY <3>1, <3>2
  <2>2. blind \/ t.room \notin own
    BY <1>1 DEF PermsInv, RoomInv
  <2> QED
    BY <1>1, <2>0, <2>1, <2>2 DEF PermsInv, RoomInv
<1>4. SavingInv'
  <2>1. CASE perms!Seen(t)
    BY <1>1, <2>1 DEF PermsInv, SavingInv, perms!Seen
  <2>2. CASE ~perms!Seen(t)
    BY <1>1, <2>2 DEF PermsInv, SavingInv, perms!Seen
  <2> QED
    BY <2>1, <2>2
<1> QED
  BY <1>2, <1>3, <1>4 DEF PermsInv

LEMMA PermsStep ==
  ASSUME PermsInv, MaxOpens \in Nat, perms!NoRoom \notin Rooms,
         perms!PermsNext \/ UNCHANGED permsVars
  PROVE  PermsInv'
<1>1. CASE UNCHANGED permsVars
  <2>1. LevelInv' /\ RoomInv'
    BY <1>1 DEF permsVars, PermsInv, LevelInv, RoomInv
  <2>2. SavingInv'
    BY <1>1 DEF permsVars, PermsInv, SavingInv
  <2> QED
    BY <2>1, <2>2 DEF PermsInv
<1>2. CASE \/ perms!Open \/ perms!LoadLevels \/ perms!LoadRooms \/ perms!LoadFails
           \/ perms!CloseForm
  BY <1>2, FormStep
<1>3. CASE \E r \in Rooms, l \in Levels :
             perms!Ignored(r, l) \/ perms!OnRoleChange(r, l) \/ perms!OtherChanges(r, l)
  BY <1>3, PickStep
<1>4. CASE \E t \in tasks : perms!JoinRoom(t)
  BY <1>4, JoinStep
<1>5. CASE \E t \in tasks : perms!ChangePermission(t) \/ perms!ChangeFails(t)
  BY <1>5, ChangeStep
<1>6. CASE \E t \in tasks : perms!LeaveRoom(t)
  BY <1>6, LeaveStep
<1> QED
  BY <1>1, <1>2, <1>3, <1>4, <1>5, <1>6 DEF perms!PermsNext

\* An administrator who changes levels or takes a room over leaves it as he was
\* told (UserInRoomsForm.vue, useManageRooms.ts): the levels to which rows fall
\* back are those of the server, he is in no room but his own and those he
\* failed to leave, and the previous administrator is sent off only when he has
\* taken over.
THEOREM HandsOver == Spec => []AdminHandsOver
<1> DEFINE I == /\ part = "perms" => PermsInv
                /\ part = "takeover" => TakeOverInv
<1>1. Init => I
  BY Parts, PermsStart, TakeOverStart, TalkAssumption
<1>2. I /\ [Next]_vars => I'
  BY Parts, PermsStep, TakeOverStep, TalkAssumption DEF perms!NoRoom
<1>3. I => AdminHandsOver
  <2>1. TakeOverInv => takeover!HandedOver
    BY DEF TakeOverInv
  <2>2. PermsInv => perms!FormKeepsPace
    BY DEF PermsInv, LevelInv, RoomInv, perms!FormKeepsPace, perms!Rows, perms!HasRows
  <2> QED
    BY <2>1, <2>2 DEF AdminHandsOver
<1> QED
  BY <1>1, <1>2, <1>3, PTL DEF Spec

-----------------------------------------------------------------------------
(* Places in sequences.                                                    *)

\* A set of naturals has a least element.
LEMMA LeastNat ==
  ASSUME NEW U \in SUBSET Nat, U # {}
  PROVE  \E b \in U : \A y \in U : b <= y
<1> DEFINE R == OpToRel(<, Nat)
<1>1. IsWellFoundedOn(R, Nat)
  BY NatLessThanWellFounded
<1>2. \A x, y \in Nat : y < x => <<y, x>> \in R
  BY DEF OpToRel
<1> HIDE DEF R
<1>3. PICK b \in U : \A y \in U : <<y, b>> \notin R
  BY <1>1, WFMin
<1>4. ASSUME NEW y \in U PROVE b <= y
  <2>1. ~(y < b)
    BY <1>2, <1>3
  <2> QED
    BY <2>1
<1> QED
  BY <1>4

\* A set of places has a last one.
LEMMA LastIn ==
  ASSUME NEW n \in Nat, NEW S \in SUBSET (1 .. n), S # {}
  PROVE  \E i \in S : \A j \in S : j <= i
<1> DEFINE U == {b \in Nat : \A j \in S : j <= b}
<1>2. U \in SUBSET Nat /\ n \in U
  OBVIOUS
<1>3. PICK b \in U : \A y \in U : b <= y
  <2> HIDE DEF U
  <2> QED
    BY <1>2, LeastNat
<1>4. b \in S
  <2> SUFFICES ASSUME b \notin S PROVE FALSE
    OBVIOUS
  <2>1. PICK j \in S : j <= b
    OBVIOUS
  <2>2. b \in Nat /\ b # 0 /\ b - 1 \in Nat
    BY <2>1
  <2>3. \A k \in S : k <= b - 1
    BY <2>2
  <2>4. b - 1 \in U /\ b - 1 < b
    BY <2>2, <2>3
  <2> QED
    BY <1>3, <2>2, <2>4
<1> QED
  BY <1>4

\* What is so at 0, and at a place when it is at the one before, is so up to n.
LEMMA InductionTo ==
  ASSUME NEW n \in Nat, NEW G, 0 \in G, \A k \in 1 .. n : k - 1 \in G => k \in G
  PROVE  \A k \in 0 .. n : k \in G
<1> DEFINE R == OpToRel(<, Nat)  B == {k \in 0 .. n : k \notin G}
<1>1. IsWellFoundedOn(R, Nat) /\ \A x, y \in Nat : y < x => <<y, x>> \in R
  BY NatLessThanWellFounded DEF OpToRel
<1> HIDE DEF R
<1>2. SUFFICES ASSUME B # {} PROVE FALSE
  OBVIOUS
<1>3. B \in SUBSET Nat
  OBVIOUS
<1>4. PICK k \in B : \A y \in B : <<y, k>> \notin R
  <2> HIDE DEF B
  <2> QED
    BY <1>1, <1>2, <1>3, WFMin
<1>5. k \in 0 .. n /\ k \notin G
  OBVIOUS
<1>6. k \in 1 .. n /\ k - 1 \in 0 .. n /\ k - 1 \in Nat /\ k \in Nat /\ k - 1 < k
  BY <1>5
<1>7. k - 1 \notin B
  BY <1>1, <1>4, <1>6
<1> QED
  BY <1>5, <1>6, <1>7

\* The places of S have the ranks 1, 2, ... in their order.
Rank(S, i) == Cardinality({j \in S : j <= i})

LEMMA RankStep ==
  ASSUME NEW L \in Nat, NEW S \in SUBSET (1 .. L), NEW i \in Nat
  PROVE  /\ IsFiniteSet(S) /\ Cardinality(S) \in Nat
         /\ Rank(S, i) \in Nat /\ Rank(S, i) <= Cardinality(S)
         /\ i + 1 \in S => Rank(S, i + 1) = Rank(S, i) + 1
         /\ i + 1 \notin S => Rank(S, i + 1) = Rank(S, i)
<1>1. IsFiniteSet(1 .. L)
  BY FS_Interval
<1>2. IsFiniteSet(S) /\ Cardinality(S) \in Nat
  BY <1>1, FS_Subset, FS_CardinalityType
<1> DEFINE T == {j \in S : j <= i}  U == {j \in S : j <= i + 1}
<1>3. T \in SUBSET S
  OBVIOUS
<1>4. IsFiniteSet(T) /\ Cardinality(T) \in Nat /\ Cardinality(T) <= Cardinality(S)
  BY <1>2, <1>3, FS_Subset, FS_CardinalityType
<1>5. \A j \in S : j \in Nat /\ (j <= i + 1 <=> j <= i \/ j = i + 1) /\ ~(i + 1 <= i)
  OBVIOUS
<1>6. i + 1 \in S => U = T \cup {i + 1} /\ i + 1 \notin T
  BY <1>5
<1>7. i + 1 \notin S => U = T
  BY <1>5
<1>8. Rank(S, i) = Cardinality(T) /\ Rank(S, i + 1) = Cardinality(U)
  BY DEF Rank
<1> HIDE DEF T, U
<1>9. i + 1 \in S => Cardinality(T \cup {i + 1}) = Cardinality(T) + 1
  BY <1>4, <1>6, FS_AddElement
<1> QED
  BY <1>2, <1>4, <1>6, <1>7, <1>8, <1>9

LEMMA RankGrows ==
  ASSUME NEW L \in Nat, NEW S \in SUBSET (1 .. L), NEW i \in S, NEW k \in Nat, i > k
  PROVE  Rank(S, k) < Rank(S, i)
<1> DEFINE T == {j \in S : j <= k}  U == {j \in S : j <= i}
<1>1. IsFiniteSet(S)
  BY RankStep, i \in Nat
<1>2. IsFiniteSet(U) /\ Cardinality(U) \in Nat
  BY <1>1, FS_Subset, FS_CardinalityType
<1>3. T \in SUBSET (U \ {i})
  <2>1. \A j \in S : j \in Nat /\ (j <= k => j <= i /\ j # i)
    OBVIOUS
  <2> QED
    BY <2>1
<1>4. IsFiniteSet(U \ {i}) /\ Cardinality(U \ {i}) = Cardinality(U) - 1
  BY <1>2, FS_RemoveElement, i \in U
<1>5. Cardinality(T) <= Cardinality(U) - 1 /\ Cardinality(T) \in Nat
  BY <1>3, <1>4, FS_Subset, FS_CardinalityType
<1> QED
  BY <1>2, <1>5 DEF Rank

LEMMA PlaceOfRank ==
  ASSUME NEW L \in Nat, NEW S \in SUBSET (1 .. L), NEW n \in 1 .. Cardinality(S)
  PROVE  \E i \in S : Rank(S, i) = n
<1>1. n \in Nat /\ n >= 1 /\ n <= Cardinality(S)
  BY RankStep
<1>2. {j \in S : j <= L} = S /\ {j \in S : j <= 0} = {}
  <2>1. \A j \in S : j <= L /\ ~(j <= 0)
    OBVIOUS
  <2> QED
    BY <2>1
<1>3. Rank(S, L) = Cardinality(S) /\ Rank(S, 0) = 0
  BY <1>2, FS_EmptySet DEF Rank
<1> DEFINE U == {i \in Nat : Rank(S, i) >= n}
<1>4. U \in SUBSET Nat /\ L \in U
  BY <1>1, <1>3
<1>5. PICK b \in U : \A y \in U : b <= y
  BY <1>4, LeastNat
<1>6. b \in Nat /\ Rank(S, b) >= n /\ b # 0
  BY <1>1, <1>3
<1>7. PICK c \in Nat : b = c + 1
  BY <1>6
<1>8. c \notin U
  BY <1>5, <1>7
<1>9. Rank(S, c) < n /\ Rank(S, c) \in Nat
  <2>1. Rank(S, c) \in Nat
    BY <1>7, RankStep
  <2> QED
    BY <1>1, <1>7, <1>8, <2>1
<1>10. c + 1 \in S /\ Rank(S, b) = n
  BY <1>1, <1>6, <1>7, <1>9, RankStep
<1> QED
  BY <1>7, <1>10

\* What is picked from an array is in its order, and nothing twice.
LEMMA ElementsFacts ==
  ASSUME NEW E, NEW s \in Seq(E), NEW S \in SUBSET DOMAIN s
  PROVE  \E p :
           /\ p \in [1 .. Len(uploads!ElementsAt(s, S)) -> S]
           /\ uploads!ElementsAt(s, S) \in Seq(E) /\ Len(uploads!ElementsAt(s, S)) <= Len(s)
           /\ \A n \in 1 .. Len(uploads!ElementsAt(s, S)) : uploads!ElementsAt(s, S)[n] = s[p[n]]
           /\ \A m, n \in 1 .. Len(uploads!ElementsAt(s, S)) : m # n => p[m] # p[n]
           /\ \A i \in S : \E n \in 1 .. Len(uploads!ElementsAt(s, S)) : p[n] = i
<1> DEFINE N == Cardinality(S)
           p == [n \in 1 .. N |-> CHOOSE i \in S : Rank(S, i) = n]
           t == [n \in 1 .. N |-> s[CHOOSE i \in S : Rank(S, i) = n]]
<1>1. uploads!ElementsAt(s, S) = t
  BY DEF uploads!ElementsAt, uploads!Cardinality, Cardinality, Rank
<1>2. Len(s) \in Nat /\ DOMAIN s = 1 .. Len(s) /\ s \in [1 .. Len(s) -> E]
  BY LenProperties
<1>3. S \in SUBSET (1 .. Len(s)) /\ IsFiniteSet(S) /\ N \in Nat /\ N <= Len(s)
  <2>1. S \in SUBSET (1 .. Len(s))
    BY <1>2
  <2>2. IsFiniteSet(1 .. Len(s)) /\ Cardinality(1 .. Len(s)) = Len(s)
    <3>1. PICK L \in Nat : L = Len(s)
      BY <1>2
    <3>2. IsFiniteSet(1 .. L) /\ Cardinality(1 .. L) = L
      BY FS_Interval
    <3> QED
      BY SMTT(30), <3>1, <3>2
  <2> QED
    BY <2>1, <2>2, FS_Subset, FS_CardinalityType
<1>4. \A n \in 1 .. N : p[n] \in S /\ Rank(S, p[n]) = n
  <2> SUFFICES ASSUME NEW n \in 1 .. N PROVE p[n] \in S /\ Rank(S, p[n]) = n
    OBVIOUS
  <2>1. \E i \in S : Rank(S, i) = n
    BY <1>2, <1>3, PlaceOfRank
  <2> QED
    BY <2>1
<1>5. \A n \in 1 .. N : t[n] = s[p[n]]
  OBVIOUS
<1>6. DOMAIN t = 1 .. N /\ p \in [1 .. N -> S]
  BY <1>4
<1> HIDE DEF p, t
<1>7. t \in [1 .. N -> E]
  <2>1. t = [n \in 1 .. N |-> t[n]]
    BY DEF t
  <2>2. \A n \in 1 .. N : t[n] \in E
    BY <1>2, <1>3, <1>4, <1>5
  <2> QED
    BY <2>1, <2>2
<1>8. t \in Seq(E) /\ Len(t) = N
  BY <1>3, <1>7, SeqDef, LenProperties
<1>9. \A m, n \in 1 .. N : m # n => p[m] # p[n]
  BY <1>4
<1>10. ASSUME NEW i \in S
       PROVE  \E n \in 1 .. N : p[n] = i
  <2> DEFINE n == Rank(S, i)
  <2>1. i \in Nat /\ i \in 1 .. Len(s)
    BY <1>3
  <2>2. n \in Nat /\ n <= N
    BY <1>2, <1>3, <2>1, RankStep
  <2>3. Rank(S, 0) \in Nat /\ Rank(S, 0) < n
    <3>1. Rank(S, 0) \in Nat
      BY <1>2, <1>3, RankStep
    <3>2. Rank(S, 0) < Rank(S, i)
      <4>1. i > 0 /\ 0 \in Nat
        BY <1>2, <2>1
      <4> QED
        BY <1>2, <1>3, <4>1, RankGrows
    <3> QED
      BY <3>1, <3>2
  <2>4. n \in 1 .. N
    BY <2>2, <2>3
  <2>5. p[n] \in S /\ Rank(S, p[n]) = n /\ p[n] \in Nat
    BY <1>3, <1>4, <2>4
  <2>6. ~(p[n] < i) /\ ~(p[n] > i)
    <3>1. CASE p[n] < i
      <4>1. Rank(S, p[n]) < Rank(S, i)
        BY <1>2, <1>3, <2>1, <2>5, <3>1, RankGrows
      <4> QED
        BY <2>2, <2>5, <4>1
    <3>2. CASE p[n] > i
      <4>1. Rank(S, i) < Rank(S, p[n])
        BY <1>2, <1>3, <2>1, <2>5, <3>2, RankGrows
      <4> QED
        BY <2>2, <2>5, <4>1
    <3> QED
      BY <3>1, <3>2
  <2>7. p[n] = i
    BY <2>1, <2>5, <2>6
  <2> QED
    BY <2>4, <2>7
<1> QED
  BY <1>1, <1>3, <1>5, <1>6, <1>8, <1>9, <1>10

\* An array without the element at a place.
LEMMA RemoveAtFacts ==
  ASSUME NEW E, NEW s \in Seq(E), NEW k \in 1 .. Len(s)
  PROVE  /\ uploads!RemoveAt(s, k) \in Seq(E) /\ Len(uploads!RemoveAt(s, k)) = Len(s) - 1
         /\ \A n \in 1 .. Len(s) - 1 : uploads!RemoveAt(s, k)[n] = IF n < k THEN s[n] ELSE s[n + 1]
<1>1. PICK L \in Nat : L = Len(s)
  BY LenProperties
<1>2. k \in Nat /\ k >= 1 /\ k <= L
  BY <1>1
<1> DEFINE a == SubSeq(s, 1, k - 1)  b == SubSeq(s, k + 1, Len(s))
<1>3. a \in Seq(E) /\ Len(a) = k - 1 /\ \A n \in 1 .. k - 1 : a[n] = s[n]
  BY <1>1, <1>2
<1>4. b \in Seq(E) /\ Len(b) = L - k /\ \A n \in 1 .. L - k : b[n] = s[k + n]
  BY <1>1, <1>2
<1>5. uploads!RemoveAt(s, k) = a \o b
  BY DEF uploads!RemoveAt
<1> HIDE DEF a, b
<1>6. a \o b \in Seq(E) /\ Len(a \o b) = L - 1
  <2>1. a \o b \in Seq(E) /\ Len(a \o b) = Len(a) + Len(b)
    BY <1>3, <1>4, ConcatProperties
  <2>2. (k - 1) + (L - k) = L - 1
    BY <1>2
  <2> QED
    BY <1>3, <1>4, <2>1, <2>2
<1>7. \A n \in 1 .. L - 1 : (a \o b)[n] = IF n < k THEN s[n] ELSE s[n + 1]
  <2> SUFFICES ASSUME NEW n \in 1 .. L - 1 PROVE (a \o b)[n] = IF n < k THEN s[n] ELSE s[n + 1]
    OBVIOUS
  <2>1. CASE n < k
    <3>1. (a \o b)[n] = a[n]
      BY <1>2, <1>3, <1>4, <1>6, <2>1, ConcatProperties
    <3> QED
      BY <1>2, <1>3, <2>1, <3>1
  <2>2. CASE ~(n < k)
    <3>1. (a \o b)[n] = b[n - (k - 1)] /\ n - (k - 1) \in 1 .. L - k
      BY <1>2, <1>3, <1>4, <1>6, <2>2, ConcatProperties
    <3>2. b[n - (k - 1)] = s[k + (n - (k - 1))] /\ k + (n - (k - 1)) = n + 1
      BY SMTT(30), <1>2, <1>4, <3>1
    <3> QED
      BY <2>2, <3>1, <3>2
  <2> QED
    BY <2>1, <2>2
<1> QED
  BY <1>1, <1>5, <1>6, <1>7

-----------------------------------------------------------------------------
(* Uploads: a file that is dropped is added to the library once at most.   *)

WalkState == [array : Seq(Entries), own : BOOLEAN, i : Nat, file : Entries \cup {uploads!NoEntry}]
Distinct(s) == \A j, k \in 1 .. Len(s) : s[j] = s[k] => j = k
Listed(e) == \E j \in 1 .. Len(files) : files[j] = e

\* The list has the files that are neither uploaded nor taken out.
ListInv ==
  /\ files \in Seq(Entries) /\ Distinct(files)
  /\ \A j \in 1 .. Len(files) : files[j] \in dropped /\ uploadsPosted[files[j]] = 0
  /\ dropped \subseteq Entries /\ taken \subseteq dropped
  /\ \A e \in dropped : Listed(e) \/ e \in taken \/ uploadsPosted[e] = 1
  /\ status \in [Entries -> {uploads!Empty, uploads!Loading, uploads!Done}]
  /\ uploadsPosted \in [Entries -> {0, 1}]
  /\ \A e \in Entries : status[e] = uploads!Done => uploadsPosted[e] = 1
  /\ \A e \in Entries : uploadsPosted[e] = 1 => e \in dropped

\* What the upload has yet to come to is not in the library.
WalkInv ==
  /\ walk \in WalkState /\ step \in {"none", "send", "wait", "add"}
  /\ uploadIsActive <=> step # "none"
  /\ walk.own => walk.array = files
  /\ Distinct(walk.array)
  /\ \A j \in 1 .. Len(walk.array) : walk.array[j] \in dropped
  /\ step # "none" => walk.file \in dropped /\ uploadsPosted[walk.file] = 0
  /\ step # "none" => \A j \in 1 .. Len(walk.array) : j > walk.i =>
       uploadsPosted[walk.array[j]] = 0 /\ walk.array[j] # walk.file

DownloadInv == busy = fetching \cup settling /\ fetching \cap settling = {}

UploadsInv == ListInv /\ WalkInv /\ DownloadInv

LEMMA UploadsStart == uploads!UploadsInit => UploadsInv
<1> SUFFICES ASSUME uploads!UploadsInit PROVE UploadsInv
  OBVIOUS
<1>1. files = <<>> /\ Len(files) = 0 /\ files \in Seq(Entries) /\ walk = uploads!NoWalk
  BY DEF uploads!UploadsInit
<1>2. Distinct(files)
  BY <1>1 DEF Distinct
<1>3. ListInv
  BY <1>1, <1>2 DEF uploads!UploadsInit, ListInv, uploads!Done, uploads!Empty, uploads!Loading
<1>4. WalkInv
  <2>1. walk.array = <<>> /\ walk.own = FALSE /\ walk.i = 0 /\ walk.file = uploads!NoEntry
    BY <1>1 DEF uploads!NoWalk
  <2>2. walk = [array |-> <<>>, own |-> FALSE, i |-> 0, file |-> uploads!NoEntry]
    BY <1>1 DEF uploads!NoWalk
  <2>3. walk \in WalkState
    BY <1>1, <2>2 DEF WalkState
  <2> QED
    BY <1>1, <1>2, <2>1, <2>3 DEF uploads!UploadsInit, WalkInv
<1>5. DownloadInv
  BY DEF uploads!UploadsInit, DownloadInv
<1> QED
  BY <1>3, <1>4, <1>5 DEF UploadsInv

\* Downloads, and steps that only change where the upload is.
LEMMA DownloadStep ==
  ASSUME UploadsInv, NEW e \in Entries,
         \/ uploads!DownloadFile(e) \/ uploads!DownloadEnds(e) \/ uploads!DownloadFails(e)
         \/ uploads!DownloadAgain(e)
  PROVE  UploadsInv'
<1>1. UNCHANGED <<uploads!listVars, uploads!uploadVars>>
  BY DEF uploads!DownloadFile, uploads!DownloadEnds, uploads!DownloadFails, uploads!DownloadAgain
<1>2. ListInv'
  BY <1>1 DEF UploadsInv, ListInv, Listed, Distinct, uploads!listVars, uploads!uploadVars
<1>3. WalkInv'
  BY <1>1 DEF UploadsInv, WalkInv, Distinct, uploads!listVars, uploads!uploadVars
<1>4. DownloadInv'
  BY DEF UploadsInv, DownloadInv, uploads!DownloadFile, uploads!DownloadEnds,
         uploads!DownloadFails, uploads!DownloadAgain
<1> QED
  BY <1>2, <1>3, <1>4 DEF UploadsInv

LEMMA SendStep ==
  ASSUME UploadsInv, uploads!Stored \/ uploads!RateLimited \/ uploads!Retry \/ uploads!Progress
  PROVE  UploadsInv'
<1>1. UNCHANGED <<files, status, dropped, taken, uploadIsActive, uploadsPosted, uploads!downloadVars>>
  BY DEF uploads!Stored, uploads!RateLimited, uploads!Retry, uploads!Progress, uploads!Replace, uploads!listVars
<1>2. ListInv'
  BY <1>1 DEF UploadsInv, ListInv, Listed, Distinct
<1>3. step # "none" /\ step' # "none" /\ step' \in {"send", "wait", "add"}
  BY DEF uploads!Stored, uploads!RateLimited, uploads!Retry, uploads!Progress
<1>4. walk' = walk \/ walk' = [walk EXCEPT !.own = FALSE]
  BY DEF uploads!Stored, uploads!RateLimited, uploads!Retry, uploads!Progress, uploads!Replace
<1>5. /\ walk' \in WalkState /\ walk'.array = walk.array /\ walk'.i = walk.i /\ walk'.file = walk.file
      /\ (walk'.own => walk.own)
  BY <1>4 DEF UploadsInv, WalkInv, WalkState
<1>6. WalkInv'
  BY <1>1, <1>3, <1>5 DEF UploadsInv, WalkInv, Distinct
<1>7. DownloadInv'
  BY <1>1 DEF UploadsInv, DownloadInv, uploads!downloadVars
<1> QED
  BY <1>2, <1>6, <1>7 DEF UploadsInv

\* Files are dropped in the list, or taken out of it.
LEMMA DropStep ==
  ASSUME UploadsInv, NEW e \in Entries, uploads!AddFiles(e)
  PROVE  UploadsInv'
<1>1. /\ e \notin dropped /\ dropped' = dropped \cup {e}
      /\ UNCHANGED <<status, step, uploadIsActive, uploadsPosted, uploads!downloadVars>>
  BY DEF uploads!AddFiles
<1>2. uploadsPosted[e] = 0
  BY <1>1 DEF UploadsInv, ListInv
<1>3. CASE Len(files) < MaxFiles
  <2> DEFINE new == Append(files, e)
  <2>1. files' = new /\ taken' = taken /\ walk' = IF walk.own THEN [walk EXCEPT !.array = new] ELSE walk
    BY <1>3 DEF uploads!AddFiles, uploads!InPlace
  <2>2. files \in Seq(Entries) /\ Len(files) \in Nat
    BY LenProperties DEF UploadsInv, ListInv
  <2>3. /\ new \in Seq(Entries) /\ Len(new) = Len(files) + 1
        /\ \A j \in 1 .. Len(files) : new[j] = files[j]
        /\ new[Len(files) + 1] = e
    BY <2>2, AppendProperties
  <2> HIDE DEF new
  <2>4. \A j \in 1 .. Len(new) : j \in 1 .. Len(files) \/ j = Len(files) + 1
    BY <2>2, <2>3
  <2>5. /\ \A j \in 1 .. Len(new) : new[j] \in dropped' /\ uploadsPosted[new[j]] = 0
        /\ \A j \in 1 .. Len(files) : new[j] # e
    BY <1>1, <1>2, <2>3, <2>4 DEF UploadsInv, ListInv
  <2>6. Distinct(new)
    <3> SUFFICES ASSUME NEW j \in 1 .. Len(new), NEW k \in 1 .. Len(new), new[j] = new[k] PROVE j = k
      BY DEF Distinct
    <3>1. CASE j \in 1 .. Len(files) /\ k \in 1 .. Len(files)
      BY <2>3, <3>1 DEF UploadsInv, ListInv, Distinct
    <3> QED
      BY <2>3, <2>4, <2>5, <3>1
  <2>7. ListInv'
    <3>1. \A a \in dropped' : Listed(a)' \/ a \in taken' \/ uploadsPosted'[a] = 1
      <4> SUFFICES ASSUME NEW a \in dropped', a \notin taken', uploadsPosted[a] # 1
                   PROVE  \E j \in 1 .. Len(new) : new[j] = a
        BY <1>1, <2>1 DEF Listed
      <4>1. CASE a = e
        BY <2>2, <2>3, <4>1
      <4>2. CASE a # e
        <5>1. PICK j \in 1 .. Len(files) : files[j] = a
          BY <1>1, <2>1, <4>2 DEF UploadsInv, ListInv, Listed
        <5>2. j \in 1 .. Len(new)
          BY <2>2, <2>3
        <5> QED
          BY <2>3, <5>1, <5>2
      <4> QED
        BY <4>1, <4>2
    <3>2. \A a \in Entries : uploadsPosted[a] = 1 => a \in dropped'
      BY <1>1 DEF UploadsInv, ListInv
    <3> QED
      BY <1>1, <2>1, <2>3, <2>5, <2>6, <3>1, <3>2 DEF UploadsInv, ListInv
  <2>8. WalkInv'
    <3>1. CASE ~walk.own
      <4>1. walk' = walk
        BY <2>1, <3>1
      <4> QED
        BY <1>1, <2>1, <3>1, <4>1 DEF UploadsInv, WalkInv, Distinct
    <3>2. CASE walk.own
      <4>1. walk' = [walk EXCEPT !.array = new] /\ walk.array = files
        BY <2>1, <3>2 DEF UploadsInv, WalkInv
      <4>2. /\ walk' \in WalkState /\ walk'.array = new /\ walk'.i = walk.i /\ walk'.file = walk.file
            /\ walk'.own = walk.own /\ walk.i \in Nat
        BY <2>3, <4>1 DEF UploadsInv, WalkInv, WalkState
      <4>3. step # "none" => \A j \in 1 .. Len(new) : j > walk.i =>
               uploadsPosted[new[j]] = 0 /\ new[j] # walk.file
        <5> SUFFICES ASSUME step # "none", NEW j \in 1 .. Len(new), j > walk.i
                     PROVE  uploadsPosted[new[j]] = 0 /\ new[j] # walk.file
          OBVIOUS
        <5>1. CASE j \in 1 .. Len(files)
          BY <2>3, <4>1, <5>1 DEF UploadsInv, WalkInv
        <5>2. CASE j = Len(files) + 1
          BY <1>1, <1>2, <2>3, <5>2 DEF UploadsInv, WalkInv
        <5> QED
          BY <2>4, <5>1, <5>2
      <4>4. \A j \in 1 .. Len(new) : new[j] \in dropped'
        BY <2>5
      <4>5. step # "none" => walk.file \in dropped' /\ uploadsPosted[walk.file] = 0
        BY <1>1 DEF UploadsInv, WalkInv
      <4> QED
        BY <1>1, <2>1, <2>6, <3>2, <4>2, <4>3, <4>4, <4>5 DEF UploadsInv, WalkInv
    <3> QED
      BY <3>1, <3>2
  <2>9. DownloadInv'
    BY <1>1 DEF UploadsInv, DownloadInv, uploads!downloadVars
  <2> QED
    BY <2>7, <2>8, <2>9 DEF UploadsInv
<1>4. CASE ~(Len(files) < MaxFiles)
  <2>1. taken' = taken \cup {e} /\ UNCHANGED <<files, walk>>
    BY <1>4 DEF uploads!AddFiles
  <2>2. ListInv'
    BY <1>1, <2>1 DEF UploadsInv, ListInv, Listed, Distinct
  <2>3. WalkInv'
    BY <1>1, <2>1 DEF UploadsInv, WalkInv, Distinct
  <2>4. DownloadInv'
    BY <1>1 DEF UploadsInv, DownloadInv, uploads!downloadVars
  <2> QED
    BY <2>2, <2>3, <2>4 DEF UploadsInv
<1> QED
  BY <1>3, <1>4


LEMMA TakeOutStep ==
  ASSUME UploadsInv, NEW e \in Entries, uploads!RemoveFileFromList(e)
  PROVE  UploadsInv'
<1>1. PICK k \in DOMAIN files : files[k] = e /\ uploads!InPlace(uploads!RemoveAt(files, k))
  BY DEF uploads!RemoveFileFromList
<1>2. /\ taken' = taken \cup {e}
      /\ UNCHANGED <<status, dropped, step, uploadIsActive, uploadsPosted, uploads!downloadVars>>
  BY DEF uploads!RemoveFileFromList
<1>3. files \in Seq(Entries) /\ Len(files) \in Nat /\ DOMAIN files = 1 .. Len(files)
  BY SMTT(30), LenProperties DEF UploadsInv, ListInv
<1> DEFINE new == uploads!RemoveAt(files, k)
<1>4. /\ new \in Seq(Entries) /\ Len(new) = Len(files) - 1
      /\ \A n \in 1 .. Len(files) - 1 : new[n] = IF n < k THEN files[n] ELSE files[n + 1]
  BY <1>1, <1>3, RemoveAtFacts
<1>5. files' = new /\ walk' = IF walk.own THEN [walk EXCEPT !.array = new] ELSE walk
  BY SMTT(30), <1>1 DEF uploads!InPlace
<1> HIDE DEF new
<1> DEFINE at(n) == IF n < k THEN n ELSE n + 1
<1>6. PICK L \in Nat : L = Len(files) /\ k \in 1 .. L
  BY <1>1, <1>3
<1>7. \A n \in 1 .. Len(new) :
        /\ n \in Nat /\ at(n) \in 1 .. L /\ at(n) # k /\ at(n) >= n /\ new[n] = files[at(n)]
        /\ \A m \in 1 .. Len(new) : at(m) = at(n) => m = n
  BY <1>4, <1>6
<1>8. \A n \in 1 .. L : n # k => \E m \in 1 .. Len(new) : at(m) = n
  <2> SUFFICES ASSUME NEW n \in 1 .. L, n # k PROVE \E m \in 1 .. Len(new) : at(m) = n
    OBVIOUS
  <2>1. CASE n < k
    <3>1. n \in 1 .. Len(new) /\ at(n) = n
      BY <1>4, <1>6, <2>1
    <3> QED
      BY <3>1
  <2>2. CASE ~(n < k)
    <3>1. n - 1 \in 1 .. Len(new) /\ at(n - 1) = n
      BY <1>4, <1>6, <2>2
    <3> QED
      BY <3>1
  <2> QED
    BY <2>1, <2>2
<1> HIDE DEF at
<1>9. Distinct(new)
  <2> SUFFICES ASSUME NEW m \in 1 .. Len(new), NEW n \in 1 .. Len(new), new[m] = new[n] PROVE m = n
    BY DEF Distinct
  <2>1. at(m) = at(n)
    BY <1>6, <1>7 DEF UploadsInv, ListInv, Distinct
  <2> QED
    BY <1>7, <2>1
<1>10. \A n \in 1 .. Len(new) : new[n] \in dropped /\ uploadsPosted[new[n]] = 0
  BY <1>6, <1>7 DEF UploadsInv, ListInv
<1>11. ListInv'
  <2>1. e \in dropped
    BY <1>1, <1>3 DEF UploadsInv, ListInv
  <2>2. \A a \in dropped : Listed(a)' \/ a \in taken' \/ uploadsPosted[a] = 1
    <3> SUFFICES ASSUME NEW a \in dropped, a \notin taken', uploadsPosted[a] # 1
                 PROVE  \E j \in 1 .. Len(new) : new[j] = a
      BY <1>5 DEF Listed
    <3>1. PICK j \in 1 .. L : files[j] = a /\ j # k
      BY <1>1, <1>2, <1>6 DEF UploadsInv, ListInv, Listed
    <3>2. PICK m \in 1 .. Len(new) : at(m) = j
      BY <1>8, <3>1
    <3> QED
      BY <1>7, <3>1, <3>2
  <2> QED
    BY <1>2, <1>4, <1>5, <1>9, <1>10, <2>1, <2>2 DEF UploadsInv, ListInv
<1>12. WalkInv'
  <2>1. CASE ~walk.own
    <3>1. walk' = walk
      BY <1>5, <2>1
    <3> QED
      BY <1>2, <1>5, <2>1, <3>1 DEF UploadsInv, WalkInv, Distinct
  <2>2. CASE walk.own
    <3>1. walk' = [walk EXCEPT !.array = new] /\ walk.array = files
      BY <1>5, <2>2 DEF UploadsInv, WalkInv
    <3>2. /\ walk' \in WalkState /\ walk'.array = new /\ walk'.i = walk.i /\ walk'.file = walk.file
          /\ walk'.own = walk.own /\ walk.i \in Nat
      BY <1>4, <3>1 DEF UploadsInv, WalkInv, WalkState
    <3>3. step # "none" => \A n \in 1 .. Len(new) : n > walk.i =>
             uploadsPosted[new[n]] = 0 /\ new[n] # walk.file
      <4> SUFFICES ASSUME step # "none", NEW n \in 1 .. Len(new), n > walk.i
                   PROVE  uploadsPosted[new[n]] = 0 /\ new[n] # walk.file
        OBVIOUS
      <4>1. at(n) \in 1 .. L /\ at(n) > walk.i /\ new[n] = files[at(n)]
        BY <1>7, <3>2
      <4> QED
        BY <1>6, <3>1, <4>1 DEF UploadsInv, WalkInv
    <3>4. step # "none" => walk.file \in dropped /\ uploadsPosted[walk.file] = 0
      BY DEF UploadsInv, WalkInv
    <3>5. step \in {"none", "send", "wait", "add"} /\ (uploadIsActive <=> step # "none")
      BY DEF UploadsInv, WalkInv
    <3> QED
      BY <1>2, <1>5, <1>9, <1>10, <2>2, <3>2, <3>3, <3>4, <3>5 DEF WalkInv
  <2> QED
    BY <2>1, <2>2
<1>13. DownloadInv'
  BY <1>2 DEF UploadsInv, DownloadInv, uploads!downloadVars
<1> QED
  BY <1>11, <1>12, <1>13 DEF UploadsInv

\* cancelFiles
LEMMA CancelStep ==
  ASSUME UploadsInv, uploads!CancelFiles
  PROVE  UploadsInv'
<1>1. /\ taken' = taken \cup uploads!ToSet(files) /\ files' = <<>> /\ walk' = [walk EXCEPT !.own = FALSE]
      /\ UNCHANGED <<status, dropped, step, uploadIsActive, uploadsPosted, uploads!downloadVars>>
  BY DEF uploads!CancelFiles, uploads!Replace
<1>2. uploads!ToSet(files) \subseteq dropped /\ \A j \in 1 .. Len(files) : files[j] \in uploads!ToSet(files)
  BY LenProperties DEF UploadsInv, ListInv, uploads!ToSet
<1>3. files' \in Seq(Entries) /\ Len(files') = 0
  BY <1>1
<1>4. ListInv'
  <2>1. Distinct(files')
    BY <1>3 DEF Distinct
  <2>2. \A a \in dropped : a \in taken' \/ uploadsPosted[a] = 1
    BY <1>1, <1>2 DEF UploadsInv, ListInv, Listed
  <2>3. taken' \subseteq dropped
    BY <1>1, <1>2 DEF UploadsInv, ListInv
  <2>4. \A j \in 1 .. Len(files') : FALSE
    BY <1>3
  <2> QED
    BY <1>1, <1>3, <2>1, <2>2, <2>3, <2>4 DEF UploadsInv, ListInv
<1>5. /\ walk' \in WalkState /\ walk'.array = walk.array /\ walk'.i = walk.i /\ walk'.file = walk.file
      /\ ~walk'.own
  BY <1>1 DEF UploadsInv, WalkInv, WalkState
<1>6. WalkInv'
  BY <1>1, <1>5 DEF UploadsInv, WalkInv, Distinct
<1>7. DownloadInv'
  BY <1>1 DEF UploadsInv, DownloadInv, uploads!downloadVars
<1> QED
  BY <1>4, <1>6, <1>7 DEF UploadsInv

\* uploadFiles
LEMMA UploadStep ==
  ASSUME UploadsInv, uploads!UploadFiles
  PROVE  UploadsInv'
<1> DEFINE w == [array |-> files, own |-> TRUE, i |-> 1, file |-> files[1]]
<1>1. /\ files # <<>> /\ uploadIsActive' = TRUE /\ step' = "send" /\ walk' = w
      /\ status' = [status EXCEPT ![files[1]] = uploads!Loading]
      /\ UNCHANGED <<files, dropped, taken, uploadsPosted, uploads!downloadVars>>
  BY DEF uploads!UploadFiles
<1>2. files \in Seq(Entries) /\ Len(files) \in Nat /\ 1 \in 1 .. Len(files) /\ files[1] \in Entries
  BY <1>1, EmptySeq, LenProperties DEF UploadsInv, ListInv
<1>3. /\ w \in WalkState /\ w.array = files /\ w.i = 1 /\ w.file = files[1] /\ w.own = TRUE
  BY <1>2 DEF WalkState
<1> HIDE DEF w
<1>4. ListInv'
  <2>1. \A e \in Entries : status'[e] = uploads!Done => status[e] = uploads!Done
    BY <1>1 DEF UploadsInv, ListInv, uploads!Loading, uploads!Done
  <2>2. status' \in [Entries -> {uploads!Empty, uploads!Loading, uploads!Done}]
    BY <1>1, <1>2 DEF UploadsInv, ListInv
  <2> QED
    BY <1>1, <2>1, <2>2 DEF UploadsInv, ListInv, Listed, Distinct
<1>5. WalkInv'
  <2>1. \A j \in 1 .. Len(files) : j > 1 => uploadsPosted[files[j]] = 0 /\ files[j] # files[1]
    BY <1>2 DEF UploadsInv, ListInv, Distinct
  <2> QED
    BY <1>1, <1>2, <1>3, <2>1 DEF UploadsInv, ListInv, WalkInv, Distinct
<1>6. DownloadInv'
  BY <1>1 DEF UploadsInv, DownloadInv, uploads!downloadVars
<1> QED
  BY <1>4, <1>5, <1>6 DEF UploadsInv

\* The upload of a file ends, with the file in the library or not.
LEMMA SettleStep ==
  ASSUME UploadsInv, uploads!AddFile \/ uploads!UploadFails
  PROVE  UploadsInv'
<1>1. PICK s :
        /\ uploads!Settle(s, walk.array) /\ UNCHANGED <<dropped, taken, uploads!downloadVars>>
        /\ step # "none"
        /\ \/ /\ s = [status EXCEPT ![walk.file] = uploads!Done]
              /\ uploadsPosted' = [uploadsPosted EXCEPT ![walk.file] = @ + 1]
           \/ /\ s = [status EXCEPT ![walk.file] = uploads!Empty]
              /\ uploadsPosted' = uploadsPosted
  BY DEF uploads!AddFile, uploads!UploadFails
<1>2. /\ walk \in WalkState /\ walk.array \in Seq(Entries) /\ walk.i \in Nat
      /\ walk.file \in Entries /\ walk.file \in dropped /\ uploadsPosted[walk.file] = 0
  BY <1>1 DEF UploadsInv, WalkInv, ListInv, WalkState
<1>3. /\ s \in [Entries -> {uploads!Empty, uploads!Loading, uploads!Done}]
      /\ uploadsPosted' \in [Entries -> {0, 1}]
      /\ \A e \in Entries : e # walk.file => s[e] = status[e] /\ uploadsPosted'[e] = uploadsPosted[e]
      /\ \A e \in Entries : s[e] = uploads!Done => uploadsPosted'[e] = 1
      /\ uploadsPosted'[walk.file] = 1 => s[walk.file] = uploads!Done
  <2>1. CASE /\ s = [status EXCEPT ![walk.file] = uploads!Done]
             /\ uploadsPosted' = [uploadsPosted EXCEPT ![walk.file] = @ + 1]
    <3>1. uploadsPosted' = [uploadsPosted EXCEPT ![walk.file] = 1]
      BY <1>2, <2>1 DEF UploadsInv, ListInv
    <3> QED
      BY <1>2, <2>1, <3>1 DEF UploadsInv, ListInv
  <2>2. CASE /\ s = [status EXCEPT ![walk.file] = uploads!Empty]
             /\ uploadsPosted' = uploadsPosted
    BY <1>2, <2>2 DEF UploadsInv, ListInv, uploads!Done, uploads!Empty
  <2> QED
    BY <1>1, <2>1, <2>2
<1> DEFINE K == {j \in DOMAIN files : s[files[j]] # uploads!Done}
           new == uploads!ElementsAt(files, K)
<1>4. files \in Seq(Entries) /\ Len(files) \in Nat /\ DOMAIN files = 1 .. Len(files) /\ K \in SUBSET DOMAIN files
  BY LenProperties DEF UploadsInv, ListInv
<1>5. PICK p :
        /\ p \in [1 .. Len(new) -> K] /\ new \in Seq(Entries)
        /\ \A n \in 1 .. Len(new) : new[n] = files[p[n]]
        /\ \A m, n \in 1 .. Len(new) : m # n => p[m] # p[n]
        /\ \A i \in K : \E n \in 1 .. Len(new) : p[n] = i
  <2> HIDE DEF K
  <2> QED
    BY SMTT(30), <1>4, ElementsFacts
<1>6. files' = new
  BY <1>1 DEF uploads!Settle, uploads!WithoutDone
<1> HIDE DEF new
<1>7. \A n \in 1 .. Len(new) : p[n] \in 1 .. Len(files) /\ s[new[n]] # uploads!Done
  BY <1>4, <1>5
<1>8. \A j \in 1 .. Len(files) : s[files[j]] # uploads!Done => \E n \in 1 .. Len(new) : new[n] = files[j]
  BY SMTT(30), <1>4, <1>5
<1> HIDE DEF K
<1>9. Distinct(new)
  BY SMTT(30), <1>5, <1>7 DEF UploadsInv, ListInv, Distinct
<1>10. \A n \in 1 .. Len(new) : new[n] \in dropped /\ uploadsPosted'[new[n]] = 0
  <2> SUFFICES ASSUME NEW n \in 1 .. Len(new) PROVE new[n] \in dropped /\ uploadsPosted'[new[n]] = 0
    OBVIOUS
  <2>1. new[n] = files[p[n]] /\ p[n] \in 1 .. Len(files) /\ s[new[n]] # uploads!Done
    BY <1>5, <1>7
  <2>2. new[n] \in dropped /\ uploadsPosted[new[n]] = 0 /\ new[n] \in Entries
    BY <2>1 DEF UploadsInv, ListInv
  <2>3. CASE new[n] = walk.file
    BY <1>3, <2>1, <2>2, <2>3
  <2>4. CASE new[n] # walk.file
    BY <1>3, <2>2, <2>4
  <2> QED
    BY <2>2, <2>3, <2>4
<1>11. /\ status' \in [Entries -> {uploads!Empty, uploads!Loading, uploads!Done}]
       /\ \A e \in Entries : status'[e] = uploads!Done => s[e] = uploads!Done
  <2>1. CASE status' = s
    BY <1>3, <2>1
  <2>2. CASE \E i \in 1 .. Len(walk.array) : status' = [s EXCEPT ![walk.array[i]] = uploads!Loading]
    BY <1>2, <1>3, <2>2 DEF uploads!Loading, uploads!Done
  <2>3. walk.i + 1 <= Len(walk.array) => walk.i + 1 \in 1 .. Len(walk.array)
    BY <1>2, LenProperties
  <2> QED
    BY <1>1, <2>1, <2>2, <2>3 DEF uploads!Settle
<1>12. ListInv'
  <2>1. \A a \in dropped : Listed(a)' \/ a \in taken \/ uploadsPosted'[a] = 1
    <3> SUFFICES ASSUME NEW a \in dropped, a \notin taken, uploadsPosted'[a] # 1
                 PROVE  \E j \in 1 .. Len(new) : new[j] = a
      BY <1>6 DEF Listed
    <3>1. uploadsPosted[a] # 1 /\ a \in Entries
      BY <1>2, <1>3 DEF UploadsInv, ListInv
    <3>2. PICK j \in 1 .. Len(files) : files[j] = a
      BY <3>1 DEF UploadsInv, ListInv, Listed
    <3>3. s[a] # uploads!Done
      BY <1>3, <3>1
    <3> QED
      BY <1>8, <3>2, <3>3
  <2>2. \A e \in Entries : uploadsPosted'[e] = 1 => e \in dropped
    BY <1>2, <1>3 DEF UploadsInv, ListInv
  <2> QED
    BY <1>1, <1>3, <1>5, <1>6, <1>9, <1>10, <1>11, <2>1, <2>2 DEF UploadsInv, ListInv
<1>13. WalkInv'
  <2>1. CASE walk.i + 1 <= Len(walk.array)
    <3> DEFINE w == [array |-> walk.array, own |-> FALSE, i |-> walk.i + 1, file |-> walk.array[walk.i + 1]]
    <3>1. walk' = w /\ step' = "send" /\ uploadIsActive' = uploadIsActive
      BY <1>1, <2>1 DEF uploads!Settle
    <3>2. walk.i + 1 \in 1 .. Len(walk.array) /\ walk.array[walk.i + 1] \in Entries /\ walk.i + 1 > walk.i
      BY <1>2, <2>1, LenProperties, ElementOfSeq
    <3>3. w \in WalkState /\ w.array = walk.array /\ ~w.own /\ w.i = walk.i + 1 /\ w.file = walk.array[walk.i + 1]
      BY <1>2, <3>2 DEF WalkState
    <3> HIDE DEF w
    <3>4. \A j \in 1 .. Len(walk.array) : j > walk.i => uploadsPosted'[walk.array[j]] = 0
      <4> SUFFICES ASSUME NEW j \in 1 .. Len(walk.array), j > walk.i PROVE uploadsPosted'[walk.array[j]] = 0
        OBVIOUS
      <4>1. uploadsPosted[walk.array[j]] = 0 /\ walk.array[j] # walk.file /\ walk.array[j] \in dropped
        BY <1>1 DEF UploadsInv, WalkInv
      <4> QED
        BY <1>3, <4>1 DEF UploadsInv, ListInv
    <3>5. \A j \in 1 .. Len(walk.array) : j > walk.i + 1 => walk.array[j] # walk.array[walk.i + 1]
      BY <1>2, <3>2 DEF UploadsInv, WalkInv, Distinct
    <3>6. \A j \in 1 .. Len(walk.array) : j > walk.i + 1 => j > walk.i
      BY <1>2
    <3>7. uploadIsActive' <=> step' # "none"
      BY <1>1, <3>1 DEF UploadsInv, WalkInv
    <3> QED
      BY <1>1, <3>1, <3>2, <3>3, <3>4, <3>5, <3>6, <3>7 DEF UploadsInv, WalkInv, Distinct
  <2>2. CASE ~(walk.i + 1 <= Len(walk.array))
    <3>1. walk' = uploads!NoWalk /\ step' = "none" /\ uploadIsActive' = FALSE
      BY <1>1, <2>2 DEF uploads!Settle
    <3>2. walk'.array = <<>> /\ walk'.own = FALSE /\ walk'.i = 0 /\ walk'.file = uploads!NoEntry
      BY <3>1 DEF uploads!NoWalk
    <3>3. walk' = [array |-> <<>>, own |-> FALSE, i |-> 0, file |-> uploads!NoEntry] /\ <<>> \in Seq(Entries)
      BY <3>1 DEF uploads!NoWalk
    <3>4. walk' \in WalkState
      BY <3>3 DEF WalkState
    <3>5. Len(walk'.array) = 0
      BY <3>2
    <3> QED
      BY <3>1, <3>2, <3>4, <3>5 DEF WalkInv, Distinct
  <2> QED
    BY <2>1, <2>2
<1>14. DownloadInv'
  BY <1>1 DEF UploadsInv, DownloadInv, uploads!downloadVars
<1> QED
  BY <1>12, <1>13, <1>14 DEF UploadsInv

LEMMA UploadsStep ==
  ASSUME UploadsInv, uploads!UploadsNext \/ UNCHANGED uploadsVars
  PROVE  UploadsInv'
<1>1. CASE UNCHANGED uploadsVars
  <2>1. ListInv'
    BY <1>1 DEF uploadsVars, UploadsInv, ListInv, Listed, Distinct
  <2>2. WalkInv' /\ DownloadInv'
    BY <1>1 DEF uploadsVars, UploadsInv, WalkInv, DownloadInv, Distinct
  <2> QED
    BY <2>1, <2>2 DEF UploadsInv
<1>2. CASE \E e \in Entries : uploads!AddFiles(e) \/ uploads!RemoveFileFromList(e)
  BY <1>2, DropStep, TakeOutStep
<1>3. CASE uploads!CancelFiles \/ uploads!UploadFiles
  BY <1>3, CancelStep, UploadStep
<1>4. CASE uploads!Stored \/ uploads!RateLimited \/ uploads!Retry \/ uploads!Progress
  BY <1>4, SendStep
<1>5. CASE uploads!AddFile \/ uploads!UploadFails
  BY <1>5, SettleStep
<1>6. CASE \E e \in Entries : \/ uploads!DownloadFile(e) \/ uploads!DownloadEnds(e)
                              \/ uploads!DownloadFails(e) \/ uploads!DownloadAgain(e)
  BY <1>6, DownloadStep
<1> QED
  BY <1>1, <1>2, <1>3, <1>4, <1>5, <1>6 DEF uploads!UploadsNext

LEMMA UploadsEnd == UploadsInv => uploads!TransfersEnd
<1> SUFFICES ASSUME UploadsInv PROVE uploads!TransfersEnd
  OBVIOUS
<1>1. files \in Seq(Entries) /\ DOMAIN files = 1 .. Len(files)
  BY LenProperties DEF UploadsInv, ListInv
<1>2. \A e \in Entries : uploads!InList(e) <=> Listed(e)
  BY <1>1 DEF uploads!InList, uploads!ToSet, Listed
<1>3. \A e \in Entries : uploadsPosted[e] <= 1 /\ (uploadsPosted[e] = 1 => ~Listed(e))
  BY DEF UploadsInv, ListInv, Listed
<1> QED
  BY <1>2, <1>3 DEF uploads!TransfersEnd, UploadsInv, ListInv, DownloadInv

-----------------------------------------------------------------------------
(* Compose: a file that is shared is sent once at most.                    *)

\* A composer that keeps the file that is shared, or loses it.
Boxed(k) == DOMAIN k = DOMAIN compose!Blank
Keeps(k, l) == Boxed(l) /\ l.share \in {k.share, 0}

ComposeInv ==
  /\ \A c \in compose!Composers : Boxed(box[c])
  /\ box["thread"].share = 0
  /\ box["timeline"].share \in 0 .. Len(shared)
  /\ shared \in Seq({0, 1})
  /\ box["timeline"].share # 0 => shared[box["timeline"].share] = 0

LEMMA BlankFields ==
  /\ Boxed(compose!Blank) /\ compose!Blank.share = 0
  /\ {"text", "save", "root", "reply", "send", "mention", "announce", "sign", "poll", "file", "share",
      "edit", "original", "existing", "dropped"} = DOMAIN compose!Blank
  BY DEF Boxed, compose!Blank

LEMMA ResetKeeps ==
  ASSUME NEW k, Boxed(k)
  PROVE  Boxed(compose!ResetAll(k)) /\ compose!ResetAll(k).share = 0
  BY BlankFields DEF compose!ResetAll, Boxed

LEMMA RecheckKeeps ==
  ASSUME NEW k, Boxed(k)
  PROVE  Boxed(compose!Recheck(k)) /\ compose!Recheck(k).share = k.share
  BY BlankFields DEF compose!Recheck, Boxed

LEMMA TextKeeps ==
  ASSUME NEW k, Boxed(k), NEW t
  PROVE  Boxed(compose!SetText(k, t)) /\ compose!SetText(k, t).share = k.share
<1> DEFINE l == [k EXCEPT !.text = t, !.save = t]
<1>1. Boxed(l) /\ l.share = k.share
  BY BlankFields DEF Boxed
<1> HIDE DEF l
<1>2. Boxed(compose!Recheck(l)) /\ compose!Recheck(l).share = k.share
  BY <1>1, RecheckKeeps
<1> QED
  BY <1>2 DEF compose!SetText, l

LEMMA HearsKeeps ==
  ASSUME NEW k, Boxed(k), NEW escape
  PROVE  Keeps(k, compose!Hears(k, escape))
<1>1. Boxed(compose!Recheck(compose!ResetAll(k))) /\ compose!Recheck(compose!ResetAll(k)).share = 0
  BY ResetKeeps, RecheckKeeps
<1> QED
  BY <1>1 DEF compose!Hears, Keeps

LEMMA CancelKeeps ==
  ASSUME NEW k, Boxed(k)
  PROVE  Keeps(k, compose!CancelEdit(k))
<1> DEFINE l == [compose!SetText(k, 0) EXCEPT !.original = compose!Nothing, !.dropped = compose!Nothing]
<1>1. Boxed(l)
  BY TextKeeps, BlankFields DEF Boxed
<1> HIDE DEF l
<1>2. Boxed(compose!Recheck(compose!ResetAll(l))) /\ compose!Recheck(compose!ResetAll(l)).share = 0
  BY <1>1, ResetKeeps, RecheckKeeps
<1> QED
  BY <1>2 DEF compose!CancelEdit, Keeps, l

LEMMA SubscribedKeeps ==
  ASSUME NEW b, NEW c \in compose!Composers, Boxed(b[c]), NEW r, NEW w
  PROVE  Boxed(compose!Subscribed(b, r, w)[c]) /\ compose!Subscribed(b, r, w)[c].share = b[c].share
<1> DEFINE l == [b[c] EXCEPT !.reply = compose!Nothing]
<1>1. Boxed(l) /\ l.share = b[c].share
  BY BlankFields DEF Boxed
<1>2. compose!Subscribed(b, r, w)[c] \in {b[c], compose!Recheck(l), l}
  BY DEF compose!Subscribed
<1> HIDE DEF l
<1>3. Boxed(compose!Recheck(l)) /\ compose!Recheck(l).share = b[c].share
  BY <1>1, RecheckKeeps
<1> QED
  BY <1>1, <1>2, <1>3

\* A step in which no composer gets a file and none is sent.
LEMMA KeepStep ==
  ASSUME ComposeInv, UNCHANGED shared, \A c \in compose!Composers : Keeps(box[c], box'[c])
  PROVE  ComposeInv'
<1>1. Len(shared) \in Nat /\ "thread" \in compose!Composers /\ "timeline" \in compose!Composers
  BY LenProperties DEF ComposeInv, compose!Composers
<1> QED
  BY <1>1 DEF ComposeInv, Keeps

\* One composer becomes k, the other is as it was.
LEMMA OnlyStep ==
  ASSUME ComposeInv, NEW c, NEW k, compose!Only(c, k),
         c \in compose!Composers => Keeps(box[c], k)
  PROVE  \A d \in compose!Composers : Keeps(box[d], box'[d])
  BY DEF compose!Only, compose!With, ComposeInv, Keeps

LEMMA ComposeStart == compose!ComposeInit => ComposeInv
<1> SUFFICES ASSUME compose!ComposeInit PROVE ComposeInv
  OBVIOUS
<1>1. \A c \in compose!Composers : box[c] = compose!Blank
  BY DEF compose!ComposeInit
<1>2. shared = <<>> /\ shared \in Seq({0, 1}) /\ Len(shared) = 0
  BY DEF compose!ComposeInit
<1> QED
  BY <1>1, <1>2, BlankFields DEF ComposeInv, compose!Composers

\* Typing, threads, drafts and modes.
LEMMA TypeStep ==
  ASSUME ComposeInv, NEW c \in compose!Composers,
         \/ compose!Type(c) \/ compose!Blur(c) \/ compose!Escape \/ compose!SaveDraft(c)
  PROVE  ComposeInv'
<1>1. shared' = shared /\ \A d \in compose!Composers : Boxed(box[d])
  BY DEF compose!Type, compose!Blur, compose!Escape, compose!SaveDraft, ComposeInv
<1>2. ASSUME NEW d \in compose!Composers PROVE Keeps(box[d], box'[d])
  <2>1. CASE compose!Type(c)
    <3> DEFINE l == [box[c] EXCEPT !.mention = TRUE]
    <3>1. Boxed(l) /\ l.share = box[c].share
      BY <1>1, BlankFields DEF Boxed
    <3>2. box'[d] = IF d = c THEN compose!SetText(l, Len(typed')) ELSE compose!Hears(box[d], FALSE)
      BY <2>1 DEF compose!Type
    <3> HIDE DEF l
    <3>3. Keeps(box[c], compose!SetText(l, Len(typed')))
      BY <3>1, TextKeeps DEF Keeps
    <3>4. Keeps(box[d], compose!Hears(box[d], FALSE))
      BY <1>1, HearsKeeps
    <3> QED
      BY <3>2, <3>3, <3>4
  <2>2. CASE compose!Blur(c)
    <3>1. Keeps(box[c], [box[c] EXCEPT !.mention = FALSE])
      BY <1>1, BlankFields DEF Boxed, Keeps
    <3> QED
      BY <2>2, <3>1, OnlyStep DEF compose!Blur
  <2>3. CASE compose!Escape
    <3>1. Keeps(box[d], compose!Hears(box[d], TRUE)) /\ Keeps(box[d], box[d])
      BY <1>1, HearsKeeps DEF Keeps
    <3>2. box'[d] \in {box[d], compose!Hears(box[d], TRUE)}
      BY <2>3 DEF compose!Escape
    <3> QED
      BY <3>1, <3>2
  <2>4. CASE compose!SaveDraft(c)
    <3>1. Keeps(box[c], [box[c] EXCEPT !.save = -1])
      BY <1>1, BlankFields DEF Boxed, Keeps
    <3> QED
      BY <2>4, <3>1, OnlyStep DEF compose!SaveDraft
  <2> QED
    BY <2>1, <2>2, <2>3, <2>4
<1> QED
  BY <1>1, <1>2, KeepStep

LEMMA ThreadStep ==
  ASSUME ComposeInv,
         \/ \E t \in Threads : compose!OpenThread(t)
         \/ \E p \in compose!Places : compose!Reply(p)
         \/ compose!CloseThread \/ compose!Reenter \/ compose!CancelReply \/ compose!Whisper \/ compose!Announce
  PROVE  ComposeInv'
<1>1. shared' = shared /\ \A d \in compose!Composers : Boxed(box[d])
  BY DEF compose!OpenThread, compose!Reply, compose!CloseThread, compose!Reenter, compose!CancelReply,
         compose!Whisper, compose!Announce, ComposeInv
<1>2. ASSUME NEW d \in compose!Composers PROVE Keeps(box[d], box'[d])
  <2>1. \A r, w : Keeps(box[d], compose!Subscribed(box, r, w)[d])
    BY <1>1, SubscribedKeeps DEF Keeps
  <2>2. Keeps(box[d], box[d]) /\ Keeps(box[d], compose!Blank)
    BY <1>1, BlankFields DEF Keeps
  <2>3. CASE \E t \in Threads : compose!OpenThread(t)
    <3>1. box' = box \/ \E r, w : box' = compose!Subscribed(box, r, w)
      BY <2>3 DEF compose!OpenThread
    <3> QED
      BY <2>1, <2>2, <3>1
  <2>4. CASE \/ \E p \in compose!Places : compose!Reply(p)
             \/ compose!CancelReply \/ compose!Whisper
    <3>1. \E r, w : box' = compose!Subscribed(box, r, w)
      BY <2>4 DEF compose!Reply, compose!CancelReply, compose!Whisper
    <3> QED
      BY <2>1, <3>1
  <2>5. CASE compose!CloseThread
    <3>1. compose!Only("thread", compose!Blank) /\ Keeps(box["thread"], compose!Blank)
      BY <2>5, BlankFields DEF compose!CloseThread, Keeps
    <3> QED
      BY <3>1, OnlyStep
  <2>6. CASE compose!Reenter
    BY <2>2, <2>6 DEF compose!Reenter
  <2>7. CASE compose!Announce
    <3>1. "timeline" \in compose!Composers
      BY DEF compose!Composers
    <3>2. Keeps(box["timeline"], [box["timeline"] EXCEPT !.announce = ~@])
      BY <1>1, <3>1, BlankFields DEF Boxed, Keeps
    <3> QED
      BY <2>7, <3>2, OnlyStep DEF compose!Announce
  <2> QED
    BY <2>3, <2>4, <2>5, <2>6, <2>7
<1> QED
  BY <1>1, <1>2, KeepStep

LEMMA ModeStep ==
  ASSUME ComposeInv, NEW c \in compose!Composers,
         \/ compose!Attach(c) \/ compose!Detach(c) \/ compose!OpenSign(c) \/ compose!CloseSign(c)
         \/ compose!OpenPoll \/ compose!StopEdit(c)
  PROVE  ComposeInv'
<1>1. shared' = shared /\ \A d \in compose!Composers : Boxed(box[d])
  BY DEF compose!Attach, compose!Detach, compose!OpenSign, compose!CloseSign, compose!OpenPoll,
         compose!StopEdit, ComposeInv
<1>2. \E d \in compose!Composers : \E k : Keeps(box[d], k) /\ compose!Only(d, k)
  <2>1. CASE compose!Attach(c)
    <3> DEFINE k == [box[c] EXCEPT !.file = TRUE, !.share = 0, !.send = TRUE]
    <3>1. Keeps(box[c], k)
      BY <1>1, BlankFields DEF Boxed, Keeps
    <3>2. compose!Only(c, k)
      BY <2>1 DEF compose!Attach
    <3> HIDE DEF k
    <3> QED
      BY <3>1, <3>2
  <2>2. CASE compose!Detach(c)
    <3> DEFINE k == box[c]
               l == IF k.file THEN [k EXCEPT !.file = FALSE]
                    ELSE IF k.existing # compose!Nothing THEN [k EXCEPT !.existing = compose!Nothing, !.dropped = k.existing]
                    ELSE [k EXCEPT !.share = 0]
    <3>1. Keeps(k, [k EXCEPT !.file = FALSE]) /\ Keeps(k, [k EXCEPT !.share = 0])
          /\ Keeps(k, [k EXCEPT !.existing = compose!Nothing, !.dropped = k.existing])
      BY <1>1, BlankFields DEF Boxed, Keeps
    <3>2. Keeps(k, l)
      BY <3>1
    <3>3. compose!Only(c, compose!Recheck(l))
      BY <2>2 DEF compose!Detach
    <3> HIDE DEF l
    <3>4. Keeps(k, compose!Recheck(l))
      BY <3>2, RecheckKeeps DEF Keeps
    <3> QED
      BY <3>3, <3>4
  <2>3. CASE compose!OpenSign(c)
    <3> DEFINE k == compose!ResetAll(box[c])
               l == [k EXCEPT !.send = box[c].send, !.file = box[c].file, !.sign = TRUE]
    <3>1. Boxed(k) /\ k.share = 0
      BY <1>1, ResetKeeps
    <3> HIDE DEF k
    <3>2. Keeps(box[c], l)
      BY <3>1, BlankFields DEF Boxed, Keeps
    <3>3. compose!Only(c, l)
      BY <2>3 DEF compose!OpenSign, k
    <3> HIDE DEF l
    <3> QED
      BY <3>2, <3>3
  <2>4. CASE compose!CloseSign(c)
    <3> DEFINE k == [box[c] EXCEPT !.sign = FALSE]
    <3>1. Keeps(box[c], k)
      BY <1>1, BlankFields DEF Boxed, Keeps
    <3>2. compose!Only(c, k)
      BY <2>4 DEF compose!CloseSign
    <3> HIDE DEF k
    <3> QED
      BY <3>1, <3>2
  <2>5. CASE compose!OpenPoll
    <3> DEFINE k == compose!ResetAll(box["timeline"])
    <3>1. "timeline" \in compose!Composers
      BY DEF compose!Composers
    <3>2. Boxed(k) /\ k.share = 0
      BY <1>1, <3>1, ResetKeeps
    <3>3. PICK complete \in BOOLEAN : compose!Only("timeline", [k EXCEPT !.poll = TRUE, !.send = complete])
      BY <2>5 DEF compose!OpenPoll
    <3> HIDE DEF k
    <3>4. Keeps(box["timeline"], [k EXCEPT !.poll = TRUE, !.send = complete])
      BY <3>2, BlankFields DEF Boxed, Keeps
    <3> QED
      BY <3>1, <3>3, <3>4
  <2>6. CASE compose!StopEdit(c)
    <3>1. Keeps(box[c], compose!CancelEdit(box[c])) /\ compose!Only(c, compose!CancelEdit(box[c]))
      BY <1>1, <2>6, CancelKeeps DEF compose!StopEdit
    <3> QED
      BY <3>1
  <2> QED
    BY <2>1, <2>2, <2>3, <2>4, <2>5, <2>6
<1> QED
  BY <1>1, <1>2, OnlyStep, KeepStep


\* A message is edited: the text now, a file when its preview has come.
LEMMA EditStep ==
  ASSUME ComposeInv, NEW c \in compose!Composers, NEW m, NEW t, compose!Edit(c, m, t)
  PROVE  ComposeInv'
<1>1. shared' = shared /\ \A d \in compose!Composers : Boxed(box[d])
  BY DEF compose!Edit, ComposeInv
<1>0. PICK no : no = FALSE
  OBVIOUS
<1> DEFINE b == compose!Subscribed(box, compose!Nothing, no)
           k == [compose!SetText(b[c], t) EXCEPT !.original = m, !.dropped = compose!Nothing]
           l == compose!Recheck([compose!ResetAll(k) EXCEPT !.edit = m])
<1>2. \A d \in compose!Composers : Boxed(b[d]) /\ b[d].share = box[d].share
  BY <1>1, SubscribedKeeps
<1>3. box' = compose!With(b, c, k) \/ box' = compose!With(b, c, l)
  BY <1>0 DEF compose!Edit
<1> HIDE DEF b
<1>4. Boxed(k) /\ k.share = box[c].share
  <2>1. Boxed(compose!SetText(b[c], t)) /\ compose!SetText(b[c], t).share = box[c].share
    BY <1>2, TextKeeps
  <2> QED
    BY <2>1, BlankFields DEF Boxed
<1> HIDE DEF k
<1>5. Boxed(l) /\ l.share = 0
  <2> DEFINE r == compose!ResetAll(k)
  <2>1. Boxed(r) /\ r.share = 0
    BY <1>4, ResetKeeps
  <2> HIDE DEF r
  <2>2. Boxed([r EXCEPT !.edit = m]) /\ [r EXCEPT !.edit = m].share = 0
    BY <2>1, BlankFields DEF Boxed
  <2>3. Boxed(compose!Recheck([r EXCEPT !.edit = m])) /\ compose!Recheck([r EXCEPT !.edit = m]).share = 0
    BY <2>2, RecheckKeeps
  <2> QED
    BY <2>3 DEF r
<1> HIDE DEF l
<1>6. \A d \in compose!Composers : Keeps(box[d], box'[d])
  BY <1>2, <1>3, <1>4, <1>5 DEF compose!With, Keeps
<1> QED
  BY <1>1, <1>6, KeepStep

\* A file is shared: it has a place in shared that no composer had.
LEMMA ShareStep ==
  ASSUME ComposeInv, compose!Share
  PROVE  ComposeInv'
<1> DEFINE k == IF box["timeline"].edit # compose!Nothing THEN compose!CancelEdit(box["timeline"]) ELSE box["timeline"]
           r == compose!ResetAll(k)
           l == [r EXCEPT !.share = Len(shared'), !.send = TRUE, !.reply = compose!Nothing]
<1>1. shared' = Append(shared, 0) /\ compose!Only("timeline", l)
  BY DEF compose!Share
<1>2. \A d \in compose!Composers : Boxed(box[d])
  BY DEF ComposeInv
<1>3. Boxed(k)
  BY <1>2, CancelKeeps DEF Keeps, compose!Composers
<1> HIDE DEF k
<1>4. Boxed(r)
  BY <1>3, ResetKeeps
<1> HIDE DEF r
<1>5. Boxed(l) /\ l.share = Len(shared')
  BY <1>4, BlankFields DEF Boxed
<1> HIDE DEF l
<1>6. shared \in Seq({0, 1}) /\ 0 \in {0, 1}
  BY DEF ComposeInv
<1>7. /\ shared' \in Seq({0, 1}) /\ Len(shared') = Len(shared) + 1 /\ shared'[Len(shared) + 1] = 0
      /\ Len(shared) \in Nat
  BY <1>1, <1>6, AppendProperties, LenProperties
<1>8. box'["timeline"] = l /\ box'["thread"] = box["thread"]
  BY <1>1 DEF compose!Only, compose!With, compose!Composers
<1> QED
  BY <1>2, <1>5, <1>7, <1>8 DEF ComposeInv, compose!Composers

\* The file that is shared is sent, and leaves the composer with it.
LEMMA SharedStep ==
  ASSUME ComposeInv, NEW c \in compose!Composers, compose!SubmitShared(c)
  PROVE  ComposeInv'
<1> DEFINE b == compose!Subscribed(box, compose!Nothing, whispering)
           e == [b[c] EXCEPT !.share = 0]
           l == compose!Recheck(compose!SetText(e, 0))
<1>1. \A d \in compose!Composers : Boxed(box[d]) /\ Boxed(b[d]) /\ b[d].share = box[d].share
  <2>1. \A d \in compose!Composers : Boxed(box[d])
    BY DEF ComposeInv
  <2> QED
    BY <2>1, SubscribedKeeps
<1>2. /\ box[c].share # 0 /\ box' = compose!With(b, c, l)
      /\ shared' = [shared EXCEPT ![box[c].share] = @ + 1]
  BY DEF compose!SubmitShared, compose!Emptied
<1>3. c = "timeline"
  BY <1>2 DEF ComposeInv, compose!Composers
<1> HIDE DEF b
<1>4. Boxed(e) /\ e.share = 0
  BY <1>1, BlankFields DEF Boxed
<1> HIDE DEF e
<1>5. Boxed(l) /\ l.share = 0
  <2>1. Boxed(compose!SetText(e, 0)) /\ compose!SetText(e, 0).share = 0
    BY <1>4, TextKeeps
  <2> QED
    BY <2>1, RecheckKeeps
<1> HIDE DEF l
<1>6. /\ box'["timeline"] = l /\ box'["thread"] = b["thread"] /\ "thread" \in compose!Composers
  BY <1>2, <1>3 DEF compose!With, compose!Composers
<1>7. shared' \in Seq({0, 1}) /\ Len(shared') \in Nat
  <2> DEFINE i == box["timeline"].share
  <2>1. /\ Len(shared) \in Nat /\ i \in 1 .. Len(shared) /\ shared[i] = 0
        /\ shared \in Seq({0, 1}) /\ shared' = [shared EXCEPT ![i] = shared[i] + 1]
    <3>1. Len(shared) \in Nat
      BY LenProperties DEF ComposeInv
    <3> QED
      BY <1>2, <1>3, <3>1 DEF ComposeInv
  <2> HIDE DEF i
  <2>2. shared' = [shared EXCEPT ![i] = 1]
    BY <2>1
  <2>3. shared' \in Seq({0, 1})
    BY <2>1, <2>2, ExceptSeq
  <2> QED
    BY <2>3, LenProperties
<1> QED
  BY <1>1, <1>5, <1>6, <1>7 DEF ComposeInv, compose!Composers

\* What is sent otherwise.
LEMMA SubmitStep ==
  ASSUME ComposeInv, NEW c \in compose!Composers,
         \/ compose!SubmitEdit(c) \/ compose!SubmitSign(c) \/ compose!SubmitAwaited(c)
         \/ compose!SubmitPoll(c) \/ compose!SubmitFile(c) \/ compose!SubmitText(c)
  PROVE  ComposeInv'
<1>1. shared' = shared /\ \A d \in compose!Composers : Boxed(box[d])
  BY DEF compose!SubmitEdit, compose!SubmitSign, compose!SubmitAwaited, compose!SubmitPoll,
         compose!SubmitFile, compose!SubmitText, ComposeInv
<1> DEFINE b == compose!Subscribed(box, compose!Nothing, whispering)
<1>2. \A d \in compose!Composers : Boxed(b[d]) /\ b[d].share = box[d].share
  BY <1>1, SubscribedKeeps
<1>3. \A d \in compose!Composers : Keeps(box[d], box'[d])
  <2>1. CASE compose!SubmitEdit(c) \/ compose!SubmitSign(c) \/ compose!SubmitAwaited(c)
    <3>1. box' = box
      BY <2>1 DEF compose!SubmitEdit, compose!SubmitSign, compose!SubmitAwaited
    <3> QED
      BY <1>1, <3>1 DEF Keeps
  <2>2. CASE compose!SubmitPoll(c)
    <3>1. compose!Only(c, compose!SetText(compose!ResetAll(box[c]), 0))
      BY <2>2 DEF compose!SubmitPoll
    <3>2. Boxed(compose!ResetAll(box[c])) /\ compose!ResetAll(box[c]).share = 0
      BY <1>1, ResetKeeps
    <3>3. Keeps(box[c], compose!SetText(compose!ResetAll(box[c]), 0))
      BY <3>2, TextKeeps DEF Keeps
    <3> QED
      BY <3>1, <3>3, OnlyStep
  <2>3. CASE compose!SubmitFile(c)
    <3>1. box' = box \/ box' = b
      BY <2>3 DEF compose!SubmitFile
    <3> QED
      BY <1>1, <1>2, <3>1 DEF Keeps
  <2>4. CASE compose!SubmitText(c)
    <3>1. box' = compose!With(b, c, compose!SetText(b[c], 0))
      BY <2>4 DEF compose!SubmitText
    <3> HIDE DEF b
    <3>2. Boxed(compose!SetText(b[c], 0)) /\ compose!SetText(b[c], 0).share = box[c].share
      BY <1>2, TextKeeps
    <3> QED
      BY <1>2, <3>1, <3>2 DEF compose!With, Keeps
  <2> QED
    BY <2>1, <2>2, <2>3, <2>4
<1> QED
  BY <1>1, <1>3, KeepStep

\* Answers, in time or late, and failures.
LEMMA AnsweredStep ==
  ASSUME ComposeInv, compose!Answered
  PROVE  ComposeInv'
<1>1. PICK w \in waits :
        \/ w.op \in {"root", "mount"} /\ compose!RootArrives(w)
        \/ w.op = "reply" /\ compose!ReplyArrives(w)
        \/ w.op = "preview" /\ compose!PreviewArrives(w)
        \/ compose!Done(w)
        \/ compose!Fails(w)
  BY DEF compose!Answered
<1>2. shared' = shared /\ \A d \in compose!Composers : Boxed(box[d])
  BY <1>1 DEF compose!RootArrives, compose!ReplyArrives, compose!PreviewArrives, compose!Done,
         compose!Fails, ComposeInv
<1> DEFINE k == compose!Box(w.c)
<1>3. Boxed(k) /\ (w.c \in compose!Composers => k = box[w.c])
  BY <1>2, BlankFields DEF compose!Box
<1> HIDE DEF k
<1>4. \A d \in compose!Composers : Keeps(box[d], box[d])
  BY <1>2 DEF Keeps
<1>5. \/ box' = box
      \/ \E l : Keeps(k, l) /\ compose!Only(w.c, l)
      \/ \E r, l : Keeps(k, l) /\ box' = compose!With(compose!Subscribed(box, r, FALSE), w.c, l)
      \/ \E l : (w.c \in compose!Composers => Keeps(k, l)) /\ compose!Only(w.c, l)
  <2>1. CASE compose!RootArrives(w)
    <3> DEFINE r == [box[w.c] EXCEPT !.root = w.at]
    <3>1. compose!Only(w.c, IF w.op = "mount" /\ drafts[opened] = 0 THEN r
                            ELSE compose!SetText(r, drafts[opened]))
      BY <2>1 DEF compose!RootArrives
    <3>2. ASSUME w.c \in compose!Composers
          PROVE  Keeps(k, r) /\ Keeps(k, compose!SetText(r, drafts[opened]))
      <4>1. Boxed(r) /\ r.share = k.share
        BY <1>2, <1>3, <3>2, BlankFields DEF Boxed
      <4> HIDE DEF r
      <4> QED
        BY <4>1, TextKeeps DEF Keeps
    <3> HIDE DEF r
    <3> QED
      BY <3>1, <3>2
  <2>2. CASE compose!ReplyArrives(w)
    <3> DEFINE r == [box[w.c] EXCEPT !.reply = w.at]
    <3>1. compose!Only(w.c, IF (w.c = "thread") = (w.at # None) THEN compose!Recheck(r) ELSE compose!Recheck(box[w.c]))
      BY <2>2 DEF compose!ReplyArrives
    <3>2. ASSUME w.c \in compose!Composers
          PROVE  Keeps(k, compose!Recheck(r)) /\ Keeps(k, compose!Recheck(box[w.c]))
      <4>1. Boxed(r) /\ r.share = k.share /\ Boxed(box[w.c])
        BY <1>2, <1>3, <3>2, BlankFields DEF Boxed
      <4> HIDE DEF r
      <4> QED
        BY <1>3, <3>2, <4>1, RecheckKeeps DEF Keeps
    <3> HIDE DEF r
    <3> QED
      BY <3>1, <3>2
  <2>3. CASE compose!PreviewArrives(w)
    <3> DEFINE r == [compose!ResetAll(box[w.c]) EXCEPT !.edit = w.at, !.existing = w.at]
    <3>1. compose!Only(w.c, compose!Recheck(r))
      BY <2>3 DEF compose!PreviewArrives
    <3>2. ASSUME w.c \in compose!Composers
          PROVE  Keeps(k, compose!Recheck(r))
      <4>1. Boxed(compose!ResetAll(box[w.c])) /\ compose!ResetAll(box[w.c]).share = 0
        BY <1>2, <3>2, ResetKeeps
      <4>2. Boxed(r) /\ r.share = 0
        BY <4>1, BlankFields DEF Boxed
      <4> HIDE DEF r
      <4> QED
        BY <4>2, RecheckKeeps DEF Keeps
    <3> HIDE DEF r
    <3> QED
      BY <3>1, <3>2
  <2>4. CASE compose!Done(w)
    <3>1. CASE w.op = "announce" /\ compose!Only(w.c, [compose!SetText(k, 0) EXCEPT !.announce = FALSE])
      <4>1. Boxed(compose!SetText(k, 0)) /\ compose!SetText(k, 0).share = k.share
        BY <1>3, TextKeeps
      <4>2. Keeps(k, [compose!SetText(k, 0) EXCEPT !.announce = FALSE])
        BY <4>1, BlankFields DEF Boxed, Keeps
      <4> QED
        BY <3>1, <4>2
    <3>2. CASE w.op = "whisper" /\ box' = compose!With(compose!Subscribed(box, replyingTo, FALSE), w.c,
                                            compose!SetText([k EXCEPT !.reply = compose!Nothing], 0))
      <4> DEFINE r == [k EXCEPT !.reply = compose!Nothing]
      <4>1. Boxed(r) /\ r.share = k.share
        BY <1>3, BlankFields DEF Boxed
      <4>2. box' = compose!With(compose!Subscribed(box, replyingTo, FALSE), w.c, compose!SetText(r, 0))
        BY <3>2
      <4> HIDE DEF r
      <4>3. Keeps(k, compose!SetText(r, 0))
        BY <4>1, TextKeeps DEF Keeps
      <4> QED
        BY <4>2, <4>3
    <3>3. CASE w.op = "sign" /\ compose!Only(w.c, compose!SetText([k EXCEPT !.sign = FALSE], 0))
      <4> DEFINE r == [k EXCEPT !.sign = FALSE]
      <4>1. Boxed(r) /\ r.share = k.share
        BY <1>3, BlankFields DEF Boxed
      <4>2. compose!Only(w.c, compose!SetText(r, 0))
        BY <3>3
      <4> HIDE DEF r
      <4>3. Keeps(k, compose!SetText(r, 0))
        BY <4>1, TextKeeps DEF Keeps
      <4> QED
        BY <4>2, <4>3
    <3>4. CASE w.op = "upload" /\ compose!Only(w.c, compose!Recheck(compose!SetText([k EXCEPT !.file = FALSE], 0)))
      <4> DEFINE r == [k EXCEPT !.file = FALSE]
      <4>1. Boxed(r) /\ r.share = k.share
        BY <1>3, BlankFields DEF Boxed
      <4>2. compose!Only(w.c, compose!Recheck(compose!SetText(r, 0)))
        BY <3>4
      <4> HIDE DEF r
      <4>3. Boxed(compose!SetText(r, 0)) /\ compose!SetText(r, 0).share = k.share
        BY <4>1, TextKeeps
      <4>4. Keeps(k, compose!Recheck(compose!SetText(r, 0)))
        BY <4>3, RecheckKeeps DEF Keeps
      <4> QED
        BY <4>2, <4>4
    <3>5. CASE w.op = "edit" /\ compose!Only(w.c, compose!CancelEdit(k))
      BY <1>3, <3>5, CancelKeeps
    <3> QED
      BY <2>4, <3>1, <3>2, <3>3, <3>4, <3>5 DEF compose!Done, k
  <2>5. CASE compose!Fails(w)
    <3>1. CASE w.op = "upload" /\ compose!Only(w.c, compose!Recheck([k EXCEPT !.file = FALSE]))
      <4> DEFINE r == [k EXCEPT !.file = FALSE]
      <4>1. Boxed(r) /\ r.share = k.share
        BY <1>3, BlankFields DEF Boxed
      <4>2. compose!Only(w.c, compose!Recheck(r))
        BY <3>1
      <4> HIDE DEF r
      <4>3. Keeps(k, compose!Recheck(r))
        BY <4>1, RecheckKeeps DEF Keeps
      <4> QED
        BY <4>2, <4>3
    <3>2. CASE w.op = "edit" /\ compose!Only(w.c, compose!CancelEdit(k))
      BY <1>3, <3>2, CancelKeeps
    <3> QED
      BY <2>5, <3>1, <3>2 DEF compose!Fails, k
  <2> QED
    BY <1>1, <2>1, <2>2, <2>3, <2>4, <2>5
<1>6. \A d \in compose!Composers : Keeps(box[d], box'[d])
  <2>1. CASE box' = box
    BY <1>4, <2>1
  <2>2. CASE \E l : (w.c \in compose!Composers => Keeps(k, l)) /\ compose!Only(w.c, l)
    BY <1>3, <2>2, OnlyStep
  <2>3. CASE \E r, l : Keeps(k, l) /\ box' = compose!With(compose!Subscribed(box, r, FALSE), w.c, l)
    <3>1. PICK r, no, l : Keeps(k, l) /\ box' = compose!With(compose!Subscribed(box, r, no), w.c, l)
      BY <2>3
    <3>2. \A d \in compose!Composers : Keeps(box[d], compose!Subscribed(box, r, no)[d])
      BY <1>2, SubscribedKeeps DEF Keeps
    <3> QED
      BY <1>3, <3>1, <3>2 DEF compose!With
  <2> QED
    BY <1>5, <2>1, <2>2, <2>3
<1> QED
  BY <1>2, <1>6, KeepStep

LEMMA ComposeStep ==
  ASSUME ComposeInv, compose!ComposeNext \/ UNCHANGED composeVars
  PROVE  ComposeInv'
<1>1. CASE UNCHANGED composeVars
  <2>1. \A d \in compose!Composers : Keeps(box[d], box[d])
    BY DEF ComposeInv, Keeps
  <2> QED
    BY <1>1, <2>1, KeepStep DEF composeVars
<1>2. CASE \/ compose!Reenter \/ compose!CloseThread \/ compose!CancelReply \/ compose!Whisper
           \/ compose!Announce
           \/ \E t \in Threads : compose!OpenThread(t)
           \/ \E p \in compose!Places : compose!Reply(p)
  BY <1>2, ThreadStep
<1>3. CASE compose!Share
  BY <1>3, ShareStep
<1>4. CASE compose!Answered
  BY <1>4, AnsweredStep
<1>5. CASE compose!Escape \/ compose!OpenPoll
  <2>1. "timeline" \in compose!Composers
    BY DEF compose!Composers
  <2> QED
    BY <1>5, <2>1, TypeStep, ModeStep
<1>6. CASE \E c \in compose!Composers :
             \/ compose!Type(c) \/ compose!Blur(c) \/ compose!SaveDraft(c)
  BY <1>6, TypeStep
<1>7. CASE \E c \in compose!Composers :
             \/ compose!Attach(c) \/ compose!Detach(c) \/ compose!OpenSign(c) \/ compose!CloseSign(c)
             \/ compose!StopEdit(c)
  BY <1>7, ModeStep
<1>8. CASE \E c \in compose!Composers :
             \/ compose!SubmitEdit(c) \/ compose!SubmitSign(c) \/ compose!SubmitAwaited(c)
             \/ compose!SubmitPoll(c) \/ compose!SubmitFile(c) \/ compose!SubmitText(c)
  BY <1>8, SubmitStep
<1>9. CASE \E c \in compose!Composers : compose!SubmitShared(c)
  BY <1>9, SharedStep
<1>10. CASE \E c \in compose!Composers : \E m \in compose!Editable, t \in {0, compose!Body} : compose!Edit(c, m, t)
  BY <1>10, EditStep
<1> QED
  BY <1>1, <1>2, <1>3, <1>4, <1>5, <1>6, <1>7, <1>8, <1>9, <1>10 DEF compose!ComposeNext

\* A file reaches a room once (MessageInput.vue, submitMessage; DropFiles.vue,
\* uploadFiles): one that was shared from the library is sent at most once,
\* however often the button is pressed and whether or not the request fails; one
\* that was dropped in the list is uploaded once at most and is not forgotten
\* before, however the list changes while an upload walks through it.
THEOREM FilesReachOnce == Spec => []FilesOnce
<1> DEFINE I == /\ part = "compose" => ComposeInv
                /\ part = "uploads" => UploadsInv
<1>1. Init => I
  BY Parts, ComposeStart, UploadsStart
<1>2. I /\ [Next]_vars => I'
  BY Parts, ComposeStep, UploadsStep
<1>3. I => FilesOnce
  <2>1. ASSUME ComposeInv PROVE compose!SharedOnce
    <3>1. DOMAIN shared = 1 .. Len(shared) /\ \A i \in 1 .. Len(shared) : shared[i] \in {0, 1}
      BY <2>1, LenProperties, ElementOfSeq DEF ComposeInv
    <3> QED
      BY <3>1 DEF compose!SharedOnce
  <2> QED
    BY <2>1, UploadsEnd DEF FilesOnce
<1> QED
  BY <1>1, <1>2, <1>3, PTL DEF Spec

-----------------------------------------------------------------------------
(* Roles: who gets a role was asked and has disclosed attributes.          *)

Said == [kind : {"ask", "disclosed"}, room : RoleRooms \cup {Elsewhere}, purpose : Purposes \cup {"none"},
         sender : {"admin", "user"}, redacted : BOOLEAN]
Invitation == [room : RoleRooms, purpose : Purposes \cup {"none"}, ask : Nat, disclosed : Nat,
               condition : {"pending", "disclosed"}]
ToAccept == {"steward-invitation", "expert-invitation"}
ByUser(m) == m.kind = "disclosed" /\ m.sender = "user"

\* An invitation is made of a request for its room and, when it can be
\* accepted, of what the user disclosed.
Right(i) ==
  /\ i \in Invitation
  /\ i.ask \in 1 .. Len(talk) /\ talk[i.ask].room = i.room
  /\ i.disclosed \in 0 .. Len(talk) /\ (i.disclosed # 0 <=> i.condition = "disclosed")
  /\ i.disclosed # 0 => ByUser(talk[i.disclosed])

TalkInv == talk \in Seq(Said) /\ page \in Int /\ page <= Len(talk)

OfferInv ==
  /\ \A i \in invitations : Right(i)
  /\ \A e \in entries : e.type \in ToAccept => Right(e.invitation) /\ e.invitation.room = e.room
  /\ confirm \in {"steward", "expert"} => \E i \in 1 .. Len(talk) : ByUser(talk[i])

GivenInv == \A p \in promoted : p.asked # {} /\ p.disclosed

RolesInv == TalkInv /\ OfferInv /\ GivenInv

\* The conversation grows, and of what was said only redacted changes.
Grows ==
  /\ talk' \in Seq(Said) /\ Len(talk) <= Len(talk')
  /\ \A i \in 1 .. Len(talk) : /\ talk'[i].kind = talk[i].kind /\ talk'[i].room = talk[i].room
                               /\ talk'[i].sender = talk[i].sender

LEMMA RightStays ==
  ASSUME TalkInv, Grows, NEW i, Right(i)
  PROVE  Right(i)'
<1>1. Len(talk) \in Nat /\ Len(talk') \in Nat
  BY LenProperties DEF TalkInv, Grows
<1> QED
  BY <1>1 DEF Right, Grows, ByUser, Invitation

LEMMA SpokeStays ==
  ASSUME TalkInv, Grows, \E i \in 1 .. Len(talk) : ByUser(talk[i])
  PROVE  \E i \in 1 .. Len(talk') : ByUser(talk'[i])
<1>1. Len(talk) \in Nat /\ Len(talk') \in Nat
  BY LenProperties DEF TalkInv, Grows
<1>2. PICK i \in 1 .. Len(talk) : ByUser(talk[i])
  OBVIOUS
<1>3. i \in 1 .. Len(talk') /\ ByUser(talk'[i])
  BY <1>1, <1>2 DEF Grows, ByUser
<1> QED
  BY <1>3

LEMMA SameTalk == TalkInv /\ talk' = talk => Grows
<1> SUFFICES ASSUME TalkInv, talk' = talk PROVE Grows
  OBVIOUS
<1>1. Len(talk) \in Nat
  BY LenProperties DEF TalkInv
<1> QED
  BY <1>1 DEF TalkInv, Grows

\* A set of places in a sequence has a last one.
LEMMA LastPlace ==
  ASSUME NEW n \in Nat, NEW S \in SUBSET (1 .. n), S # {}
  PROVE  roles!Newest(S) \in S
BY LastIn DEF roles!Newest

\* What processDmRoom makes of a page.
LEMMA PageRight ==
  ASSUME TalkInv, NEW n \in Int, n <= Len(talk), NEW i \in roles!InvitationsIn(roles!Chunk(n))
  PROVE  Right(i)
<1> DEFINE C == roles!Chunk(n)
           A(r) == {k \in C : talk[k].kind = "ask" /\ talk[k].room = r /\ ~talk[k].redacted}
           D == {k \in C : talk[k].kind = "disclosed" /\ talk[k].sender = "user" /\ ~talk[k].redacted}
           d == roles!DisclosedIn(C)
<1>1. Len(talk) \in Nat /\ C \in SUBSET (1 .. Len(talk)) /\ talk \in [1 .. Len(talk) -> Said]
  BY LenProperties DEF TalkInv, roles!Chunk
<1>2. d = roles!Newest(D)
  BY DEF roles!DisclosedIn
<1>3. PICK r \in RoleRooms :
        /\ roles!Newest(A(r)) # 0
        /\ i = [room |-> r, purpose |-> talk[roles!Newest(A(r))].purpose, ask |-> roles!Newest(A(r)), disclosed |-> d,
                condition |-> IF d # 0 THEN "disclosed" ELSE "pending"]
  BY DEF roles!InvitationsIn
<1> HIDE DEF C
<1>4. roles!Newest(A(r)) \in A(r)
  <2>1. A(r) # {}
    BY <1>3 DEF roles!Newest
  <2>2. A(r) \in SUBSET (1 .. Len(talk))
    BY <1>1
  <2> HIDE DEF A
  <2> QED
    BY <1>1, <2>1, <2>2, LastPlace
<1>5. d = 0 \/ d \in D
  <2>1. CASE D = {}
    BY <1>2, <2>1 DEF roles!Newest
  <2>2. CASE D # {}
    <3>1. D \in SUBSET (1 .. Len(talk))
      BY <1>1
    <3> HIDE DEF D
    <3> QED
      BY <1>1, <1>2, <2>2, <3>1, LastPlace
  <2> QED
    BY <2>1, <2>2
<1>6. PICK a : a = roles!Newest(A(r))
  OBVIOUS
<1>7. a \in 1 .. Len(talk) /\ talk[a].room = r /\ talk[a] \in Said
  BY <1>1, <1>4, <1>6
<1> HIDE DEF A
<1> HIDE DEF d
<1>8. d \in 0 .. Len(talk) /\ (d # 0 => ByUser(talk[d]))
  <2>1. CASE d = 0
    BY <1>1, <2>1
  <2>2. CASE d \in D
    <3>1. d \in C /\ talk[d].kind = "disclosed" /\ talk[d].sender = "user"
      BY <2>2
    <3>2. d \in 1 .. Len(talk)
      BY <1>1, <3>1
    <3> HIDE DEF D
    <3> QED
      BY <1>1, <3>1, <3>2 DEF ByUser
  <2> QED
    BY <1>5, <2>1, <2>2
<1> HIDE DEF D
<1>9. PICK c : c = IF d # 0 THEN "disclosed" ELSE "pending"
  OBVIOUS
<1>10. i = [room |-> r, purpose |-> talk[a].purpose, ask |-> a, disclosed |-> d, condition |-> c]
  BY <1>3, <1>6, <1>9
<1>11. i \in Invitation
  <2>1. talk[a].purpose \in Purposes \cup {"none"} /\ a \in Nat /\ d \in Nat /\ c \in {"pending", "disclosed"}
    BY <1>1, <1>7, <1>8, <1>9 DEF Said
  <2> QED
    BY <1>10, <2>1 DEF Invitation
<1>12. c = "disclosed" <=> d # 0
  BY <1>9
<1> QED
  BY <1>7, <1>8, <1>10, <1>11, <1>12 DEF Right

LEMMA RolesStart == roles!RolesInit => RolesInv
<1> SUFFICES ASSUME roles!RolesInit PROVE RolesInv
  OBVIOUS
<1>1. talk = <<>> /\ talk \in Seq(Said) /\ Len(talk) = 0 /\ page = -1 /\ -1 <= 0
  BY DEF roles!RolesInit, roles!Unset
<1>2. TalkInv
  BY <1>1 DEF TalkInv
<1>3. OfferInv /\ GivenInv
  BY DEF roles!RolesInit, OfferInv, GivenInv
<1> QED
  BY <1>2, <1>3 DEF RolesInv

\* Steps that offer nothing new and give no role.
LEMMA SameOffer ==
  ASSUME RolesInv, Grows, page' \in Int, page' <= Len(talk'),
         invitations' \subseteq invitations, UNCHANGED <<entries, promoted>>,
         confirm' \in {"steward", "expert"} => confirm' = confirm
  PROVE  RolesInv'
<1>1. TalkInv'
  BY DEF Grows, TalkInv
<1>2. \A i : Right(i) => Right(i)'
  BY RightStays DEF RolesInv
<1>3. OfferInv'
  <2>1. confirm' \in {"steward", "expert"} => \E i \in 1 .. Len(talk') : ByUser(talk'[i])
    BY SpokeStays DEF RolesInv, OfferInv
  <2>2. \A i \in invitations' : Right(i)'
    BY <1>2 DEF RolesInv, OfferInv
  <2>3. \A e \in entries' : e.type \in ToAccept => Right(e.invitation)' /\ e.invitation.room = e.room
    BY <1>2 DEF RolesInv, OfferInv
  <2> QED
    BY <2>1, <2>2, <2>3 DEF OfferInv
<1>4. GivenInv'
  BY DEF RolesInv, GivenInv
<1> QED
  BY <1>1, <1>3, <1>4 DEF RolesInv

\* The conversation: a request, or what someone disclosed.
LEMMA TalkStep ==
  ASSUME RolesInv,
         \/ roles!AskDisclosure
         \/ \E who \in {"user", "admin"} : roles!Disclose(who)
  PROVE  RolesInv'
<1>1. talk' = talk \/ \E m \in Said : talk' = Append(talk, m)
  BY DEF roles!AskDisclosure, roles!Disclose, roles!Say, roles!Asks, roles!Disclosed, Said
<1>2. talk \in Seq(Said) /\ Len(talk) \in Nat
  BY LenProperties DEF RolesInv, TalkInv
<1>3. Grows
  <2>1. CASE talk' = talk
    BY <2>1, SameTalk DEF RolesInv
  <2>2. CASE \E m \in Said : talk' = Append(talk, m)
    <3>1. PICK m \in Said : talk' = Append(talk, m)
      BY <2>2
    <3>2. /\ talk' \in Seq(Said) /\ Len(talk') = Len(talk) + 1
          /\ \A i \in 1 .. Len(talk) : talk'[i] = talk[i]
      BY <1>2, <3>1, AppendProperties
    <3> QED
      BY <1>2, <3>2 DEF Grows
  <2> QED
    BY <1>1, <2>1, <2>2
<1>4. /\ page' \in {page, -1}
      /\ UNCHANGED <<invitations, entries, promoted, confirm>>
  BY DEF roles!AskDisclosure, roles!Disclose, roles!Unchanged, roles!rolesPage, roles!Unset
<1>5. page' \in Int /\ page' <= Len(talk')
  <2>1. Len(talk') \in Nat /\ Len(talk) <= Len(talk') /\ page \in Int /\ page <= Len(talk)
    BY <1>3, LenProperties DEF Grows, RolesInv, TalkInv
  <2> QED
    BY <1>2, <1>4, <2>1
<1> QED
  BY <1>3, <1>4, <1>5, SameOffer

\* Requests of pages, and what the administrator looks at.
LEMMA LookStep ==
  ASSUME RolesInv,
         \/ roles!FetchRoles \/ roles!LoadMore \/ roles!Cancel \/ roles!ConfirmFails
         \/ \E r \in RoleRooms : roles!SyncRoomList(r)
         \/ \E e \in entries : roles!SelectRole(e)
  PROVE  RolesInv'
<1>1. /\ UNCHANGED <<talk, invitations, entries, promoted>> /\ page' \in {page, -1}
      /\ confirm' \in {confirm, "none"}
  BY DEF roles!FetchRoles, roles!LoadMore, roles!Cancel, roles!ConfirmFails, roles!SyncRoomList,
         roles!SelectRole, roles!rolesPage, roles!Unset
<1>2. Grows
  BY <1>1, SameTalk DEF RolesInv
<1>3. page' \in Int /\ page' <= Len(talk')
  <2>1. Len(talk) \in Nat
    BY LenProperties DEF RolesInv, TalkInv
  <2> QED
    BY <1>1, <2>1 DEF RolesInv, TalkInv
<1> QED
  BY <1>1, <1>2, <1>3, SameOffer

LEMMA EntriesRight ==
  ASSUME NEW I, \A i \in I : Right(i), NEW e \in roles!EntriesOf(I), e.type \in ToAccept
  PROVE  Right(e.invitation) /\ e.invitation.room = e.room
<1>1. CASE \E i \in I : e = [type |-> IF i.purpose = "expert" THEN "expert-invitation" ELSE "steward-invitation",
                             room |-> i.room, invitation |-> i]
  BY <1>1
<1>2. CASE \E r \in RoleRooms : e = [type |-> IF roomList[r] = "expert" THEN "active-expert" ELSE "active-steward",
                                     room |-> r, invitation |-> roles!NoEntry]
  BY <1>2 DEF ToAccept
<1> QED
  BY <1>1, <1>2 DEF roles!EntriesOf

\* A page arrives, or does not.
LEMMA FetchedStep ==
  ASSUME RolesInv, PageLength \in Nat, NEW f \in fetches, roles!Fetched(f)
  PROVE  RolesInv'
<1>1. UNCHANGED <<talk, promoted, confirm, roomList>>
  BY DEF roles!Fetched
<1>2. Len(talk) \in Nat /\ page \in Int /\ page <= Len(talk)
  BY LenProperties DEF RolesInv, TalkInv
<1>3. \A i : Right(i)' <=> Right(i)
  BY <1>1 DEF Right, ByUser, Invitation
<1>4. /\ page' \in Int /\ page' <= Len(talk)
      /\ \A i \in invitations' : Right(i)
      /\ entries' = roles!EntriesOf(invitations')
  <2>1. CASE roles!PageArrives(f)
    <3> DEFINE n == IF f.more /\ page # roles!Unset THEN page ELSE Len(talk)
               new == roles!InvitationsIn(roles!Chunk(n))
               all == IF f.more THEN invitations \cup {i \in new : \A j \in invitations : j.room # i.room} ELSE new
    <3>1. n \in Int /\ n <= Len(talk)
      BY <1>2
    <3>2. page' = (IF n > PageLength THEN n - PageLength ELSE 0) /\ invitations' = all
          /\ entries' = roles!EntriesOf(all)
      BY <2>1 DEF roles!PageArrives
    <3> HIDE DEF n
    <3>3. page' \in Int /\ page' <= Len(talk)
      BY <1>2, <3>1, <3>2
    <3>4. \A i \in new : Right(i)
      BY <3>1, PageRight DEF RolesInv
    <3> HIDE DEF new
    <3>5. \A i \in all : Right(i)
      BY <3>4 DEF RolesInv, OfferInv
    <3> HIDE DEF all
    <3> QED
      BY <3>2, <3>3, <3>5
  <2>2. CASE roles!PageFails(f)
    <3>1. invitations' \subseteq invitations /\ entries' = roles!EntriesOf(invitations') /\ page' = page
      BY <2>2 DEF roles!PageFails
    <3> QED
      BY <1>2, <3>1 DEF RolesInv, OfferInv
  <2> QED
    BY <2>1, <2>2 DEF roles!Fetched
<1>5. \A e \in entries' : e.type \in ToAccept => Right(e.invitation) /\ e.invitation.room = e.room
  BY <1>4, EntriesRight
<1>6. TalkInv' /\ GivenInv'
  BY <1>1, <1>4 DEF RolesInv, TalkInv, GivenInv
<1>7. OfferInv'
  BY <1>1, <1>3, <1>4, <1>5 DEF RolesInv, OfferInv
<1> QED
  BY <1>6, <1>7 DEF RolesInv

\* The dialog opens: a role is offered when the user has disclosed.
LEMMA AskStep ==
  ASSUME RolesInv, roles!AskToConfirm
  PROVE  RolesInv'
<1>1. UNCHANGED <<talk, page, invitations, entries, promoted>>
  BY DEF roles!AskToConfirm, roles!rolesPage
<1>2. PICK e \in roles!SelectedRole : confirm' \in roles!Buttons(e)
  BY DEF roles!AskToConfirm
<1>3. e \in entries
  BY <1>2 DEF roles!SelectedRole
<1>4. confirm' \in {"steward", "expert"} => e.type \in ToAccept /\ e.invitation.condition = "disclosed"
  BY <1>2 DEF roles!Buttons, ToAccept
<1>5. confirm' \in {"steward", "expert"} => \E i \in 1 .. Len(talk) : ByUser(talk[i])
  <2> SUFFICES ASSUME confirm' \in {"steward", "expert"}
               PROVE  \E i \in 1 .. Len(talk) : ByUser(talk[i])
    OBVIOUS
  <2>1. Right(e.invitation) /\ e.invitation.disclosed # 0
    BY <1>3, <1>4 DEF RolesInv, OfferInv, Right
  <2>2. e.invitation.disclosed \in 1 .. Len(talk) /\ ByUser(talk[e.invitation.disclosed])
    <3>1. Len(talk) \in Nat
      BY LenProperties DEF RolesInv, TalkInv
    <3> QED
      BY <2>1, <3>1 DEF Right
  <2> QED
    BY <2>2
<1>6. TalkInv' /\ GivenInv'
  BY <1>1 DEF RolesInv, TalkInv, GivenInv
<1>7. OfferInv'
  <2>1. \A i : Right(i)' <=> Right(i)
    BY <1>1 DEF Right, ByUser, Invitation
  <2> QED
    BY <1>1, <1>5, <2>1 DEF RolesInv, OfferInv
<1> QED
  BY <1>6, <1>7 DEF RolesInv

\* The dialog is confirmed, whatever is selected by then.
LEMMA ConfirmStep ==
  ASSUME RolesInv, roles!Confirm
  PROVE  RolesInv'
<1>1. UNCHANGED <<talk, page, invitations, entries>> /\ confirm' = "none"
  BY DEF roles!Confirm, roles!rolesPage
<1>2. PICK e \in roles!SelectedRole : IF confirm = "reject" THEN roles!Reject(e) ELSE roles!SetPowerLevel(e, confirm)
  BY DEF roles!Confirm
<1>3. e \in entries
  BY <1>2 DEF roles!SelectedRole
<1>4. GivenInv'
  <2>1. CASE promoted' = promoted
    BY <2>1 DEF RolesInv, GivenInv
  <2>2. CASE promoted' # promoted
    <3>1. confirm \in {"steward", "expert"} /\ e.type \in ToAccept
      BY <1>2, <2>2 DEF roles!Reject, roles!SetPowerLevel, ToAccept
    <3> DEFINE asked == {talk[i].purpose : i \in {j \in DOMAIN talk : talk[j].room = e.room}}
               disclosed == \E i \in DOMAIN talk : talk[i].kind = "disclosed" /\ talk[i].sender = "user"
    <3>2. promoted' = promoted \cup {[room |-> e.room, role |-> confirm, asked |-> asked, disclosed |-> disclosed]}
      BY <1>2, <2>2, <3>1 DEF roles!Reject, roles!SetPowerLevel
    <3>3. DOMAIN talk = 1 .. Len(talk)
      BY LenProperties DEF RolesInv, TalkInv
    <3>4. asked # {}
      <4>1. e.invitation.ask \in DOMAIN talk /\ talk[e.invitation.ask].room = e.room
        BY <1>3, <3>1, <3>3 DEF RolesInv, OfferInv, Right
      <4>2. talk[e.invitation.ask].purpose \in asked
        BY <4>1
      <4> QED
        BY <4>2
    <3>5. disclosed
      BY <3>1, <3>3 DEF RolesInv, OfferInv, ByUser
    <3> HIDE DEF asked, disclosed
    <3> QED
      BY <3>2, <3>4, <3>5 DEF RolesInv, GivenInv
  <2> QED
    BY <2>1, <2>2
<1>5. TalkInv'
  BY <1>1 DEF RolesInv, TalkInv
<1>6. OfferInv'
  <2>1. \A i : Right(i)' <=> Right(i)
    BY <1>1 DEF Right, ByUser, Invitation
  <2> QED
    BY <1>1, <2>1 DEF RolesInv, OfferInv
<1> QED
  BY <1>4, <1>5, <1>6 DEF RolesInv

\* removeRoleInvite, with the redactions that went well.
LEMMA AfterStep ==
  ASSUME RolesInv, NEW w \in work, roles!AfterAction(w)
  PROVE  RolesInv'
<1>1. /\ invitations' \subseteq invitations /\ page' = -1
      /\ UNCHANGED <<entries, promoted, confirm>>
  BY DEF roles!AfterAction, roles!Unset
<1>2. talk \in Seq(Said) /\ Len(talk) \in Nat /\ DOMAIN talk = 1 .. Len(talk) /\ talk \in [1 .. Len(talk) -> Said]
  BY LenProperties DEF RolesInv, TalkInv
<1>3. Grows
  <2>1. CASE talk' = talk
    BY <2>1, SameTalk DEF RolesInv
  <2>2. CASE talk' # talk
    <3>1. PICK gone : talk' = [i \in DOMAIN talk |-> [talk[i] EXCEPT !.redacted = @ \/ i \in gone]]
      BY <2>2 DEF roles!AfterAction
    <3>2. ASSUME NEW i \in 1 .. Len(talk)
          PROVE  /\ talk'[i] \in Said /\ talk'[i].kind = talk[i].kind /\ talk'[i].room = talk[i].room
                 /\ talk'[i].sender = talk[i].sender
      <4> DEFINE now == talk[i].redacted \/ i \in gone
      <4>1. talk'[i] = [talk[i] EXCEPT !.redacted = now] /\ talk[i] \in Said
        BY <1>2, <3>1
      <4>2. now \in BOOLEAN
        OBVIOUS
      <4> HIDE DEF now
      <4> QED
        BY <4>1, <4>2 DEF Said
    <3>3. talk' \in [1 .. Len(talk) -> Said]
      <4>1. talk' = [i \in 1 .. Len(talk) |-> talk'[i]]
        BY <1>2, <3>1
      <4> QED
        BY <3>2, <4>1
    <3>4. talk' \in Seq(Said) /\ Len(talk') = Len(talk)
      BY <1>2, <3>3, SeqDef, LenProperties
    <3> QED
      BY <1>2, <3>2, <3>4 DEF Grows
  <2> QED
    BY <2>1, <2>2
<1>4. page' \in Int /\ page' <= Len(talk')
  <2>1. Len(talk') \in Nat
    BY <1>3, LenProperties DEF Grows
  <2> QED
    BY <1>1, <2>1
<1> QED
  BY <1>1, <1>3, <1>4, SameOffer

LEMMA RolesStep ==
  ASSUME RolesInv, PageLength \in Nat, roles!RolesNext \/ UNCHANGED rolesVars
  PROVE  RolesInv'
<1>1. CASE UNCHANGED rolesVars
  <2>1. Grows
    BY <1>1, SameTalk DEF rolesVars, RolesInv
  <2>2. page' \in Int /\ page' <= Len(talk')
    BY <1>1 DEF rolesVars, RolesInv, TalkInv
  <2> QED
    BY <1>1, <2>1, <2>2, SameOffer DEF rolesVars
<1>2. CASE \/ roles!AskDisclosure
           \/ \E who \in {"user", "admin"} : roles!Disclose(who)
  BY <1>2, TalkStep
<1>3. CASE \/ roles!FetchRoles \/ roles!LoadMore \/ roles!Cancel \/ roles!ConfirmFails
           \/ \E r \in RoleRooms : roles!SyncRoomList(r)
           \/ \E e \in entries : roles!SelectRole(e)
  BY <1>3, LookStep
<1>4. CASE \E f \in fetches : roles!Fetched(f)
  BY <1>4, FetchedStep
<1>5. CASE roles!AskToConfirm \/ roles!Confirm
  BY <1>5, AskStep, ConfirmStep
<1>6. CASE \E w \in work : roles!AfterAction(w)
  BY <1>6, AfterStep
<1> QED
  BY <1>1, <1>2, <1>3, <1>4, <1>5, <1>6 DEF roles!RolesNext

\* Nobody gets a role who was not asked for that room and has not disclosed
\* attributes (manage-roles.composable.ts, ManageRoleSidebar.vue): not by what
\* the administrator disclosed in the same conversation, by a list that is old,
\* by pages that arrive in another order or by requests that fail.
THEOREM RolesDisclosed == Spec => []PromotedAfterDisclosure
<1> DEFINE I == part = "roles" => RolesInv
<1>1. Init => I
  BY Parts, RolesStart
<1>2. I /\ [Next]_vars => I'
  BY Parts, RolesStep, TalkAssumption
<1>3. I => PromotedAfterDisclosure
  BY DEF PromotedAfterDisclosure, roles!PromotedAfterDisclosure, RolesInv, GivenInv
<1> QED
  BY <1>1, <1>2, <1>3, PTL DEF Spec

-----------------------------------------------------------------------------
(* Warnings.  Whatever a session, the hub or a request holds as accepted     *)
(* was accepted.                                                             *)

Heard(t) == t = 0 \/ \E r \in SRooms : sanctions!Warning(r, SanctionsMe, t) \in accepted

Dialogs == {"kick", "timeout", "yellow", "red"}
WarningsInv ==
  /\ sanctionsView \in [sanctions!Clients -> SRooms \cup {Nowhere}]
  /\ DOMAIN data = SRooms /\ \A r \in SRooms : Heard(data[r])
  /\ DOMAIN knownData = Sessions /\ DOMAIN agreed = Sessions /\ DOMAIN accepting = Sessions
  /\ \A s \in Sessions :
       /\ DOMAIN knownData[s] = SRooms /\ \A r \in SRooms : Heard(knownData[s][r])
       /\ Heard(agreed[s])
       /\ \A a \in accepting[s] :
            DOMAIN a = {"warning", "stored"} /\ Heard(a.warning.at)
  /\ DOMAIN dialog = Stewards
  /\ \A p \in Stewards : dialog[p] = sanctions!NoDialog \/ dialog[p].kind \in Dialogs

LEMMA WarningsStart == sanctions!SanctionInit => WarningsInv
<1> SUFFICES ASSUME sanctions!SanctionInit PROVE WarningsInv
  OBVIOUS
<1>1. sanctionsView \in [sanctions!Clients -> SRooms \cup {Nowhere}]
  BY DEF sanctions!SanctionInit
<1>2. data = [r \in SRooms |-> 0] /\ knownData = [s \in Sessions |-> [r \in SRooms |-> 0]]
  BY DEF sanctions!SanctionInit
<1>3. /\ agreed = [s \in Sessions |-> 0] /\ accepting = [s \in Sessions |-> {}]
      /\ dialog = [p \in Stewards |-> sanctions!NoDialog]
  BY DEF sanctions!SanctionInit
<1> QED
  BY <1>1, <1>2, <1>3 DEF WarningsInv, Heard

\* Steps that leave alone what was accepted, and move a client at most.
LEMMA StillHeard ==
  ASSUME WarningsInv, UNCHANGED <<data, knownData, agreed, accepting, accepted>>,
         \/ dialog' = dialog
         \/ \E p \in Stewards : \E d :
              /\ dialog' = [dialog EXCEPT ![p] = d]
              /\ d = sanctions!NoDialog \/ d.kind \in Dialogs,
         sanctionsView' \in [sanctions!Clients -> SRooms \cup {Nowhere}]
  PROVE  WarningsInv'
BY DEF WarningsInv, Heard

LEMMA StewardStep ==
  ASSUME WarningsInv, NEW p \in Stewards,
         \/ \E m \in Members : sanctions!OpenProfile(p, m)
         \/ \E kind_ \in {"kick", "timeout", "yellow", "red"} : sanctions!OpenDialog(p, kind_)
         \/ sanctions!CloseDialog(p) \/ sanctions!Submit(p) \/ sanctions!Revoke(p)
         \/ sanctions!StewardMoves(p)
         \/ \E r \in SRooms : sanctions!SyncSteward(p, r)
  PROVE  WarningsInv'
<1> USE DEF sanctions!Rest, sanctions!hubVars, sanctions!sessionVars, sanctions!history
<1>1. UNCHANGED <<data, knownData, agreed, accepting, accepted>>
  <2>1. CASE sanctions!Submit(p)
    <3>1. sanctions!Rest(p) /\ dialog[p] # sanctions!NoDialog
      BY <2>1 DEF sanctions!Submit
    <3>2. dialog[p].kind \in Dialogs
      BY <3>1 DEF WarningsInv
    <3>3. accepted' = accepted
      BY <2>1, <3>2 DEF sanctions!Submit, sanctions!IssueYellowCard, sanctions!IssueTimeout, Dialogs
    <3> QED
      BY <3>1, <3>3
  <2> QED
    BY <2>1 DEF sanctions!OpenProfile, sanctions!OpenDialog, sanctions!CloseDialog, sanctions!Revoke,
         sanctions!RevokeYellowCard, sanctions!StewardMoves, sanctions!SyncSteward
<1>2. sanctionsView' \in [sanctions!Clients -> SRooms \cup {Nowhere}]
  <2>1. sanctionsView' = sanctionsView
        \/ \E r \in SRooms : sanctionsView' = [sanctionsView EXCEPT ![p] = r]
    BY DEF sanctions!OpenProfile, sanctions!OpenDialog, sanctions!CloseDialog, sanctions!Submit,
           sanctions!Revoke, sanctions!StewardMoves, sanctions!SyncSteward
  <2> QED
    BY <2>1 DEF WarningsInv
<1>3. \/ dialog' = dialog
      \/ \E d : /\ dialog' = [dialog EXCEPT ![p] = d]
                /\ d = sanctions!NoDialog \/ d.kind \in Dialogs
  <2>1. CASE \E kind_ \in {"kick", "timeout", "yellow", "red"} : sanctions!OpenDialog(p, kind_)
    BY ZenonT(60), <2>1 DEF sanctions!OpenDialog, Dialogs
  <2> QED
    BY <2>1 DEF sanctions!OpenProfile, sanctions!CloseDialog, sanctions!Submit,
           sanctions!Revoke, sanctions!StewardMoves, sanctions!SyncSteward
<1> QED
  BY <1>1, <1>2, <1>3, StillHeard

LEMMA SessionLooks ==
  ASSUME WarningsInv, NEW s \in Sessions,
         (\E r \in SRooms : sanctions!SyncSession(s, r)) \/ sanctions!BarMounted(s)
         \/ sanctions!TimeoutExpired(s)
  PROVE  WarningsInv'
<1> USE DEF sanctions!hubVars, sanctions!history, sanctions!stewardVars
<1>1. UNCHANGED <<data, knownData, agreed, accepting, accepted, dialog>>
  BY DEF sanctions!SyncSession, sanctions!BarMounted, sanctions!TimeoutExpired
<1>2. sanctionsView' = sanctionsView \/ sanctionsView' = [sanctionsView EXCEPT ![s] = Nowhere]
  BY DEF sanctions!SyncSession, sanctions!BarMounted, sanctions!TimeoutExpired
<1>3. sanctionsView' \in [sanctions!Clients -> SRooms \cup {Nowhere}]
  BY <1>2 DEF WarningsInv
<1> QED
  BY <1>1, <1>3, StillHeard

\* What a session takes over from the hub, or from what it has heard of it.
LEMMA SessionReads ==
  ASSUME WarningsInv, NEW s \in Sessions,
         (\E r \in SRooms : sanctions!SyncAccountData(s, r)) \/ sanctions!SessionMoves(s)
  PROVE  WarningsInv'
<1> USE DEF sanctions!hubVars, sanctions!history, sanctions!stewardVars
<1>1. ASSUME NEW r \in SRooms, sanctions!SyncAccountData(s, r)
      PROVE  WarningsInv'
  BY <1>1 DEF sanctions!SyncAccountData, WarningsInv, Heard
<1>2. ASSUME sanctions!SessionMoves(s)
      PROVE  WarningsInv'
  <2>1. PICK r \in SRooms :
          /\ sanctionsView' = [sanctionsView EXCEPT ![s] = r]
          /\ agreed' = [agreed EXCEPT ![s] = knownData[s][r]]
          /\ UNCHANGED <<data, knownData, accepting, accepted, dialog>>
    BY <1>2 DEF sanctions!SessionMoves
  <2>2. sanctionsView' \in [sanctions!Clients -> SRooms \cup {Nowhere}]
    BY <2>1 DEF WarningsInv
  <2> QED
    BY <2>1, <2>2 DEF WarningsInv, Heard
<1> QED
  BY <1>1, <1>2

LEMMA AcceptStep ==
  ASSUME WarningsInv, NEW s \in Sessions, sanctions!AcceptYellowCard(s)
  PROVE  WarningsInv'
<1> DEFINE info == sanctions!Warning(sanctionsView[s], SanctionsMe, sanctions!InView(s).warnings[SanctionsMe])
<1>1. /\ sanctionsView[s] # Nowhere
      /\ accepting' = [accepting EXCEPT ![s] = @ \cup {[warning |-> info, stored |-> FALSE]}]
      /\ accepted' = accepted \cup {info}
      /\ UNCHANGED <<data, knownData, sanctionsView, agreed, dialog>>
  BY DEF sanctions!AcceptYellowCard, sanctions!hubVars, sanctions!stewardVars
<1>2. sanctionsView[s] \in SRooms
  BY <1>1 DEF WarningsInv, sanctions!Clients
<1>3. info = sanctions!Warning(sanctionsView[s], SanctionsMe, info.at)
  BY DEF sanctions!Warning
<1> HIDE DEF info
<1>4. \E r \in SRooms : sanctions!Warning(r, SanctionsMe, info.at) \in accepted'
  BY <1>1, <1>2, <1>3
<1>5. \A t : Heard(t) => Heard(t)'
  BY <1>1 DEF Heard
<1>6. DOMAIN accepting' = Sessions /\
      \A q \in Sessions : \A c \in accepting'[q] :
        c = [warning |-> info, stored |-> FALSE] \/ c \in accepting[q]
  BY <1>1 DEF WarningsInv
<1>7. \A q \in Sessions : \A c \in accepting'[q] :
        DOMAIN c = {"warning", "stored"} /\ Heard(c.warning.at)'
  <2> SUFFICES ASSUME NEW q \in Sessions, NEW c \in accepting'[q]
               PROVE  DOMAIN c = {"warning", "stored"} /\ Heard(c.warning.at)'
    OBVIOUS
  <2>1. CASE c = [warning |-> info, stored |-> FALSE]
    BY <1>4, <2>1 DEF Heard
  <2>2. CASE c \in accepting[q]
    BY <1>5, <2>2 DEF WarningsInv
  <2> QED
    BY <1>6, <2>1, <2>2
<1> QED
  BY <1>1, <1>5, <1>6, <1>7 DEF WarningsInv, Heard

LEMMA StoreStep ==
  ASSUME WarningsInv, NEW s \in Sessions, NEW a \in accepting[s],
         sanctions!Store(s, a) \/ sanctions!Accepted(s, a)
  PROVE  WarningsInv'
<1> USE DEF sanctions!hubVars, sanctions!history, sanctions!stewardVars
<1> DEFINE b == [a EXCEPT !.stored = TRUE]
<1>1. DOMAIN a = {"warning", "stored"} /\ Heard(a.warning.at)
  BY DEF WarningsInv
<1>2. DOMAIN b = {"warning", "stored"} /\ b.warning = a.warning
  BY <1>1
<1>3. UNCHANGED <<knownData, sanctionsView, accepted, dialog>>
  BY DEF sanctions!Store, sanctions!Accepted
<1>4. data' = data \/ data' = [data EXCEPT ![a.warning.room] = a.warning.at]
  BY DEF sanctions!Store, sanctions!Accepted
<1>5. agreed' = agreed \/ agreed' = [agreed EXCEPT ![s] = a.warning.at]
  BY DEF sanctions!Store, sanctions!Accepted
<1>6. accepting' = [accepting EXCEPT ![s] = (@ \ {a}) \cup {b}]
      \/ accepting' = [accepting EXCEPT ![s] = @ \ {a}]
  BY DEF sanctions!Store, sanctions!Accepted
<1> HIDE DEF b
<1>7. \A t : Heard(t)' <=> Heard(t)
  BY <1>3 DEF Heard
<1>8. DOMAIN data' = SRooms /\ \A r \in SRooms : Heard(data'[r])
  BY <1>1, <1>4 DEF WarningsInv
<1>9. DOMAIN agreed' = Sessions /\ \A q \in Sessions : Heard(agreed'[q])
  BY <1>1, <1>5 DEF WarningsInv
<1>10. DOMAIN accepting' = Sessions /\
       \A q \in Sessions : \A c \in accepting'[q] : c = b \/ c \in accepting[q]
  BY <1>6 DEF WarningsInv
<1>11. \A q \in Sessions : \A c \in accepting'[q] :
         DOMAIN c = {"warning", "stored"} /\ Heard(c.warning.at)
  BY <1>1, <1>2, <1>10 DEF WarningsInv
<1> QED
  BY <1>3, <1>8, <1>9, <1>10, <1>11 DEF WarningsInv, Heard

LEMMA WarningsStep ==
  ASSUME WarningsInv, sanctions!SanctionNext \/ UNCHANGED sanctionsVars
  PROVE  WarningsInv'
<1>1. CASE UNCHANGED sanctionsVars
  BY <1>1, StillHeard DEF sanctionsVars, WarningsInv
<1>2. CASE \E p \in Stewards :
             \/ \E m \in Members : sanctions!OpenProfile(p, m)
             \/ \E kind_ \in {"kick", "timeout", "yellow", "red"} : sanctions!OpenDialog(p, kind_)
             \/ sanctions!CloseDialog(p) \/ sanctions!Submit(p) \/ sanctions!Revoke(p)
             \/ sanctions!StewardMoves(p)
             \/ \E r \in SRooms : sanctions!SyncSteward(p, r)
  BY <1>2, StewardStep
<1>3. CASE \/ \E q \in posts : sanctions!Receive(q)
           \/ \E r \in SRooms, m \in Members : sanctions!Rejoin(r, m)
           \/ sanctions!Tick
  <2>1. UNCHANGED <<data, knownData, agreed, accepting, accepted, sanctionsView, dialog>>
    BY <1>3 DEF sanctions!Receive, sanctions!Rejoin, sanctions!Tick, sanctions!hubVars,
                sanctions!sessionVars, sanctions!history, sanctions!stewardVars
  <2> QED
    BY <2>1, StillHeard DEF WarningsInv
<1>4. CASE \E s \in Sessions :
             \/ \E r \in SRooms : sanctions!SyncSession(s, r) \/ sanctions!SyncAccountData(s, r)
             \/ sanctions!SessionMoves(s) \/ sanctions!AcceptYellowCard(s)
             \/ sanctions!BarMounted(s) \/ sanctions!TimeoutExpired(s)
             \/ \E a \in accepting[s] : sanctions!Store(s, a) \/ sanctions!Accepted(s, a)
  BY <1>4, SessionLooks, SessionReads, AcceptStep, StoreStep
<1> QED
  BY <1>1, <1>2, <1>3, <1>4 DEF sanctions!SanctionNext

LEMMA WarningsShow == WarningsInv => sanctions!NewWarningShows
BY DEF WarningsInv, Heard, sanctions!NewWarningShows, sanctions!IsWarned

-----------------------------------------------------------------------------
(* The preview of a report.  Requests have numbers; the one with the number  *)
(* of the preview is for the message it is of, and there is one while, and   *)
(* only while, it loads.                                                     *)

Present(f) ==
  /\ preview.loading /\ f.of = preview.of
  /\ f.media => preview.shown = preview.of /\ preview.media = reports!Nothing

PreviewInv ==
  /\ DOMAIN preview = {"of", "n", "shown", "media", "loading"} /\ preview.n \in Nat
  /\ \A f \in reportsFetches :
       /\ DOMAIN f = {"n", "of", "media"} /\ f.n \in Nat /\ f.n <= preview.n
       /\ f.n = preview.n => Present(f)
  /\ \A f, g \in reportsFetches : f.n = g.n => f = g
  /\ preview.loading => \E f \in reportsFetches : f.n = preview.n
  /\ ~preview.loading => /\ preview.shown \in {preview.of, reports!Nothing}
                         /\ preview.media \in {preview.shown, reports!Nothing}

LEMMA PreviewStart == reports!ReportsInit => PreviewInv
BY DEF reports!ReportsInit, PreviewInv, reports!Unshown

LEMMA SamePreview == PreviewInv /\ UNCHANGED <<preview, reportsFetches>> => PreviewInv'
BY DEF PreviewInv, Present

LEMMA UnshownInv == preview' = reports!Unshown /\ reportsFetches' = {} => PreviewInv'
BY DEF PreviewInv, reports!Unshown

LEMMA ShowStep ==
  ASSUME PreviewInv, NEW id, reports!Show(id)
  PROVE  PreviewInv'
<1>1. CASE id = 0
  BY <1>1, UnshownInv DEF reports!Show
<1>2. CASE id # 0 /\ preview.of = filed[id]
  BY <1>2, SamePreview DEF reports!Show, reports!previewVars
<1>3. CASE id # 0 /\ preview.of # filed[id]
  <2> DEFINE new == [n |-> preview.n + 1, of |-> filed[id], media |-> FALSE]
  <2>1. /\ preview' = [preview EXCEPT !.of = filed[id], !.n = preview.n + 1, !.loading = TRUE]
        /\ reportsFetches' = reportsFetches \cup {new}
    BY <1>3 DEF reports!Show
  <2>2. /\ DOMAIN preview' = DOMAIN preview /\ preview'.n = preview.n + 1
        /\ preview'.of = filed[id] /\ preview'.loading = TRUE
    BY <2>1 DEF PreviewInv
  <2>3. /\ DOMAIN new = {"n", "of", "media"} /\ new.n = preview.n + 1
        /\ new.of = filed[id] /\ new.media = FALSE
    OBVIOUS
  <2> HIDE DEF new
  <2>4. \A f \in reportsFetches : f.n \in Nat /\ f.n < preview'.n
    BY <2>2 DEF PreviewInv
  <2>5. \A f, g \in reportsFetches' : f.n = g.n => f = g
    BY <2>1, <2>2, <2>3, <2>4 DEF PreviewInv
  <2>6. \A f \in reportsFetches' :
          /\ DOMAIN f = {"n", "of", "media"} /\ f.n \in Nat /\ f.n <= preview'.n
          /\ f.n = preview'.n => f = new
    BY <2>1, <2>2, <2>3, <2>4 DEF PreviewInv
  <2> QED
    BY <2>1, <2>2, <2>3, <2>5, <2>6 DEF PreviewInv, Present
<1> QED
  BY <1>1, <1>2, <1>3

LEMMA FetchesLeft ==
  ASSUME PreviewInv, NEW f \in reportsFetches, f.n # preview.n, UNCHANGED preview,
         reportsFetches' = reportsFetches \ {f}
  PROVE  PreviewInv'
BY DEF PreviewInv, Present

LEMMA LoadedNow ==
  ASSUME PreviewInv, NEW f \in reportsFetches, f.n = preview.n,
         reportsFetches' = reportsFetches \ {f},
         DOMAIN preview' = DOMAIN preview, preview'.n = preview.n, ~preview'.loading,
         preview'.shown \in {preview'.of, reports!Nothing},
         preview'.media \in {preview'.shown, reports!Nothing}
  PROVE  PreviewInv'
<1>1. \A g \in reportsFetches' : g.n # preview'.n
  BY DEF PreviewInv
<1> QED
  BY <1>1 DEF PreviewInv

LEMMA EventStep ==
  ASSUME PreviewInv, NEW f \in reportsFetches, reports!EventArrives(f)
  PROVE  PreviewInv'
<1>1. CASE f.n # preview.n
  BY <1>1, FetchesLeft DEF reports!EventArrives, reports!CurrentFetch
<1>2. CASE f.n = preview.n /\ f.of \notin Pictures
  <2>1. /\ reportsFetches' = reportsFetches \ {f}
        /\ preview' = [preview EXCEPT !.shown = f.of, !.media = reports!Nothing, !.loading = f.of \in Pictures]
    BY <1>2 DEF reports!EventArrives, reports!CurrentFetch
  <2>2. f.of = preview.of
    BY <1>2 DEF PreviewInv, Present
  <2>3. /\ DOMAIN preview' = DOMAIN preview /\ preview'.n = preview.n /\ ~preview'.loading
        /\ preview'.shown = f.of /\ preview'.of = preview.of /\ preview'.media = reports!Nothing
    BY <1>2, <2>1 DEF PreviewInv
  <2> QED
    BY <1>2, <2>1, <2>2, <2>3, LoadedNow
<1>3. CASE f.n = preview.n /\ f.of \in Pictures
  <2> DEFINE media == [f EXCEPT !.media = TRUE]
  <2>1. /\ reportsFetches' = (reportsFetches \ {f}) \cup {media}
        /\ preview' = [preview EXCEPT !.shown = f.of, !.media = reports!Nothing, !.loading = TRUE]
    BY <1>3 DEF reports!EventArrives, reports!CurrentFetch
  <2>2. f.of = preview.of /\ DOMAIN f = {"n", "of", "media"}
    BY <1>3 DEF PreviewInv, Present
  <2>3. /\ DOMAIN preview' = DOMAIN preview /\ preview'.n = preview.n /\ preview'.loading
        /\ preview'.shown = f.of /\ preview'.of = preview.of /\ preview'.media = reports!Nothing
    BY <2>1 DEF PreviewInv
  <2>4. DOMAIN media = DOMAIN f /\ media.n = f.n /\ media.of = f.of
    BY <2>2
  <2> HIDE DEF media
  <2>5. \A g \in reportsFetches' : g = media \/ (g \in reportsFetches /\ g.n # f.n)
    BY <2>1 DEF PreviewInv
  <2>6. /\ \A g \in reportsFetches' :
             /\ DOMAIN g = {"n", "of", "media"} /\ g.n \in Nat /\ g.n <= preview'.n
             /\ g.n = preview'.n => g = media
        /\ \A g, h \in reportsFetches' : g.n = h.n => g = h
    BY <1>3, <2>2, <2>3, <2>4, <2>5 DEF PreviewInv
  <2>7. Present(media)'
    <3>1. media' = media
      BY DEF media
    <3> QED
      BY <2>2, <2>3, <2>4, <3>1 DEF Present
  <2> QED
    BY <1>3, <2>1, <2>2, <2>3, <2>4, <2>6, <2>7 DEF PreviewInv, Present
<1> QED
  BY <1>1, <1>2, <1>3

LEMMA MediaStep ==
  ASSUME PreviewInv, NEW f \in reportsFetches, reports!MediaArrives(f) \/ reports!FetchFails(f)
  PROVE  PreviewInv'
<1>1. CASE f.n # preview.n
  BY <1>1, FetchesLeft DEF reports!MediaArrives, reports!FetchFails, reports!CurrentFetch
<1>2. CASE f.n = preview.n /\ reports!MediaArrives(f)
  <2>1. /\ reportsFetches' = reportsFetches \ {f} /\ f.media
        /\ preview' = [preview EXCEPT !.media = f.of, !.loading = FALSE]
    BY <1>2 DEF reports!MediaArrives, reports!CurrentFetch
  <2>2. f.of = preview.of /\ preview.shown = preview.of
    BY <1>2, <2>1 DEF PreviewInv, Present
  <2>3. /\ DOMAIN preview' = DOMAIN preview /\ preview'.n = preview.n /\ ~preview'.loading
        /\ preview'.shown = preview.shown /\ preview'.of = preview.of /\ preview'.media = f.of
    BY <2>1 DEF PreviewInv
  <2> QED
    BY <1>2, <2>1, <2>2, <2>3, LoadedNow
<1>3. CASE f.n = preview.n /\ reports!FetchFails(f)
  <2>1. /\ reportsFetches' = reportsFetches \ {f}
        /\ preview' = [preview EXCEPT !.shown = reports!Nothing, !.media = reports!Nothing, !.loading = FALSE]
    BY <1>3 DEF reports!FetchFails, reports!CurrentFetch
  <2>2. /\ DOMAIN preview' = DOMAIN preview /\ preview'.n = preview.n /\ ~preview'.loading
        /\ preview'.shown = reports!Nothing /\ preview'.media = reports!Nothing
    BY <2>1 DEF PreviewInv
  <2> QED
    BY <1>3, <2>1, <2>2, LoadedNow
<1> QED
  BY <1>1, <1>2, <1>3

LEMMA PreviewStep ==
  ASSUME PreviewInv, reports!ReportsNext \/ UNCHANGED reportsVars
  PROVE  PreviewInv'
<1>1. CASE UNCHANGED reportsVars
  BY <1>1, SamePreview DEF reportsVars
<1>2. CASE \/ reports!CloseReportDialog \/ reports!Visit \/ reports!HandleList
           \/ reports!ListArrives \/ reports!ListFails \/ reports!LoadMoreReports
           \/ reports!Search \/ reports!AskDelete
           \/ \E m \in Messages : \/ reports!OpenReportDialog(m) \/ reports!OnSubmit(m)
                                  \/ \E stored \in BOOLEAN : reports!ReportEvent(m, stored)
           \/ \E p \in 1..MaxReports + 1 : reports!TurnPage(p)
           \/ \E ok \in BOOLEAN : reports!AnswerDelete(ok)
           \/ \E r \in removing : reports!HandleDelete(r)
  <2>1. UNCHANGED <<preview, reportsFetches>>
    BY <1>2 DEF reports!CloseReportDialog, reports!Visit, reports!HandleList,
         reports!ListArrives, reports!ListFails, reports!LoadMoreReports, reports!Search,
         reports!AskDelete, reports!OpenReportDialog, reports!OnSubmit, reports!ReportEvent,
         reports!TurnPage, reports!AnswerDelete, reports!HandleDelete, reports!previewVars
  <2> QED
    BY <2>1, SamePreview
<1>3. CASE reports!Leave
  BY <1>3, UnshownInv DEF reports!Leave
<1>4. CASE \/ reports!CloseSidebar
           \/ \E id \in reports!Ids : reports!HandleSelectReport(id)
           \/ \E r \in removing : reports!DeleteReport(r)
  <2>1. (\E id : reports!Show(id)) \/ UNCHANGED <<preview, reportsFetches>>
    BY <1>4 DEF reports!CloseSidebar, reports!HandleSelectReport, reports!DeleteReport,
         reports!Select, reports!previewVars
  <2> QED
    BY <2>1, ShowStep, SamePreview
<1>5. CASE \E f \in reportsFetches :
             reports!EventArrives(f) \/ reports!MediaArrives(f) \/ reports!FetchFails(f)
  BY <1>5, EventStep, MediaStep
<1> QED
  BY <1>1, <1>2, <1>3, <1>4, <1>5 DEF reports!ReportsNext

LEMMA PreviewShows == PreviewInv => reports!PreviewOfSelection
BY DEF PreviewInv, reports!PreviewOfSelection

-----------------------------------------------------------------------------
(* Searches.  A search that is announced is under way and has nothing yet;   *)
(* that more of it is announced in the panel, means one of this panel has    *)
(* something; and one of which not all is shown is under way, or it failed.  *)

SearchInv ==
  /\ mount \in Nat
  /\ \A r \in searchRuns : DOMAIN r = {"by", "room", "mount", "batches"} /\ r.batches \in Nat
  /\ isSearching => \E r \in searchRuns : r.batches = 0
  /\ search!Shown /\ moreBatches => \E r \in searchRuns : r.mount = mount /\ r.batches > 0
  /\ \/ searchResults.by \in failed \cup {0}
     \/ searchResults.whole
     \/ \E r \in searchRuns : r.by = searchResults.by

LEMMA SearchStart == search!SearchInit => SearchInv
BY DEF search!SearchInit, SearchInv, search!NoResults

\* A search that ends, and of which more was announced in its own panel only, was
\* not the one that is still announced.
LEMMA StillMore ==
  ASSUME SearchInv, NEW r \in searchRuns, searchRuns' = searchRuns \ {r}, UNCHANGED mount,
         \/ moreBatches' = FALSE
         \/ moreBatches' = moreBatches /\ (r.batches = 0 \/ r.mount # mount)
  PROVE  search!Shown' /\ moreBatches' => \E q \in searchRuns' : q.mount = mount' /\ q.batches > 0
<1> SUFFICES ASSUME search!Shown', moreBatches'
             PROVE  \E q \in searchRuns' : q.mount = mount' /\ q.batches > 0
  OBVIOUS
<1>1. search!Shown /\ moreBatches /\ (r.batches = 0 \/ r.mount # mount)
  BY DEF search!Shown
<1>2. PICK q \in searchRuns : q.mount = mount /\ q.batches > 0
  BY <1>1 DEF SearchInv
<1> QED
  BY <1>1, <1>2

LEMMA Parity == \A n \in Nat : n % 2 = 1 => (n + 1) % 2 # 1
OBVIOUS

\* The panel is opened, closed, cleared, or the room changes.
LEMMA PanelStep ==
  ASSUME SearchInv,
         \/ search!OpenTab \/ search!CloseTab \/ search!ClearSearch
         \/ \E t \in Terms : search!Type(t)
         \/ \E r \in SearchRooms : search!GoTo(r)
  PROVE  SearchInv'
<1> USE DEF search!sharedVars, search!StateCleared, search!Cleared, search!NoResults
<1>1. UNCHANGED <<searchRuns, failed>>
  BY DEF search!OpenTab, search!CloseTab, search!ClearSearch, search!Type, search!GoTo
<1>2. isSearching' = isSearching \/ isSearching' = FALSE
  BY DEF search!OpenTab, search!CloseTab, search!ClearSearch, search!Type, search!GoTo
<1>3. searchResults' = searchResults \/ searchResults'.by = 0
  BY DEF search!OpenTab, search!CloseTab, search!ClearSearch, search!Type, search!GoTo
<1>4. \/ moreBatches' = FALSE
      \/ mount' = mount + 1 /\ search!Shown
      \/ mount' = mount /\ moreBatches' = moreBatches
  BY DEF search!OpenTab, search!CloseTab, search!ClearSearch, search!Type, search!GoTo
<1>5. mount' = mount + 1 \/ mount' = mount
  BY DEF search!OpenTab, search!CloseTab, search!ClearSearch, search!Type, search!GoTo
<1>6. mount' \in Nat
  BY <1>5 DEF SearchInv
<1>7. search!Shown' /\ moreBatches' => mount' = mount /\ search!Shown /\ moreBatches
  BY <1>4, Parity DEF SearchInv, search!Shown
<1> QED
  BY <1>1, <1>2, <1>3, <1>6, <1>7 DEF SearchInv

LEMMA BeginStep ==
  ASSUME SearchInv, search!Begin
  PROVE  SearchInv'
<1> DEFINE new == [by |-> searches + 1, room |-> room, mount |-> mount, batches |-> 0]
<1>1. /\ searchRuns' = searchRuns \cup {new} /\ moreBatches' = FALSE
      /\ searchResults'.by = 0 \/ searchResults'.by = searches + 1
      /\ UNCHANGED <<mount, failed>>
  BY DEF search!Begin, search!NoResults
<1>2. /\ DOMAIN new = {"by", "room", "mount", "batches"} /\ new.batches = 0
      /\ new.by = searches + 1
  OBVIOUS
<1> HIDE DEF new
<1> QED
  BY <1>1, <1>2 DEF SearchInv

LEMMA BatchStep ==
  ASSUME SearchInv, NEW r \in searchRuns, NEW next \in BOOLEAN, search!Batch(r, next)
  PROVE  SearchInv'
<1> DEFINE after == [r EXCEPT !.batches = @ + 1]
<1>1. /\ searchResults'.by = r.by /\ searchResults'.whole = ~next
      /\ isSearching' = IF r.batches = 0 THEN FALSE ELSE isSearching
      /\ UNCHANGED <<mount, failed>>
  BY DEF search!Batch
<1>2. /\ DOMAIN after = {"by", "room", "mount", "batches"} /\ after.batches \in Nat
      /\ after.batches > 0 /\ after.by = r.by /\ after.mount = r.mount
  BY DEF SearchInv
<1>3. CASE next
  <2>1. /\ searchRuns' = (searchRuns \ {r}) \cup {after}
        /\ moreBatches' = IF r.mount = mount THEN TRUE ELSE moreBatches
    BY <1>3 DEF search!Batch, search!More, search!Tells
  <2> HIDE DEF after
  <2>2. isSearching' => \E q \in searchRuns' : q.batches = 0
    BY <1>1, <2>1 DEF SearchInv
  <2>3. search!Shown' /\ moreBatches' => \E q \in searchRuns' : q.mount = mount' /\ q.batches > 0
    BY <1>1, <1>2, <2>1 DEF SearchInv, search!Shown
  <2> QED
    BY <1>1, <1>2, <2>1, <2>2, <2>3 DEF SearchInv
<1>4. CASE ~next
  <2>1. /\ searchRuns' = searchRuns \ {r}
        /\ \/ moreBatches' = FALSE
           \/ moreBatches' = moreBatches /\ (r.batches = 0 \/ r.mount # mount)
    BY <1>4 DEF search!Batch, search!More, search!Tells
  <2>2. isSearching' => \E q \in searchRuns' : q.batches = 0
    BY <1>1, <2>1 DEF SearchInv
  <2>3. search!Shown' /\ moreBatches' => \E q \in searchRuns' : q.mount = mount' /\ q.batches > 0
    BY <1>1, <2>1, StillMore
  <2> QED
    BY <1>1, <1>4, <2>1, <2>2, <2>3 DEF SearchInv
<1> QED
  BY <1>3, <1>4

LEMMA EndStep ==
  ASSUME SearchInv, NEW r \in searchRuns, search!NothingFound(r) \/ search!Fails(r)
  PROVE  SearchInv'
<1>1. searchRuns' = searchRuns \ {r} /\ isSearching' = FALSE /\ mount' = mount
  BY DEF search!NothingFound, search!Fails
<1>2. \/ searchResults'.by = 0
      \/ searchResults' = searchResults /\ failed' = failed \cup {r.by}
  <2>1. CASE search!NothingFound(r)
    BY <2>1 DEF search!NothingFound, search!NoResults
  <2>2. CASE search!Fails(r)
    BY <2>2 DEF search!Fails
  <2> QED
    BY <2>1, <2>2
<1>3. \/ moreBatches' = FALSE
      \/ moreBatches' = moreBatches /\ (r.batches = 0 \/ r.mount # mount)
  BY DEF search!NothingFound, search!Fails, search!Tells
<1>4. search!Shown' /\ moreBatches' => \E q \in searchRuns' : q.mount = mount' /\ q.batches > 0
  BY <1>1, <1>3, StillMore
<1> QED
  BY <1>1, <1>2, <1>4 DEF SearchInv

LEMMA SearchStep ==
  ASSUME SearchInv, search!SearchNext \/ UNCHANGED searchVars
  PROVE  SearchInv'
<1>1. CASE UNCHANGED searchVars
  BY <1>1 DEF searchVars, SearchInv, search!Shown
<1>2. CASE search!SearchNext
  BY <1>2, PanelStep, BeginStep, BatchStep, EndStep DEF search!SearchNext
<1> QED
  BY <1>1, <1>2

LEMMA SearchShows == SearchInv => search!SearchEnds
BY DEF SearchInv, search!SearchEnds

\* What is on the screen is of what the user looks at: a warning is silent only
\* if the member accepted it (yellow-card.composable.ts); the preview of a report
\* is of the one selected, and comes to an end (ManageReports.vue); and when no
\* search is under way none is announced, and all that was found is shown
\* (RoomSearch.vue).
THEOREM Current == Spec => []ShownIsCurrent
<1> DEFINE I == /\ part = "sanctions" => WarningsInv
                /\ part = "reports" => PreviewInv
                /\ part = "search" => SearchInv
<1>1. Init => I
  BY Parts, WarningsStart, PreviewStart, SearchStart
<1>2. I /\ [Next]_vars => I'
  BY Parts, WarningsStep, PreviewStep, SearchStep
<1>3. I => ShownIsCurrent
  BY WarningsShow, PreviewShows, SearchShows DEF ShownIsCurrent
<1> QED
  BY <1>1, <1>2, <1>3, PTL DEF Spec

-----------------------------------------------------------------------------
(* Voting: clients that have all events show the same widget.              *)

Ballot == [option : 0 .. MaxIds, choice : voting!VoteChoices, user : VotingClients]
WidgetView ==
  [on : BOOLEAN, options : Seq(voting!Options), votes : SUBSET Ballot, closed : BOOLEAN,
   picked : -1 .. MaxIds, show : BOOLEAN]
WidgetEvent ==
  {e \in [type : {"vote", "close", "open", "pick", "edit"}, user : VotingClients, option : -1 .. MaxIds,
          choice : voting!VoteChoices \cup {"none"}, options : Seq(voting!Options)] :
     e.type = "vote" => e.option # -1 /\ e.choice \in voting!VoteChoices}

\* What an event changes of the options and of whether the widget is closed.
LEMMA UpdatedFacts ==
  ASSUME NEW v \in WidgetView, NEW e \in WidgetEvent
  PROVE  /\ voting!Updated(v, e) \in WidgetView
         /\ voting!Updated(v, e).options = IF e.type = "edit" THEN e.options ELSE v.options
         /\ voting!Updated(v, e).closed =
              IF e.type \in {"close", "open"} THEN e.type = "close" ELSE v.closed
         /\ voting!Updated(v, e).on = v.on
<1>1. e.options \in Seq(voting!Options) /\ e.option \in -1 .. MaxIds /\ e.user \in VotingClients
  BY DEF WidgetEvent
<1>2. CASE e.type = "close"
  BY <1>2 DEF voting!Updated, WidgetView
<1>3. CASE e.type = "open"
  BY <1>3 DEF voting!Updated, WidgetView
<1>4. CASE e.type = "pick"
  BY <1>1, <1>4 DEF voting!Updated, WidgetView
<1>5. CASE e.type = "vote"
  <2> DEFINE w == [option |-> e.option, choice |-> e.choice, user |-> e.user]
             S == {x \in v.votes : x.user # e.user \/ (kind = "scheduler" /\ x.option # e.option)} \cup {w}
  <2>1. voting!Updated(v, e) = IF v.closed \/ e.option \notin voting!Ids(v.options) THEN v ELSE [v EXCEPT !.votes = S]
    BY <1>5 DEF voting!Updated, voting!Voted
  <2>2. w \in Ballot
    BY <1>1, <1>5, VotingAssumption DEF WidgetEvent, Ballot
  <2>3. S \in SUBSET Ballot
    BY <2>2 DEF WidgetView
  <2> HIDE DEF S
  <2> QED
    BY <1>5, <2>1, <2>3 DEF WidgetView
<1>6. CASE e.type = "edit"
  <2> DEFINE IdOf(t) == CHOOSE i \in voting!Ids(e.options) : \E n \in DOMAIN e.options : e.options[n] = [id |-> i, title |-> t]
             Kept == {o \in voting!ToSet(v.options) : \E n \in DOMAIN e.options : e.options[n].title = o.title}
             V == UNION {{[w EXCEPT !.option = IdOf(o.title)] : w \in {x \in v.votes : x.option = o.id}} : o \in Kept}
  <2>1. voting!Updated(v, e) = [v EXCEPT !.options = e.options, !.votes = V]
    BY <1>6 DEF voting!Updated, voting!Edited
  <2>2. ASSUME NEW o \in Kept PROVE IdOf(o.title) \in 0 .. MaxIds
    <3>1. PICK n \in DOMAIN e.options : e.options[n].title = o.title
      OBVIOUS
    <3>2. \A k \in DOMAIN e.options : e.options[k] \in [id : 0 .. MaxIds, title : Titles]
      BY <1>1, ElementOfSeq, LenProperties DEF voting!Options
    <3>3. e.options[n] = [id |-> e.options[n].id, title |-> o.title] /\ e.options[n].id \in voting!Ids(e.options)
      BY <3>1, <3>2 DEF voting!Ids
    <3>4. IdOf(o.title) \in voting!Ids(e.options)
      BY <3>3
    <3> HIDE DEF IdOf
    <3> QED
      BY <3>2, <3>4 DEF voting!Ids
  <2>3. \A x \in V : x \in Ballot
    <3> HIDE DEF IdOf, Kept
    <3> SUFFICES ASSUME NEW o \in Kept, NEW w \in v.votes PROVE [w EXCEPT !.option = IdOf(o.title)] \in Ballot
      OBVIOUS
    <3>1. w \in Ballot /\ IdOf(o.title) \in 0 .. MaxIds
      BY <2>2 DEF WidgetView
    <3> QED
      BY <3>1 DEF Ballot
  <2> HIDE DEF V
  <2>4. V \in SUBSET Ballot
    BY <2>3
  <2> QED
    BY <1>1, <1>6, <2>1, <2>4 DEF WidgetView
<1> QED
  BY <1>2, <1>3, <1>4, <1>5, <1>6 DEF WidgetEvent

\* Where the options were edited, where the widget was closed or opened.
Edits(places) == {i \in places : events[i].type = "edit"}
Turns(places) == {i \in places : events[i].type \in {"close", "open"}}

\* What the edits, and the turns, made of what there was.
OptionsAfter(o, before, E) ==
  /\ E = {} => o = before
  /\ \A i \in E : (\A j \in E : j <= i) => o = events[i].options
ClosedAfter(b, before, T) ==
  /\ T = {} => b = before
  /\ \A i \in T : (\A j \in T : j <= i) => b = (events[i].type = "close")

LEMMA OptionsThen ==
  ASSUME NEW m \in Nat, NEW k \in Nat, NEW o, NEW o1, NEW before, NEW E \in SUBSET (1 .. m), NEW F \in SUBSET (m + 1 .. k),
         OptionsAfter(o1, before, E), OptionsAfter(o, o1, F)
  PROVE  OptionsAfter(o, before, E \cup F)
<1>1. CASE F = {}
  BY <1>1 DEF OptionsAfter
<1>2. CASE F # {}
  <2>1. PICK f \in F : TRUE
    BY <1>2
  <2>2. ASSUME NEW i \in E \cup F, \A j \in E \cup F : j <= i PROVE i \in F
    <3>1. f <= i /\ f \in m + 1 .. k
      BY <2>2
    <3>2. i \notin E
      BY <3>1
    <3> QED
      BY <3>2
  <2>3. ASSUME NEW i \in E \cup F, \A j \in E \cup F : j <= i PROVE o = events[i].options
    <3>1. i \in F /\ \A j \in F : j <= i
      BY <2>2, <2>3
    <3> QED
      BY <3>1 DEF OptionsAfter
  <2> QED
    BY <1>2, <2>3 DEF OptionsAfter
<1> QED
  BY <1>1, <1>2

LEMMA ClosedThen ==
  ASSUME NEW m \in Nat, NEW k \in Nat, NEW b, NEW b1, NEW before, NEW E \in SUBSET (1 .. m), NEW F \in SUBSET (m + 1 .. k),
         ClosedAfter(b1, before, E), ClosedAfter(b, b1, F)
  PROVE  ClosedAfter(b, before, E \cup F)
<1>1. CASE F = {}
  BY <1>1 DEF ClosedAfter
<1>2. CASE F # {}
  <2>1. PICK f \in F : TRUE
    BY <1>2
  <2>2. ASSUME NEW i \in E \cup F, \A j \in E \cup F : j <= i PROVE i \in F
    <3>1. f <= i /\ f \in m + 1 .. k
      BY <2>2
    <3>2. i \notin E
      BY <3>1
    <3> QED
      BY <3>2
  <2>3. ASSUME NEW i \in E \cup F, \A j \in E \cup F : j <= i PROVE b = (events[i].type = "close")
    <3>1. i \in F /\ \A j \in F : j <= i
      BY <2>2, <2>3
    <3> QED
      BY <3>1 DEF ClosedAfter
  <2> QED
    BY <1>2, <2>3 DEF ClosedAfter
<1> QED
  BY <1>1, <1>2

LEMMA Folds ==
  ASSUME NEW v, NEW S, Len(events) \in Nat
  PROVE  voting!Folded(v, S) =
           [k \in 0 .. Len(events) |->
              IF k = 0 THEN v
              ELSE IF k \in S THEN voting!Updated(voting!Folded(v, S)[k - 1], events[k]) ELSE voting!Folded(v, S)[k - 1]]
<1> DEFINE After(f, k) == IF k = 0 THEN v ELSE IF k \in S THEN voting!Updated(f[k - 1], events[k]) ELSE f[k - 1]
           P(f) == f = [k \in 0 .. Len(events) |-> After(f, k)]
           Q(f, n) == DOMAIN f = 0 .. n /\ \A k \in 0 .. n : f[k] = After(f, k)
           G == {n \in 0 .. Len(events) : \E f : Q(f, n)}
<1>1. 0 \in G
  <2>1. PICK f : f = [k \in 0 .. 0 |-> v]
    OBVIOUS
  <2>2. Q(f, 0)
    BY <2>1
  <2> HIDE DEF After
  <2> QED
    BY <2>2
<1>2. ASSUME NEW n \in 1 .. Len(events), n - 1 \in G PROVE n \in G
  <2>1. PICK f : Q(f, n - 1)
    BY <1>2
  <2>2. PICK g : g = [k \in 0 .. n |-> IF k = n THEN After(f, n) ELSE f[k]]
    OBVIOUS
  <2>3. DOMAIN g = 0 .. n /\ g[n] = After(f, n) /\ \A k \in 0 .. n - 1 : g[k] = f[k]
    BY <2>2
  <2>4. \A k \in 0 .. n : k # 0 => k - 1 \in 0 .. n - 1
    OBVIOUS
  <2>5. \A k \in 0 .. n : After(g, k) = After(f, k)
    BY <2>3, <2>4
  <2>6. \A k \in 0 .. n - 1 : g[k] = After(f, k)
    BY <2>1, <2>3
  <2> HIDE DEF After
  <2>7. \A k \in 0 .. n : g[k] = After(g, k)
    BY <2>3, <2>5, <2>6
  <2>8. Q(g, n)
    BY <2>3, <2>7
  <2> QED
    BY <2>8
<1>3. \A k \in 0 .. Len(events) : k \in G
  <2> HIDE DEF G
  <2> QED
    BY <1>1, <1>2, InductionTo
<1>4. PICK f : Q(f, Len(events))
  BY <1>3
<1>5. P(f)
  <2> HIDE DEF After
  <2> QED
    BY <1>4
<1>6. voting!Folded(v, S) = CHOOSE h : P(h)
  BY DEF voting!Folded
<1> HIDE DEF P
<1>7. P(voting!Folded(v, S))
  BY <1>5, <1>6
<1> QED
  BY <1>7 DEF P

\* What all the events at some places make of a widget.
LEMMA AllOfFacts ==
  ASSUME events \in Seq(WidgetEvent), NEW v \in WidgetView, NEW S \in SUBSET (1 .. Len(events))
  PROVE  LET w == voting!AllOf(v, S) IN
         /\ w \in WidgetView /\ w.on = v.on
         /\ OptionsAfter(w.options, v.options, Edits(S)) /\ ClosedAfter(w.closed, v.closed, Turns(S))
<1>1. Len(events) \in Nat /\ \A k \in 1 .. Len(events) : events[k] \in WidgetEvent
  BY LenProperties, ElementOfSeq
<1>0. PICK es, ts : es = Edits(S) /\ ts = Turns(S)
  OBVIOUS
<1>10. \A i \in es \cup ts : i \in Nat /\ i >= 1 /\ i <= Len(events) /\ i \in S
  BY <1>0, <1>1 DEF Edits, Turns
<1> DEFINE E(k) == {i \in es : i <= k}  T(k) == {i \in ts : i <= k}
           SoFar(w, k) == /\ w \in WidgetView /\ w.on = v.on
                          /\ OptionsAfter(w.options, v.options, E(k)) /\ ClosedAfter(w.closed, v.closed, T(k))
           G == {k \in 0 .. Len(events) : SoFar(voting!Folded(v, S)[k], k)}
<1>2. PICK s : s = voting!Folded(v, S)
  OBVIOUS
<1>3. s[0] = v /\ \A k \in 1 .. Len(events) : s[k] = IF k \in S THEN voting!Updated(s[k - 1], events[k]) ELSE s[k - 1]
  <2>1. s = [k \in 0 .. Len(events) |-> IF k = 0 THEN v
               ELSE IF k \in S THEN voting!Updated(s[k - 1], events[k]) ELSE s[k - 1]]
    BY <1>1, <1>2, Folds
  <2>2. \A k \in 1 .. Len(events) : k \in 0 .. Len(events) /\ k # 0
    OBVIOUS
  <2>3. 0 \in 0 .. Len(events)
    BY <1>1
  <2> QED
    BY <2>1, <2>2, <2>3
<1>4. SoFar(s[0], 0)
  <2>1. E(0) = {} /\ T(0) = {}
    BY <1>10
  <2> HIDE DEF E, T
  <2> QED
    BY <1>3, <2>1 DEF OptionsAfter, ClosedAfter
<1>5. ASSUME NEW k \in 1 .. Len(events), SoFar(s[k - 1], k - 1) PROVE SoFar(s[k], k)
  <2>1. PICK u : u = s[k - 1]
    OBVIOUS
  <2>2. k \in Nat /\ k - 1 \in Nat /\ events[k] \in WidgetEvent
    BY <1>1
  <2>3. E(k) = E(k - 1) \cup {i \in es : i = k} /\ T(k) = T(k - 1) \cup {i \in ts : i = k}
    BY <1>10, <2>2
  <2>4. E(k - 1) \in SUBSET (1 .. k - 1) /\ T(k - 1) \in SUBSET (1 .. k - 1)
    BY <1>10, <2>2
  <2>5. /\ u \in WidgetView /\ u.on = v.on
        /\ OptionsAfter(u.options, v.options, E(k - 1)) /\ ClosedAfter(u.closed, v.closed, T(k - 1))
    BY <1>5, <2>1
  <2> HIDE DEF E, T
  <2>6. CASE k \notin S
    <3>1. {i \in es : i = k} = {} /\ {i \in ts : i = k} = {}
      BY <1>10, <2>6
    <3>2. E(k) = E(k - 1) /\ T(k) = T(k - 1) /\ s[k] = u
      BY <1>3, <2>1, <2>3, <2>6, <3>1
    <3> QED
      BY <2>5, <3>2
  <2>7. CASE k \in S
    <3>1. PICK w : w = voting!Updated(u, events[k])
      OBVIOUS
    <3>2. /\ w \in WidgetView /\ w.on = u.on
          /\ w.options = IF events[k].type = "edit" THEN events[k].options ELSE u.options
          /\ w.closed = IF events[k].type \in {"close", "open"} THEN events[k].type = "close" ELSE u.closed
      BY <2>2, <2>5, <3>1, UpdatedFacts
    <3>3. s[k] = w
      BY <1>3, <2>1, <2>7, <3>1
    <3>4. {i \in es : i = k} \in SUBSET ((k - 1) + 1 .. k) /\ {i \in ts : i = k} \in SUBSET ((k - 1) + 1 .. k)
      BY <2>2
    <3>5. OptionsAfter(w.options, u.options, {i \in es : i = k})
      BY <1>0, <2>2, <2>7, <3>2 DEF OptionsAfter, Edits
    <3>6. ClosedAfter(w.closed, u.closed, {i \in ts : i = k})
      BY <1>0, <2>2, <2>7, <3>2 DEF ClosedAfter, Turns
    <3>7. OptionsAfter(w.options, v.options, E(k))
      <4>1. PICK F : F = {i \in es : i = k}
        OBVIOUS
      <4>2. OptionsAfter(w.options, v.options, E(k - 1) \cup F)
        BY <2>2, <2>4, <2>5, <3>4, <3>5, <4>1, OptionsThen
      <4> QED
        BY <2>3, <4>1, <4>2
    <3>8. ClosedAfter(w.closed, v.closed, T(k))
      <4>1. PICK F : F = {i \in ts : i = k}
        OBVIOUS
      <4>2. ClosedAfter(w.closed, v.closed, T(k - 1) \cup F)
        BY <2>2, <2>4, <2>5, <3>4, <3>6, <4>1, ClosedThen
      <4> QED
        BY <2>3, <4>1, <4>2
    <3> QED
      BY <2>5, <3>2, <3>3, <3>7, <3>8
  <2> QED
    BY <2>6, <2>7
<1>6. \A k \in 0 .. Len(events) : k \in G
  <2> HIDE DEF SoFar
  <2>1. 0 \in G
    BY <1>1, <1>2, <1>4
  <2>2. \A k \in 1 .. Len(events) : k - 1 \in G => k \in G
    BY <1>2, <1>5
  <2> HIDE DEF G
  <2> QED
    BY <1>1, <2>1, <2>2, InductionTo
<1>7. SoFar(s[Len(events)], Len(events))
  <2> HIDE DEF SoFar
  <2>1. Len(events) \in G
    BY <1>1, <1>6
  <2> QED
    BY <1>2, <2>1
<1>8. E(Len(events)) = Edits(S) /\ T(Len(events)) = Turns(S)
  BY <1>0, <1>10
<1>9. voting!AllOf(v, S) = s[Len(events)]
  BY <1>2 DEF voting!AllOf
<1> HIDE DEF E, T
<1> QED
  BY <1>7, <1>8, <1>9

LEMMA CollectedFacts ==
  ASSUME events \in Seq(WidgetEvent), NEW v \in WidgetView, NEW k \in 0 .. Len(events), NEW after \in 0 .. k
  PROVE  LET w == voting!Collected(v, voting!RelatedEvents(k, after)) IN
         /\ w \in WidgetView /\ w.on = v.on /\ \A b \in w.votes : b.choice # "redacted"
         /\ OptionsAfter(w.options, v.options, Edits(after + 1 .. k))
         /\ ClosedAfter(w.closed, v.closed, Turns(after + 1 .. k))
<1>1. Len(events) \in Nat /\ \A i \in 1 .. Len(events) : events[i] \in WidgetEvent
  BY LenProperties, ElementOfSeq
<1> DEFINE A == {i \in after + 1 .. k : voting!IsVote(events[i]) /\ ~voting!Superseded(i, k)}
           B == {i \in after + 1 .. k : ~voting!IsVote(events[i])}
<1>2. PICK a : a = voting!AllOf(v, A)
  OBVIOUS
<1>3. PICK b : b = voting!AllOf(a, B)
  OBVIOUS
<1>4. A \in SUBSET (1 .. Len(events)) /\ B \in SUBSET (1 .. Len(events))
  BY <1>1
<1>5. Edits(A) = {} /\ Turns(A) = {}
  BY DEF Edits, Turns, voting!IsVote
<1>6. Edits(B) = Edits(after + 1 .. k) /\ Turns(B) = Turns(after + 1 .. k)
  BY DEF Edits, Turns, voting!IsVote
<1>7. voting!Collected(v, voting!RelatedEvents(k, after)) = [b EXCEPT !.votes = {x \in b.votes : x.choice # "redacted"}]
  BY <1>2, <1>3 DEF voting!Collected, voting!RelatedEvents, voting!WithoutRedacted
<1> HIDE DEF A, B
<1>8. /\ a \in WidgetView /\ a.on = v.on
      /\ OptionsAfter(a.options, v.options, Edits(A)) /\ ClosedAfter(a.closed, v.closed, Turns(A))
  BY <1>2, <1>4, AllOfFacts
<1>9. a.options = v.options /\ a.closed = v.closed
  BY <1>5, <1>8 DEF OptionsAfter, ClosedAfter
<1>10. /\ b \in WidgetView /\ b.on = a.on
       /\ OptionsAfter(b.options, a.options, Edits(B)) /\ ClosedAfter(b.closed, a.closed, Turns(B))
  BY <1>3, <1>4, <1>8, AllOfFacts
<1>11. PICK w : w = [b EXCEPT !.votes = {x \in b.votes : x.choice # "redacted"}]
  OBVIOUS
<1>12. /\ w \in WidgetView /\ w.on = b.on /\ w.options = b.options /\ w.closed = b.closed
       /\ \A x \in w.votes : x.choice # "redacted"
  BY <1>10, <1>11 DEF WidgetView
<1> QED
  BY <1>6, <1>7, <1>8, <1>9, <1>10, <1>11, <1>12

WidgetDraft == [open : BOOLEAN, edit : BOOLEAN, options : Seq(voting!Options), next : 0 .. MaxIds + 1]

WidgetInv ==
  /\ kind \in {"poll", "scheduler"} /\ original \in Seq(voting!Options)
  /\ events \in Seq(WidgetEvent) /\ Len(events) <= MaxEvents
  /\ known \in [VotingClients -> 0 .. Len(events)] /\ view \in [VotingClients -> WidgetView]
  /\ \A c \in VotingClients : \A b \in view[c].votes : b.choice # "redacted"
  /\ draft \in WidgetDraft
  /\ original = <<>> => events = <<>> /\ \A c \in VotingClients : ~view[c].on
  /\ draft.open => (draft.edit <=> original # <<>>)

\* A widget shows what the first n events made of it, but the creator has seen
\* how he closed or opened it before the event of that came back.
Shows(v, n) ==
  v.on => /\ OptionsAfter(v.options, original, Edits(1 .. n))
          /\ ClosedAfter(v.closed, FALSE, Turns(1 .. n)) \/ Turns(n + 1 .. Len(events)) # {}
ShowsInv == \A c \in VotingClients : Shows(view[c], known[c])
VotingInv == WidgetInv /\ ShowsInv

LEMMA EmptyOptions == <<>> \in Seq(voting!Options) /\ Len(<<>>) = 0
BY EmptySeq

LEMMA FreshFacts ==
  /\ \A o \in Seq(voting!Options) :
       /\ voting!Fresh(o) \in WidgetView /\ voting!Fresh(o).on /\ voting!Fresh(o).options = o
       /\ voting!Fresh(o).closed = FALSE /\ voting!Fresh(o).votes = {}
  /\ voting!NoView \in WidgetView /\ ~voting!NoView.on /\ voting!NoView.votes = {}
  /\ voting!NoDraft \in WidgetDraft /\ ~voting!NoDraft.open /\ ~voting!NoDraft.edit
<1>1. MaxIds \in Nat
  BY VotingAssumption
<1>2. -1 \in -1 .. MaxIds /\ 0 \in 0 .. MaxIds + 1
  BY <1>1
<1> QED
  BY <1>2, EmptyOptions DEF voting!Fresh, voting!NoView, voting!NoDraft, WidgetView, WidgetDraft

LEMMA VotingStart == voting!VotingInit => VotingInv
<1> SUFFICES ASSUME voting!VotingInit PROVE VotingInv
  OBVIOUS
<1>1. /\ kind \in {"poll", "scheduler"} /\ original = <<>> /\ events = <<>>
      /\ view = [c \in VotingClients |-> voting!NoView] /\ known = [c \in VotingClients |-> 0]
      /\ draft = [voting!NoDraft EXCEPT !.open = TRUE]
  BY DEF voting!VotingInit
<1>2. Len(events) = 0 /\ events \in Seq(WidgetEvent) /\ MaxEvents \in Nat
  BY <1>1, VotingAssumption
<1>3. draft \in WidgetDraft /\ ~draft.edit
  BY <1>1, FreshFacts DEF WidgetDraft
<1>4. \A c \in VotingClients : view[c] = voting!NoView /\ ~view[c].on /\ view[c].votes = {}
  BY <1>1, FreshFacts
<1>5. WidgetInv
  BY <1>1, <1>2, <1>3, <1>4, FreshFacts, EmptyOptions DEF WidgetInv
<1>6. ShowsInv
  BY <1>4 DEF ShowsInv, Shows
<1> QED
  BY <1>5, <1>6 DEF VotingInv

\* A widget comes into view, or collects new events.
LEMMA CollectStep ==
  ASSUME VotingInv, NEW c \in VotingClients, NEW k \in known[c] .. Len(events), NEW v \in WidgetView, NEW after \in 0 .. k,
         v.on, original # <<>>, OptionsAfter(v.options, original, Edits(1 .. after)),
         ClosedAfter(v.closed, FALSE, Turns(1 .. after)) \/ Turns(after + 1 .. Len(events)) # {},
         known' = [known EXCEPT ![c] = k],
         view' = [view EXCEPT ![c] = voting!Collected(v, voting!RelatedEvents(k, after))],
         UNCHANGED <<kind, original, events, draft>>
  PROVE  VotingInv'
<1>1. WidgetInv /\ ShowsInv
  BY DEF VotingInv
<1>2. Len(events) \in Nat /\ known[c] \in 0 .. Len(events)
  BY <1>1, LenProperties DEF WidgetInv
<1>3. k \in 0 .. Len(events) /\ k \in Nat /\ after \in Nat
  BY <1>2
<1>4. PICK w : w = voting!Collected(v, voting!RelatedEvents(k, after))
  OBVIOUS
<1>5. /\ w \in WidgetView /\ w.on = v.on /\ \A b \in w.votes : b.choice # "redacted"
      /\ OptionsAfter(w.options, v.options, Edits(after + 1 .. k))
      /\ ClosedAfter(w.closed, v.closed, Turns(after + 1 .. k))
  BY <1>1, <1>3, <1>4, CollectedFacts DEF WidgetInv
<1>6. /\ Edits(1 .. k) = Edits(1 .. after) \cup Edits(after + 1 .. k)
      /\ Turns(1 .. k) = Turns(1 .. after) \cup Turns(after + 1 .. k)
      /\ Edits(1 .. after) \in SUBSET (1 .. after) /\ Edits(after + 1 .. k) \in SUBSET (after + 1 .. k)
      /\ Turns(1 .. after) \in SUBSET (1 .. after) /\ Turns(after + 1 .. k) \in SUBSET (after + 1 .. k)
  <2>1. 1 .. k = (1 .. after) \cup (after + 1 .. k)
    BY <1>3
  <2> QED
    BY <2>1 DEF Edits, Turns
<1>7. OptionsAfter(w.options, original, Edits(1 .. k))
  <2>1. PICK E, F : E = Edits(1 .. after) /\ F = Edits(after + 1 .. k)
    OBVIOUS
  <2>2. E \in SUBSET (1 .. after) /\ F \in SUBSET (after + 1 .. k) /\ Edits(1 .. k) = E \cup F
    BY <1>6, <2>1
  <2>3. OptionsAfter(v.options, original, E) /\ OptionsAfter(w.options, v.options, F)
    BY <1>5, <2>1
  <2>4. OptionsAfter(w.options, original, E \cup F)
    BY ONLY <1>3, <2>2, <2>3, OptionsThen
  <2> QED
    BY <2>2, <2>4
<1>8. ClosedAfter(w.closed, FALSE, Turns(1 .. k)) \/ Turns(k + 1 .. Len(events)) # {}
  <2>1. CASE ClosedAfter(v.closed, FALSE, Turns(1 .. after))
    <3>1. PICK E, F : E = Turns(1 .. after) /\ F = Turns(after + 1 .. k)
      OBVIOUS
    <3>2. E \in SUBSET (1 .. after) /\ F \in SUBSET (after + 1 .. k) /\ Turns(1 .. k) = E \cup F
      BY <1>6, <3>1
    <3>3. ClosedAfter(v.closed, FALSE, E) /\ ClosedAfter(w.closed, v.closed, F)
      BY <1>5, <2>1, <3>1
    <3>4. ClosedAfter(w.closed, FALSE, E \cup F)
      BY ONLY <1>3, <3>2, <3>3, ClosedThen
    <3> QED
      BY <3>2, <3>4
  <2>2. CASE Turns(after + 1 .. Len(events)) # {} /\ Turns(k + 1 .. Len(events)) = {}
    <3>1. PICK j \in after + 1 .. Len(events) : events[j].type \in {"close", "open"}
      BY <2>2 DEF Turns
    <3>2. j \in after + 1 .. k
      <4>1. j \notin k + 1 .. Len(events)
        BY <2>2, <3>1 DEF Turns
      <4> QED
        BY <1>2, <1>3, <3>1, <4>1
    <3>3. Turns(after + 1 .. k) # {}
      BY <3>1, <3>2 DEF Turns
    <3>4. ASSUME NEW i \in Turns(1 .. k), \A m \in Turns(1 .. k) : m <= i PROVE i \in Turns(after + 1 .. k)
      <4>1. j \in Turns(1 .. k) /\ j <= i /\ i \in 1 .. k /\ events[i].type \in {"close", "open"}
        BY <1>6, <3>1, <3>2, <3>4 DEF Turns
      <4>2. i \in after + 1 .. k
        BY <1>3, <3>2, <4>1
      <4> QED
        BY <4>1, <4>2 DEF Turns
    <3>5. Turns(1 .. k) # {}
      BY <1>6, <3>3
    <3> QED
      BY <1>5, <1>6, <3>4, <3>5 DEF ClosedAfter
  <2> QED
    BY <2>1, <2>2
<1>9. /\ view' \in [VotingClients -> WidgetView] /\ view'[c] = w /\ \A d \in VotingClients \ {c} : view'[d] = view[d]
      /\ known' \in [VotingClients -> 0 .. Len(events)] /\ known'[c] = k /\ \A d \in VotingClients \ {c} : known'[d] = known[d]
  BY <1>1, <1>3, <1>4, <1>5 DEF WidgetInv
<1>10. ASSUME NEW d \in VotingClients PROVE Shows(view[d], known[d])'
  <2>1. PICK x, n : x = view'[d] /\ n = known'[d]
    OBVIOUS
  <2>2. Shows(x, n)
    <3>1. CASE d = c
      BY <1>5, <1>7, <1>8, <1>9, <2>1, <3>1 DEF Shows
    <3>2. CASE d # c
      BY <1>1, <1>9, <2>1, <3>2 DEF ShowsInv
    <3> QED
      BY <3>1, <3>2
  <2>3. Shows(x, n)'
    BY <2>2 DEF Shows, OptionsAfter, ClosedAfter, Edits, Turns
  <2> QED
    BY <2>1, <2>3
<1>11. WidgetInv'
  <2>1. \A d \in VotingClients : \A b \in view'[d].votes : b.choice # "redacted"
    BY <1>1, <1>5, <1>9 DEF WidgetInv
  <2>2. voting!VoteChoices' = voting!VoteChoices
    BY DEF voting!VoteChoices
  <2>3. WidgetView' = WidgetView /\ WidgetEvent' = WidgetEvent /\ WidgetDraft' = WidgetDraft
    BY <2>2 DEF WidgetView, WidgetEvent, WidgetDraft, Ballot
  <2> QED
    BY <1>1, <1>9, <2>1, <2>3 DEF WidgetInv
<1>12. ShowsInv'
  BY <1>10 DEF ShowsInv
<1> QED
  BY <1>11, <1>12 DEF VotingInv

\* Events are sent, and the sender sees what he did.
LEMMA SentStep ==
  ASSUME VotingInv, NEW es \in Seq(WidgetEvent), voting!Send(es), original # <<>>,
         UNCHANGED <<kind, original, known>>, view' \in [VotingClients -> WidgetView], draft' \in WidgetDraft,
         draft'.open => draft'.edit,
         \A c \in VotingClients :
           /\ view'[c].on = view[c].on /\ view'[c].options = view[c].options /\ view'[c].votes = view[c].votes
           /\ view'[c].closed = view[c].closed \/ \E j \in 1 .. Len(es) : es[j].type \in {"close", "open"}
  PROVE  VotingInv'
<1>1. WidgetInv /\ ShowsInv
  BY DEF VotingInv
<1>2. events' = events \o es /\ Len(events) + Len(es) <= MaxEvents
  BY DEF voting!Send
<1>3. events \in Seq(WidgetEvent) /\ Len(events) \in Nat /\ Len(es) \in Nat
  BY <1>1, LenProperties DEF WidgetInv
<1>4. events' \in Seq(WidgetEvent) /\ Len(events') = Len(events) + Len(es)
  BY <1>2, <1>3, ConcatProperties
<1>5. \A i \in 1 .. Len(events) : events'[i] = events[i]
  BY <1>2, <1>3, ConcatProperties
<1>6. \A j \in 1 .. Len(es) : events'[Len(events) + j] = es[j]
  <2> SUFFICES ASSUME NEW j \in 1 .. Len(es) PROVE events'[Len(events) + j] = es[j]
    OBVIOUS
  <2>1. PICK p : p = Len(events) + j
    OBVIOUS
  <2>2. p \in 1 .. Len(events) + Len(es) /\ p > Len(events) /\ p - Len(events) = j
    BY <1>3, <2>1
  <2>3. events'[p] = es[p - Len(events)]
    BY <1>2, <1>3, <2>2, ConcatProperties
  <2> QED
    BY <2>1, <2>2, <2>3
<1>7. ASSUME NEW n \in 0 .. Len(events)
      PROVE  Edits(1 .. n)' = Edits(1 .. n) /\ Turns(1 .. n)' = Turns(1 .. n)
  <2>1. \A i \in 1 .. n : events'[i] = events[i]
    BY <1>3, <1>5
  <2> QED
    BY <2>1 DEF Edits, Turns
<1>8. ASSUME NEW c \in VotingClients PROVE Shows(view[c], known[c])'
  <2>1. PICK x, n : x = view'[c] /\ n = known[c]
    OBVIOUS
  <2>2. n \in 0 .. Len(events)
    BY <1>1, <2>1 DEF WidgetInv
  <2>7. PICK E, T : E = Edits(1 .. n) /\ T = Turns(1 .. n)
    OBVIOUS
  <2>0. E = Edits(1 .. n)' /\ T = Turns(1 .. n)'
    BY <1>7, <2>2, <2>7
  <2>3. SUFFICES ASSUME x.on
                 PROVE  OptionsAfter(x.options, original, E)' /\ (ClosedAfter(x.closed, FALSE, T)' \/ Turns(n + 1 .. Len(events))' # {})
    <3>1. ASSUME OptionsAfter(x.options, original, E)', ClosedAfter(x.closed, FALSE, T)' \/ Turns(n + 1 .. Len(events))' # {}
          PROVE  Shows(x, n)'
      BY <2>0, <3>1 DEF Shows, OptionsAfter, ClosedAfter
    <3>2. known' = known /\ x = view'[c] /\ n = known'[c]
      BY <2>1
    <3>3. CASE ~x.on
      BY <3>2, <3>3 DEF Shows
    <3> QED
      BY <3>1, <3>2, <3>3
  <2>4. PICK v : v = view[c]
    OBVIOUS
  <2>5. /\ v.on /\ x.options = v.options
        /\ x.closed = v.closed \/ \E j \in 1 .. Len(es) : es[j].type \in {"close", "open"}
    BY <2>1, <2>3, <2>4
  <2>6. /\ OptionsAfter(v.options, original, Edits(1 .. n))
        /\ ClosedAfter(v.closed, FALSE, Turns(1 .. n)) \/ Turns(n + 1 .. Len(events)) # {}
    BY <1>1, <2>1, <2>4, <2>5 DEF ShowsInv, Shows
  <2>8. \A i \in E \cup T : events'[i] = events[i]
    BY <1>3, <1>5, <2>2, <2>7 DEF Edits, Turns
  <2>9. OptionsAfter(x.options, original, E)'
    BY <2>5, <2>6, <2>7, <2>8 DEF OptionsAfter
  <2>10. CASE \E j \in 1 .. Len(es) : es[j].type \in {"close", "open"}
    <3>1. PICK j \in 1 .. Len(es) : es[j].type \in {"close", "open"}
      BY <2>10
    <3>2. Len(events) + j \in n + 1 .. Len(events') /\ events'[Len(events) + j].type \in {"close", "open"}
      BY <1>3, <1>4, <1>6, <2>2, <3>1
    <3> QED
      BY <2>9, <3>2 DEF Turns
  <2>11. CASE Turns(n + 1 .. Len(events)) # {}
    <3>1. PICK j \in n + 1 .. Len(events) : events[j].type \in {"close", "open"}
      BY <2>11 DEF Turns
    <3>2. j \in n + 1 .. Len(events') /\ events'[j].type \in {"close", "open"}
      <4>1. j \in 1 .. Len(events) /\ j \in n + 1 .. Len(events) + Len(es)
        BY <1>3, <2>2
      <4> QED
        BY <1>4, <1>5, <3>1, <4>1
    <3> QED
      BY <2>9, <3>2 DEF Turns
  <2>12. CASE x.closed = v.closed /\ ClosedAfter(v.closed, FALSE, Turns(1 .. n))
    <3>1. ClosedAfter(x.closed, FALSE, T)'
      BY <2>7, <2>8, <2>12 DEF ClosedAfter
    <3> QED
      BY <2>9, <3>1
  <2> QED
    BY <2>5, <2>6, <2>10, <2>11, <2>12
<1>9. ShowsInv'
  BY <1>8 DEF ShowsInv
<1>10. WidgetInv'
  <2>1. known' \in [VotingClients -> 0 .. Len(events')]
    <3>1. 0 .. Len(events) \subseteq 0 .. Len(events')
      BY <1>3, <1>4
    <3> QED
      BY <1>1, <3>1 DEF WidgetInv
  <2>2. \A d \in VotingClients : \A b \in view'[d].votes : b.choice # "redacted"
    BY <1>1 DEF WidgetInv
  <2>3. voting!VoteChoices' = voting!VoteChoices
    BY DEF voting!VoteChoices
  <2>4. WidgetView' = WidgetView /\ WidgetEvent' = WidgetEvent /\ WidgetDraft' = WidgetDraft
    BY <2>3 DEF WidgetView, WidgetEvent, WidgetDraft, Ballot
  <2>5. Len(events') <= MaxEvents
    BY <1>2, <1>4
  <2> QED
    BY <1>1, <1>4, <2>1, <2>2, <2>4, <2>5 DEF WidgetInv
<1> QED
  BY <1>9, <1>10 DEF VotingInv

LEMMA PlainEvent ==
  ASSUME NEW type \in {"close", "open", "pick", "edit"}
  PROVE  voting!Event(type, Creator) \in WidgetEvent /\ voting!Event(type, Creator).type = type
<1>1. -1 \in -1 .. MaxIds /\ Creator \in VotingClients
  BY VotingAssumption
<1> QED
  BY <1>1, EmptyOptions DEF voting!Event, WidgetEvent

\* Somebody votes.
LEMMA VoteStep ==
  ASSUME VotingInv, NEW c \in VotingClients, NEW o \in 0 .. MaxIds, NEW choice \in voting!VoteChoices, voting!Vote(c, o, choice)
  PROVE  VotingInv'
<1> DEFINE e == [voting!Event("vote", c) EXCEPT !.option = o, !.choice = IF voting!HasVoted(c, o, choice) THEN "redacted" ELSE choice]
<1>1. view[c].on /\ voting!Send(<<e>>) /\ UNCHANGED <<kind, original, view, known, draft>>
  BY DEF voting!Vote
<1>2. WidgetInv
  BY DEF VotingInv
<1>3. e \in WidgetEvent
  <2>1. "redacted" \in voting!VoteChoices
    BY DEF voting!VoteChoices
  <2>2. o # -1 /\ o \in -1 .. MaxIds
    BY VotingAssumption
  <2> QED
    BY <2>1, <2>2, EmptyOptions DEF voting!Event, WidgetEvent
<1> HIDE DEF e
<1>4. PICK es : es = <<e>>
  OBVIOUS
<1>5. es \in Seq(WidgetEvent) /\ voting!Send(es)
  BY <1>1, <1>3, <1>4
<1>6. original # <<>> /\ draft \in WidgetDraft /\ (draft.open => draft.edit) /\ view \in [VotingClients -> WidgetView]
  BY <1>1, <1>2 DEF WidgetInv
<1> QED
  BY <1>1, <1>5, <1>6, SentStep

\* The creator closes or opens the widget, or picks a date.
LEMMA CloseStep ==
  ASSUME VotingInv, voting!CloseWidget \/ voting!ReopenWidget \/ \E o \in 0 .. MaxIds : voting!PickDate(o)
  PROVE  VotingInv'
<1>1. WidgetInv /\ Creator \in VotingClients /\ -1 \in -1 .. MaxIds
  BY VotingAssumption DEF VotingInv
<1>2. view[Creator].on => original # <<>> /\ draft \in WidgetDraft /\ (draft.open => draft.edit)
  BY <1>1 DEF WidgetInv
<1>3. view \in [VotingClients -> WidgetView] /\ view[Creator] \in WidgetView
  BY <1>1 DEF WidgetInv
<1>4. CASE voting!CloseWidget
  <2>1. PICK es : es = <<voting!Event("close", Creator)>>
    OBVIOUS
  <2>2. /\ view[Creator].on /\ voting!Send(es) /\ UNCHANGED <<kind, original, known, draft>>
        /\ view' = [view EXCEPT ![Creator].closed = TRUE, ![Creator].picked = -1, ![Creator].show = @ \/ kind = "scheduler"]
    BY <1>4, <2>1 DEF voting!CloseWidget
  <2>3. es \in Seq(WidgetEvent) /\ Len(es) = 1 /\ es[1].type = "close"
    BY <2>1, PlainEvent
  <2>4. PICK x : x = [view[Creator] EXCEPT !.closed = TRUE, !.picked = -1, !.show = @ \/ kind = "scheduler"]
    OBVIOUS
  <2>5. view' = [view EXCEPT ![Creator] = x]
    BY <2>2, <2>4
  <2>6. x \in WidgetView /\ x.on = view[Creator].on /\ x.options = view[Creator].options /\ x.votes = view[Creator].votes
    BY <1>1, <1>3, <2>4 DEF WidgetView
  <2>7. /\ view' \in [VotingClients -> WidgetView]
        /\ \A c \in VotingClients :
             /\ view'[c].on = view[c].on /\ view'[c].options = view[c].options /\ view'[c].votes = view[c].votes
             /\ view'[c].closed = view[c].closed \/ \E j \in 1 .. Len(es) : es[j].type \in {"close", "open"}
    BY <1>1, <1>3, <2>3, <2>5, <2>6
  <2> QED
    BY <1>2, <2>2, <2>3, <2>7, SentStep
<1>5. CASE voting!ReopenWidget
  <2>1. PICK es : es = <<voting!Event("open", Creator), voting!Event("pick", Creator)>>
    OBVIOUS
  <2>2. /\ view[Creator].on /\ voting!Send(es) /\ UNCHANGED <<kind, original, known, draft>>
        /\ view' = [view EXCEPT ![Creator].closed = FALSE, ![Creator].picked = -1]
    BY <1>5, <2>1 DEF voting!ReopenWidget
  <2>3. es \in Seq(WidgetEvent) /\ Len(es) = 2 /\ es[1].type = "open"
    BY <2>1, PlainEvent
  <2>4. PICK x : x = [view[Creator] EXCEPT !.closed = FALSE, !.picked = -1]
    OBVIOUS
  <2>5. view' = [view EXCEPT ![Creator] = x]
    BY <2>2, <2>4
  <2>6. x \in WidgetView /\ x.on = view[Creator].on /\ x.options = view[Creator].options /\ x.votes = view[Creator].votes
    BY <1>1, <1>3, <2>4 DEF WidgetView
  <2>7. /\ view' \in [VotingClients -> WidgetView]
        /\ \A c \in VotingClients :
             /\ view'[c].on = view[c].on /\ view'[c].options = view[c].options /\ view'[c].votes = view[c].votes
             /\ view'[c].closed = view[c].closed \/ \E j \in 1 .. Len(es) : es[j].type \in {"close", "open"}
    BY <1>1, <1>3, <2>3, <2>5, <2>6
  <2> QED
    BY <1>2, <2>2, <2>3, <2>7, SentStep
<1>6. ASSUME NEW o \in 0 .. MaxIds, voting!PickDate(o) PROVE VotingInv'
  <2>0. o \in -1 .. MaxIds
    BY <1>6, VotingAssumption
  <2>1. PICK es : es = <<[voting!Event("pick", Creator) EXCEPT !.option = o]>>
    OBVIOUS
  <2>2. /\ view[Creator].on /\ voting!Send(es) /\ UNCHANGED <<kind, original, known, draft>>
        /\ view' = [view EXCEPT ![Creator].picked = o, ![Creator].show = FALSE]
    BY <1>6, <2>1 DEF voting!PickDate
  <2>3. es \in Seq(WidgetEvent)
    <3>1. [voting!Event("pick", Creator) EXCEPT !.option = o] \in WidgetEvent
      BY <1>1, <2>0, EmptyOptions DEF voting!Event, WidgetEvent
    <3> QED
      BY <2>1, <3>1
  <2>4. PICK x : x = [view[Creator] EXCEPT !.picked = o, !.show = FALSE]
    OBVIOUS
  <2>5. view' = [view EXCEPT ![Creator] = x]
    BY <2>2, <2>4
  <2>6. /\ x \in WidgetView /\ x.on = view[Creator].on /\ x.options = view[Creator].options
        /\ x.votes = view[Creator].votes /\ x.closed = view[Creator].closed
    BY <1>1, <1>3, <2>0, <2>4 DEF WidgetView
  <2>7. /\ view' \in [VotingClients -> WidgetView]
        /\ \A c \in VotingClients :
             /\ view'[c].on = view[c].on /\ view'[c].options = view[c].options /\ view'[c].votes = view[c].votes
             /\ view'[c].closed = view[c].closed
    BY <1>1, <1>3, <2>5, <2>6
  <2> QED
    BY <1>2, <2>2, <2>3, <2>7, SentStep
<1> QED
  BY <1>4, <1>5, <1>6

\* What the creator makes of the options.
LEMMA DraftsFacts ==
  ASSUME NEW d \in WidgetDraft, NEW x \in voting!Drafts(d)
  PROVE  x \in WidgetDraft /\ x.edit = d.edit
<1>1. ASSUME NEW y \in WidgetDraft, NEW z \in voting!Changed(y) PROVE z \in WidgetDraft /\ z.edit = y.edit
  <2>1. CASE z \in voting!Filled(y)
    <3>1. PICK t \in Titles : z = [y EXCEPT !.options = Append(@, [id |-> y.next, title |-> t]), !.next = @ + 1] /\ y.next <= MaxIds
      BY <2>1 DEF voting!Filled
    <3>2. MaxIds \in Nat /\ y.next \in 0 .. MaxIds + 1 /\ y.options \in Seq(voting!Options)
      BY VotingAssumption DEF WidgetDraft
    <3>3. y.next \in 0 .. MaxIds /\ y.next + 1 \in 0 .. MaxIds + 1
      BY <3>1, <3>2
    <3>4. Append(y.options, [id |-> y.next, title |-> t]) \in Seq(voting!Options)
      <4>1. [id |-> y.next, title |-> t] \in voting!Options
        BY <3>3 DEF voting!Options
      <4> QED
        BY <3>2, <4>1, AppendProperties
    <3> QED
      BY <3>1, <3>3, <3>4 DEF WidgetDraft
  <2>2. CASE z \in voting!Removed(y)
    <3>1. PICK n \in DOMAIN y.options : z = [y EXCEPT !.options = voting!RemoveAt(@, n)]
      BY <2>2 DEF voting!Removed
    <3>2. PICK s : s = y.options
      OBVIOUS
    <3>3. s \in Seq(voting!Options) /\ n \in 1 .. Len(s)
      BY <3>1, <3>2, LenProperties DEF WidgetDraft
    <3>4. voting!RemoveAt(s, n) \in Seq(voting!Options)
      <4>1. uploads!RemoveAt(s, n) \in Seq(voting!Options)
        BY <3>3, RemoveAtFacts
      <4>2. uploads!RemoveAt(s, n) = voting!RemoveAt(s, n)
        BY DEF uploads!RemoveAt, voting!RemoveAt
      <4> QED
        BY <4>1, <4>2
    <3> QED
      BY <3>1, <3>2, <3>4 DEF WidgetDraft
  <2> QED
    BY <2>1, <2>2 DEF voting!Changed
<1> QED
  BY <1>1 DEF voting!Drafts

\* The creator edits the options, and sends or discards what he made.
LEMMA DraftStep ==
  ASSUME VotingInv, voting!EditWidget \/ voting!CloseDraft \/ voting!SubmitWidget
  PROVE  VotingInv'
<1>1. WidgetInv /\ ShowsInv /\ Creator \in VotingClients /\ MaxIds \in Nat
  BY VotingAssumption DEF VotingInv
<1>2. ASSUME UNCHANGED <<kind, original, events, view, known>>, draft' \in WidgetDraft,
             draft'.open => (draft'.edit <=> original # <<>>)
      PROVE  VotingInv'
  <2>1. voting!VoteChoices' = voting!VoteChoices
    BY <1>2 DEF voting!VoteChoices
  <2>2. WidgetView' = WidgetView /\ WidgetEvent' = WidgetEvent /\ WidgetDraft' = WidgetDraft
    BY <2>1 DEF WidgetView, WidgetEvent, WidgetDraft, Ballot
  <2>3. WidgetInv'
    BY <1>1, <1>2, <2>2 DEF WidgetInv
  <2>4. ShowsInv'
    BY <1>1, <1>2 DEF ShowsInv, Shows, OptionsAfter, ClosedAfter, Edits, Turns
  <2> QED
    BY <2>3, <2>4 DEF VotingInv
<1>3. CASE voting!EditWidget
  <2>1. PICK o : o = view[Creator].options
    OBVIOUS
  <2>2. /\ view[Creator].on /\ draft' = [open |-> TRUE, edit |-> TRUE, options |-> o, next |-> voting!NextId(o)]
        /\ UNCHANGED <<kind, original, events, view, known>>
    BY <1>3, <2>1 DEF voting!EditWidget
  <2>3. original # <<>> /\ o \in Seq(voting!Options)
    BY <1>1, <2>1, <2>2 DEF WidgetInv, WidgetView
  <2>4. voting!NextId(o) \in 0 .. MaxIds + 1
    <3>1. CASE o = <<>>
      BY <1>1, <3>1 DEF voting!NextId
    <3>2. CASE o # <<>>
      <4> DEFINE top == CHOOSE i \in voting!Ids(o) : \A j \in voting!Ids(o) : j <= i
                 S == {i + 1 : i \in voting!Ids(o)}
      <4>1. Len(o) \in Nat /\ DOMAIN o = 1 .. Len(o) /\ \A n \in 1 .. Len(o) : o[n] \in voting!Options
        BY <2>3, LenProperties, ElementOfSeq
      <4>2. Len(o) # 0
        BY <2>3, <3>2, EmptySeq
      <4>3. 1 \in DOMAIN o
        BY <4>1, <4>2
      <4>4. S \in SUBSET (1 .. MaxIds + 1) /\ S # {} /\ \A i \in voting!Ids(o) : i \in 0 .. MaxIds
        BY <1>1, <4>1, <4>3 DEF voting!Ids, voting!Options
      <4>5. PICK b \in S : \A x \in S : x <= b
        <5> HIDE DEF S
        <5>1. MaxIds + 1 \in Nat
          BY <1>1
        <5> QED
          BY <4>4, <5>1, LastIn
      <4>6. PICK i \in voting!Ids(o) : b = i + 1
        OBVIOUS
      <4>7. \A j \in voting!Ids(o) : j <= i
        <5> SUFFICES ASSUME NEW j \in voting!Ids(o) PROVE j <= i
          OBVIOUS
        <5>1. j \in 0 .. MaxIds /\ i \in 0 .. MaxIds
          BY <4>4
        <5>2. j + 1 <= b
          BY <4>5
        <5> QED
          BY <1>1, <4>6, <5>1, <5>2
      <4>8. top \in voting!Ids(o)
        BY <4>7
      <4>9. voting!NextId(o) = 1 + top
        BY <3>2 DEF voting!NextId
      <4> HIDE DEF top
      <4> QED
        BY <1>1, <4>4, <4>8, <4>9
    <3> QED
      BY <3>1, <3>2
  <2>5. draft' \in WidgetDraft /\ draft'.edit
    BY <2>2, <2>3, <2>4 DEF WidgetDraft
  <2> QED
    BY <1>2, <2>2, <2>3, <2>5
<1>4. CASE voting!CloseDraft
  BY <1>2, <1>4, FreshFacts DEF voting!CloseDraft
<1>5. CASE voting!SubmitWidget
  <2>1. PICK d \in voting!Drafts(draft) :
          /\ voting!CanSend(d)
          /\ IF draft.edit
             THEN voting!Send(<<[voting!Event("edit", Creator) EXCEPT !.options = d.options]>>) /\ UNCHANGED original
             ELSE original' = d.options /\ UNCHANGED events
    BY <1>5 DEF voting!SubmitWidget
  <2>2. draft.open /\ draft' = voting!NoDraft /\ UNCHANGED <<kind, view, known>>
    BY <1>5 DEF voting!SubmitWidget
  <2>3. d \in WidgetDraft /\ d.options \in Seq(voting!Options)
    BY <1>1, DraftsFacts DEF WidgetInv, WidgetDraft
  <2>4. draft' \in WidgetDraft /\ ~draft'.open
    BY <2>2, FreshFacts
  <2>5. CASE draft.edit
    <3>1. PICK e : e = [voting!Event("edit", Creator) EXCEPT !.options = d.options]
      OBVIOUS
    <3>2. e \in WidgetEvent
      <4>1. -1 \in -1 .. MaxIds
        BY <1>1
      <4> QED
        BY <1>1, <2>3, <3>1, <4>1 DEF voting!Event, WidgetEvent
    <3>3. PICK es : es = <<e>>
      OBVIOUS
    <3>4. es \in Seq(WidgetEvent) /\ voting!Send(es) /\ original' = original
      BY <2>1, <2>5, <3>1, <3>2, <3>3
    <3>5. original # <<>> /\ view \in [VotingClients -> WidgetView]
      BY <1>1, <2>2, <2>5 DEF WidgetInv
    <3> QED
      BY <2>2, <2>4, <3>4, <3>5, SentStep
  <2>6. CASE ~draft.edit
    <3>1. original = <<>> /\ events = <<>> /\ \A c \in VotingClients : ~view[c].on
      BY <1>1, <2>2, <2>6 DEF WidgetInv
    <3>2. original' \in Seq(voting!Options) /\ events' = events /\ original' # <<>>
      <4>1. Len(d.options) >= 2
        BY <2>1 DEF voting!CanSend
      <4>2. d.options # <<>>
        BY <4>1, EmptyOptions
      <4> QED
        BY <2>1, <2>3, <2>6, <4>2
    <3>3. voting!VoteChoices' = voting!VoteChoices
      BY <2>2 DEF voting!VoteChoices
    <3>4. WidgetView' = WidgetView /\ WidgetEvent' = WidgetEvent /\ WidgetDraft' = WidgetDraft
      BY <3>3 DEF WidgetView, WidgetEvent, WidgetDraft, Ballot
    <3>5. WidgetInv'
      BY <1>1, <2>2, <2>4, <3>2, <3>4 DEF WidgetInv
    <3>6. ShowsInv'
      BY <2>2, <3>1 DEF ShowsInv, Shows
    <3> QED
      BY <3>5, <3>6 DEF VotingInv
  <2> QED
    BY <2>5, <2>6
<1> QED
  BY <1>3, <1>4, <1>5

\* A widget comes into view, scrolls away, or hears of something.
LEMMA WidgetStep ==
  ASSUME VotingInv, NEW c \in VotingClients,
         voting!MountWidget(c) \/ voting!UnmountWidget(c) \/ voting!CollectNewVotes(c)
  PROVE  VotingInv'
<1>1. WidgetInv /\ ShowsInv
  BY DEF VotingInv
<1>2. known[c] \in 0 .. Len(events) /\ view[c] \in WidgetView /\ Len(events) \in Nat
  BY <1>1, LenProperties DEF WidgetInv
<1>3. CASE voting!MountWidget(c)
  <2>1. PICK k \in known[c] .. Len(events) :
          /\ known' = [known EXCEPT ![c] = k]
          /\ view' = [view EXCEPT ![c] = voting!Collected(voting!Fresh(original), voting!RelatedEvents(k, 0))]
    BY <1>3 DEF voting!MountWidget
  <2>2. original # <<>> /\ UNCHANGED <<kind, original, events, draft>>
    BY <1>3 DEF voting!MountWidget
  <2>3. PICK v : v = voting!Fresh(original)
    OBVIOUS
  <2>4. v \in WidgetView /\ v.on /\ v.options = original /\ v.closed = FALSE
    BY <1>1, <2>3, FreshFacts DEF WidgetInv
  <2>5. PICK n : n = 0
    OBVIOUS
  <2>6. n \in 0 .. k /\ Edits(1 .. n) = {} /\ Turns(1 .. n) = {}
    BY <1>2, <2>1, <2>5 DEF Edits, Turns
  <2>7. OptionsAfter(v.options, original, Edits(1 .. n)) /\ ClosedAfter(v.closed, FALSE, Turns(1 .. n))
    BY <2>4, <2>6 DEF OptionsAfter, ClosedAfter
  <2>8. view' = [view EXCEPT ![c] = voting!Collected(v, voting!RelatedEvents(k, n))]
    BY <2>1, <2>3, <2>5
  <2> QED
    BY <2>1, <2>2, <2>4, <2>6, <2>7, <2>8, CollectStep
<1>4. CASE voting!CollectNewVotes(c)
  <2>1. PICK k \in known[c] + 1 .. Len(events) :
          /\ known' = [known EXCEPT ![c] = k]
          /\ view' = [view EXCEPT ![c] = voting!Collected(@, voting!RelatedEvents(k, known[c]))]
    BY <1>4 DEF voting!CollectNewVotes
  <2>2. view[c].on /\ UNCHANGED <<kind, original, events, draft>>
    BY <1>4 DEF voting!CollectNewVotes
  <2>3. PICK v, n : v = view[c] /\ n = known[c]
    OBVIOUS
  <2>4. v \in WidgetView /\ v.on /\ original # <<>> /\ n \in 0 .. k /\ k \in known[c] .. Len(events)
    BY <1>1, <1>2, <2>1, <2>2, <2>3 DEF WidgetInv
  <2>5. OptionsAfter(v.options, original, Edits(1 .. n)) /\ (ClosedAfter(v.closed, FALSE, Turns(1 .. n)) \/ Turns(n + 1 .. Len(events)) # {})
    BY <1>1, <2>3, <2>4 DEF ShowsInv, Shows
  <2>6. view' = [view EXCEPT ![c] = voting!Collected(v, voting!RelatedEvents(k, n))]
    BY <2>1, <2>3
  <2> QED
    BY <2>1, <2>2, <2>4, <2>5, <2>6, CollectStep
<1>5. CASE voting!UnmountWidget(c)
  <2>1. view' = [view EXCEPT ![c] = voting!NoView] /\ UNCHANGED <<kind, original, events, known, draft>>
    BY <1>5 DEF voting!UnmountWidget
  <2>2. /\ view' \in [VotingClients -> WidgetView] /\ view'[c] = voting!NoView
        /\ \A d \in VotingClients \ {c} : view'[d] = view[d]
    BY <1>1, <2>1, FreshFacts DEF WidgetInv
  <2>3. voting!VoteChoices' = voting!VoteChoices
    BY <2>1 DEF voting!VoteChoices
  <2>4. WidgetView' = WidgetView /\ WidgetEvent' = WidgetEvent /\ WidgetDraft' = WidgetDraft
    BY <2>3 DEF WidgetView, WidgetEvent, WidgetDraft, Ballot
  <2>5. \A d \in VotingClients : (\A b \in view'[d].votes : b.choice # "redacted") /\ (~view[d].on => ~view'[d].on)
    BY <1>1, <2>2, FreshFacts DEF WidgetInv
  <2>6. WidgetInv'
    BY <1>1, <2>1, <2>2, <2>4, <2>5 DEF WidgetInv
  <2>7. ASSUME NEW d \in VotingClients PROVE Shows(view[d], known[d])'
    <3>1. PICK x, n : x = view'[d] /\ n = known[d]
      OBVIOUS
    <3>2. Shows(x, n)
      <4>1. CASE d = c
        BY <2>2, <3>1, <4>1, FreshFacts DEF Shows
      <4>2. CASE d # c
        BY <1>1, <2>2, <3>1, <4>2 DEF ShowsInv
      <4> QED
        BY <4>1, <4>2
    <3>3. Shows(x, n)'
      BY <2>1, <3>2 DEF Shows, OptionsAfter, ClosedAfter, Edits, Turns
    <3>4. x = view'[d] /\ n = known'[d]
      BY <2>1, <3>1
    <3> QED
      BY <3>3, <3>4
  <2> QED
    BY <2>6, <2>7 DEF VotingInv, ShowsInv
<1> QED
  BY <1>3, <1>4, <1>5

LEMMA VotingStep == VotingInv /\ (voting!VotingNext \/ UNCHANGED votingVars) => VotingInv'
<1> SUFFICES ASSUME VotingInv, voting!VotingNext \/ UNCHANGED votingVars PROVE VotingInv'
  OBVIOUS
<1>1. CASE UNCHANGED votingVars
  <2>1. UNCHANGED <<kind, original, events, view, known, draft>>
    BY <1>1 DEF votingVars
  <2>2. voting!VoteChoices' = voting!VoteChoices
    BY <2>1 DEF voting!VoteChoices
  <2>3. WidgetView' = WidgetView /\ WidgetEvent' = WidgetEvent /\ WidgetDraft' = WidgetDraft
    BY <2>2 DEF WidgetView, WidgetEvent, WidgetDraft, Ballot
  <2>4. WidgetInv'
    BY <2>1, <2>3 DEF VotingInv, WidgetInv
  <2>5. ShowsInv'
    BY <2>1 DEF VotingInv, ShowsInv, Shows, OptionsAfter, ClosedAfter, Edits, Turns
  <2> QED
    BY <2>4, <2>5 DEF VotingInv
<1>2. CASE voting!VotingNext
  <2>1. CASE \E c \in VotingClients : voting!MountWidget(c) \/ voting!UnmountWidget(c) \/ voting!CollectNewVotes(c)
    BY <2>1, WidgetStep
  <2>2. CASE \E c \in VotingClients : \E o \in 0 .. MaxIds, choice \in voting!VoteChoices : voting!Vote(c, o, choice)
    BY <2>2, VoteStep
  <2>3. CASE voting!CloseWidget \/ voting!ReopenWidget \/ \E o \in 0 .. MaxIds : voting!PickDate(o)
    BY <2>3, CloseStep
  <2>4. CASE voting!EditWidget \/ voting!CloseDraft \/ voting!SubmitWidget
    BY <2>4, DraftStep
  <2> QED
    BY <1>2, <2>1, <2>2, <2>3, <2>4 DEF voting!VotingNext
<1> QED
  BY <1>1, <1>2

\* Clients that have all events agree, since edits and turns have a last one.
LEMMA VotingAgrees == VotingInv => voting!SameWidget /\ voting!VotingTypeOK
<1> SUFFICES ASSUME VotingInv PROVE voting!SameWidget /\ voting!VotingTypeOK
  OBVIOUS
<1>1. WidgetInv /\ ShowsInv
  BY DEF VotingInv
<1>2. Len(events) \in Nat /\ DOMAIN events = 1 .. Len(events) /\ \A i \in 1 .. Len(events) : events[i] \in WidgetEvent
  BY <1>1, LenProperties, ElementOfSeq DEF WidgetInv
<1>3. PICK E, T : E = Edits(1 .. Len(events)) /\ T = Turns(1 .. Len(events))
  OBVIOUS
<1>4. E \in SUBSET (1 .. Len(events)) /\ T \in SUBSET (1 .. Len(events))
  BY <1>3 DEF Edits, Turns
<1>5. ASSUME NEW c \in VotingClients, voting!Abreast(c)
      PROVE  OptionsAfter(view[c].options, original, E) /\ ClosedAfter(view[c].closed, FALSE, T)
  <2>1. PICK v, n : v = view[c] /\ n = known[c]
    OBVIOUS
  <2>2. v.on /\ n = Len(events)
    BY <1>5, <2>1 DEF voting!Abreast
  <2>3. Turns(n + 1 .. Len(events)) = {}
    BY <1>2, <2>2 DEF Turns
  <2>4. OptionsAfter(v.options, original, Edits(1 .. n)) /\ (ClosedAfter(v.closed, FALSE, Turns(1 .. n)) \/ Turns(n + 1 .. Len(events)) # {})
    BY <1>1, <2>1, <2>2 DEF ShowsInv, Shows
  <2> QED
    BY <1>3, <2>1, <2>2, <2>3, <2>4
<1>6. ASSUME NEW c \in VotingClients, NEW d \in VotingClients, voting!Abreast(c), voting!Abreast(d)
      PROVE  view[c].options = view[d].options /\ view[c].closed = view[d].closed
  <2>1. view[c].options = view[d].options
    <3>1. CASE E = {}
      BY <1>5, <1>6, <3>1 DEF OptionsAfter
    <3>2. CASE E # {}
      <4>1. PICK i \in E : \A j \in E : j <= i
        BY <1>2, <1>4, <3>2, LastIn
      <4> QED
        BY <1>5, <1>6, <4>1 DEF OptionsAfter
    <3> QED
      BY <3>1, <3>2
  <2>2. view[c].closed = view[d].closed
    <3>1. CASE T = {}
      BY <1>5, <1>6, <3>1 DEF ClosedAfter
    <3>2. CASE T # {}
      <4>1. PICK i \in T : \A j \in T : j <= i
        BY <1>2, <1>4, <3>2, LastIn
      <4> QED
        BY <1>5, <1>6, <4>1 DEF ClosedAfter
    <3> QED
      BY <3>1, <3>2
  <2> QED
    BY <2>1, <2>2
<1>7. voting!SameWidget
  BY <1>6 DEF voting!SameWidget
<1>8. \A i \in DOMAIN events : events[i].user \in VotingClients /\ events[i].option \in -1 .. MaxIds
  BY <1>2 DEF WidgetEvent
<1>9. \A c \in VotingClients :
        /\ view[c].options \in Seq(voting!Options) /\ view[c].picked \in -1 .. MaxIds
        /\ view[c].votes \subseteq [option : 0 .. MaxIds, choice : voting!VoteChoices \ {"redacted"}, user : VotingClients]
  <2> SUFFICES ASSUME NEW c \in VotingClients
               PROVE  /\ view[c].options \in Seq(voting!Options) /\ view[c].picked \in -1 .. MaxIds
                      /\ view[c].votes \subseteq [option : 0 .. MaxIds, choice : voting!VoteChoices \ {"redacted"}, user : VotingClients]
    OBVIOUS
  <2>1. view[c] \in WidgetView /\ \A b \in view[c].votes : b.choice # "redacted"
    BY <1>1 DEF WidgetInv
  <2>2. \A b \in view[c].votes : b \in Ballot
    BY <2>1 DEF WidgetView
  <2>3. \A b \in view[c].votes : b \in [option : 0 .. MaxIds, choice : voting!VoteChoices \ {"redacted"}, user : VotingClients]
    BY <2>1, <2>2 DEF Ballot
  <2> QED
    BY <2>1, <2>3 DEF WidgetView
<1>10. voting!VotingTypeOK
  BY <1>1, <1>8, <1>9 DEF voting!VotingTypeOK, WidgetInv, WidgetDraft
<1> QED
  BY <1>7, <1>10

\* The same widget for everybody who has heard of everything, however events come
\* in and however often a widget is mounted: the theorem is about SameWidget, for
\* any clients, options and numbers of events.
THEOREM WidgetsAgree == Spec => []SameWidget
<1> DEFINE I == part = "voting" => VotingInv
<1>1. Init => I
  BY Parts, VotingStart
<1>2. I /\ [Next]_vars => I'
  BY Parts, VotingStep
<1>3. I => SameWidget
  BY VotingAgrees DEF SameWidget
<1> QED
  BY <1>1, <1>2, <1>3, PTL DEF Spec

-----------------------------------------------------------------------------
(* Types of searches.  No two that are under way have one number.            *)

SearchTypes ==
  /\ search!SearchTypeOK
  /\ \A r \in searchRuns : r.by <= searches

FoundType ==
  [by : 0 .. MaxSearches, term : Terms \cup {search!NoTerm}, batches : 0 .. MaxBatches,
   whole : BOOLEAN]

\* What a bound of this run is.
LEMMA Bounds ==
  /\ MaxMessages \in Nat /\ MaxFetches \in Nat /\ MaxClock \in Nat /\ MaxPosts \in Nat
  /\ MaxReports \in Nat /\ MaxTyped \in Nat /\ MaxActs \in Nat /\ MaxFiles \in Nat
  /\ MaxRetries \in Nat /\ MaxSearches \in Nat /\ MaxBatches \in Nat
BY BoundsAssumption

LEMMA FoundFacts ==
  ASSUME NEW b \in 0 .. MaxSearches, NEW t \in Terms \cup {search!NoTerm},
         NEW n \in 0 .. MaxBatches, NEW w \in BOOLEAN
  PROVE  [by |-> b, term |-> t, batches |-> n, whole |-> w] \in FoundType
BY DEF FoundType

LEMMA NothingFacts == search!NoResults \in FoundType
<1>1. 0 \in 0 .. MaxSearches /\ 0 \in 0 .. MaxBatches
  BY Bounds
<1> QED
  BY <1>1, FoundFacts DEF search!NoResults

LEMMA SearchTypesStart == search!SearchInit => SearchTypes
<1> SUFFICES ASSUME search!SearchInit PROVE SearchTypes
  OBVIOUS
<1>1. searchResults \in FoundType /\ searches \in 0 .. MaxSearches
  BY NothingFacts, Bounds DEF search!SearchInit
<1> QED
  BY <1>1 DEF search!SearchInit, SearchTypes, search!SearchTypeOK, FoundType

\* What opens, closes, types or moves leaves the searches that are under way.
LEMMA SearchTypesMove ==
  ASSUME SearchTypes,
         \/ search!OpenTab \/ search!CloseTab \/ search!ClearSearch
         \/ \E t \in Terms : search!Type(t)
         \/ \E r \in SearchRooms : search!GoTo(r)
  PROVE  SearchTypes'
<1>2. UNCHANGED <<searchRuns, failed, searches>>
  BY DEF search!OpenTab, search!CloseTab, search!ClearSearch, search!Type, search!GoTo
<1>1. room' \in SearchRooms /\ searchTerm' \in Terms \cup {search!NoTerm}
  BY DEF SearchTypes, search!SearchTypeOK, search!OpenTab, search!CloseTab,
         search!ClearSearch, search!Type, search!GoTo, search!StateCleared, search!Cleared,
         search!sharedVars
<1>3. searched' \in BOOLEAN /\ isSearching' \in BOOLEAN /\ moreBatches' \in BOOLEAN
  BY DEF SearchTypes, search!SearchTypeOK, search!OpenTab, search!CloseTab,
         search!ClearSearch, search!Type, search!GoTo, search!StateCleared, search!Cleared,
         search!sharedVars
<1>5. mount' \in Nat
  <2>1. mount \in Nat /\ mount' \in {mount, mount + 1}
    BY DEF SearchTypes, search!SearchTypeOK, search!OpenTab, search!CloseTab,
           search!ClearSearch, search!Type, search!GoTo, search!sharedVars
  <2> QED
    BY <2>1
<1>4. searchResults' \in {searchResults, search!NoResults}
  BY DEF search!OpenTab, search!CloseTab, search!ClearSearch, search!Type, search!GoTo,
         search!StateCleared, search!Cleared, search!sharedVars
<1> QED
  BY <1>1, <1>2, <1>3, <1>4, <1>5, NothingFacts
     DEF SearchTypes, search!SearchTypeOK, search!Run, FoundType

LEMMA SearchTypesBegin ==
  ASSUME SearchTypes, search!Begin
  PROVE  SearchTypes'
<1> DEFINE n == [by |-> searches', room |-> room, mount |-> mount, batches |-> 0]
<1>1. /\ searches \in 0 .. MaxSearches /\ searches' = searches + 1 /\ searches' <= MaxSearches
      /\ searches' \in 1 .. MaxSearches /\ searches' \in 0 .. MaxSearches
  BY Bounds DEF SearchTypes, search!SearchTypeOK, search!Begin
<1>2. searchRuns' = searchRuns \cup {n} /\ n \in search!Run /\ n.by = searches'
  BY <1>1, Bounds DEF SearchTypes, search!SearchTypeOK, search!Begin, search!Run
<1>3. searchResults' \in FoundType
  <2>1. searchTerm \in Terms \cup {search!NoTerm} /\ 0 \in 0 .. MaxBatches
    BY Bounds DEF SearchTypes, search!SearchTypeOK
  <2>2. [by |-> searches', term |-> searchTerm, batches |-> 0, whole |-> FALSE] \in FoundType
    BY <1>1, <2>1, FoundFacts
  <2> QED
    BY <2>2, NothingFacts DEF search!Begin
<1>4. \A r \in searchRuns : r.by \in Nat /\ r.by <= searches
  BY DEF SearchTypes, search!SearchTypeOK, search!Run
<1> HIDE DEF n
<1>5. \A r \in searchRuns' : r.by <= searches'
  BY <1>1, <1>2, <1>4
<1>6. \A q, r \in searchRuns' : q.by = r.by => q = r
  <2>1. \A q \in searchRuns : q.by # n.by
    BY <1>1, <1>2, <1>4
  <2>2. \A q, r \in searchRuns : q.by = r.by => q = r
    BY DEF SearchTypes, search!SearchTypeOK
  <2> QED
    BY <1>2, <2>1, <2>2
<1> QED
  BY <1>1, <1>2, <1>3, <1>5, <1>6 DEF SearchTypes, search!SearchTypeOK, search!Begin, FoundType

LEMMA SearchTypesRun ==
  ASSUME SearchTypes, NEW r \in searchRuns,
         \/ \E next \in BOOLEAN : search!Batch(r, next)
         \/ search!NothingFound(r) \/ search!Fails(r)
  PROVE  SearchTypes'
<1>1. /\ searches \in 0 .. MaxSearches /\ UNCHANGED <<searches, room, mount, searchTerm, searched>>
      /\ failed' \in {failed, failed \cup {r.by}}
  BY DEF SearchTypes, search!SearchTypeOK, search!Batch, search!NothingFound, search!Fails
<1>2. /\ r \in search!Run /\ r.by <= searches /\ r.by \in 1 .. MaxSearches
      /\ r.by \in 0 .. MaxSearches /\ r.batches \in 0 .. MaxBatches
  BY Bounds DEF SearchTypes, search!SearchTypeOK, search!Run
<1>3. isSearching' \in BOOLEAN /\ moreBatches' \in BOOLEAN
  BY DEF SearchTypes, search!SearchTypeOK, search!Batch, search!NothingFound, search!Fails,
         search!Tells
<1>4. searchResults' \in FoundType
  <2>1. CASE \E next \in BOOLEAN : search!Batch(r, next)
    <3>1. PICK next \in BOOLEAN : search!Batch(r, next)
      BY <2>1
    <3>2. r.batches < MaxBatches
      BY <3>1 DEF search!Batch
    <3>4. r.batches + 1 \in 0 .. MaxBatches
      BY <1>2, <3>2, Bounds
    <3>5. (~next) \in BOOLEAN
      OBVIOUS
    <3>3. searchTerm \in Terms \cup {search!NoTerm}
      BY DEF SearchTypes, search!SearchTypeOK
    <3> QED
      BY <1>2, <3>1, <3>3, <3>4, <3>5, FoundFacts DEF search!Batch
  <2>2. searchResults \in FoundType
    BY DEF SearchTypes, search!SearchTypeOK, FoundType
  <2> QED
    BY <2>1, <2>2, NothingFacts DEF search!NothingFound, search!Fails
<1>5. searchRuns' = searchRuns \ {r}
      \/ \E s \in search!Run : s.by = r.by /\ searchRuns' = (searchRuns \ {r}) \cup {s}
  <2>1. CASE \E next \in BOOLEAN : search!Batch(r, next)
    <3> DEFINE s == [r EXCEPT !.batches = @ + 1]
    <3>1. r.batches < MaxBatches /\ searchRuns' \in {searchRuns \ {r}, (searchRuns \ {r}) \cup {s}}
      BY <2>1 DEF search!Batch
    <3>2. s \in search!Run /\ s.by = r.by
      BY <1>2, <3>1, Bounds DEF search!Run
    <3> HIDE DEF s
    <3> QED
      BY <3>1, <3>2
  <2> QED
    BY <2>1 DEF search!NothingFound, search!Fails
<1>6. \A q, t \in searchRuns : q.by = t.by => q = t
  BY DEF SearchTypes, search!SearchTypeOK
<1>7. /\ searchRuns' \subseteq search!Run
      /\ \A q, t \in searchRuns' : q.by = t.by => q = t
      /\ \A q \in searchRuns' : q.by <= searches
  BY <1>2, <1>5, <1>6 DEF SearchTypes, search!SearchTypeOK
<1>8. failed' \subseteq 1 .. MaxSearches
  BY <1>1, <1>2 DEF SearchTypes, search!SearchTypeOK
<1> QED
  BY <1>1, <1>3, <1>4, <1>7, <1>8 DEF SearchTypes, search!SearchTypeOK, FoundType

LEMMA SearchTypesStep ==
  ASSUME SearchTypes, search!SearchNext \/ UNCHANGED searchVars
  PROVE  SearchTypes'
<1>1. CASE UNCHANGED searchVars
  BY <1>1 DEF searchVars, SearchTypes, search!SearchTypeOK
<1> QED
  BY <1>1, SearchTypesMove, SearchTypesBegin, SearchTypesRun DEF search!SearchNext

-----------------------------------------------------------------------------
(* Types of roles.  Of each room there is one invitation.                    *)

RolesTypes ==
  /\ RolesInv
  /\ Len(talk) <= MaxMessages /\ roles!Unset <= page
  /\ power \in [RoleRooms -> roles!Roles] /\ roomList \in [RoleRooms -> roles!Roles]
  /\ \A i, j \in invitations : i.room = j.room => i = j
  /\ more \in BOOLEAN /\ loadingMore \in BOOLEAN /\ fetched \in 0 .. MaxFetches

LEMMA RolesTypesStart == roles!RolesInit => RolesTypes
<1> SUFFICES ASSUME roles!RolesInit PROVE RolesTypes
  OBVIOUS
<1>1. Len(talk) = 0 /\ fetched = 0 /\ 0 \in 0 .. MaxFetches
  BY Bounds DEF roles!RolesInit
<1>2. RolesInv
  BY RolesStart
<1>3. power \in [RoleRooms -> roles!Roles] /\ roomList \in [RoleRooms -> roles!Roles]
  BY DEF roles!RolesInit, roles!Roles
<1>4. Len(talk) <= MaxMessages /\ roles!Unset <= page
  BY <1>1, Bounds DEF roles!RolesInit, roles!Unset
<1>5. invitations = {} /\ more = FALSE /\ loadingMore = FALSE
  BY DEF roles!RolesInit
<1> QED
  BY <1>1, <1>2, <1>3, <1>4, <1>5 DEF RolesTypes

\* The conversation and what is asked for, but for the pages that arrive.
LEMMA RolesTypesAsk ==
  ASSUME RolesTypes, RolesInv',
         \/ roles!AskDisclosure
         \/ \E who \in {"user", "admin"} : roles!Disclose(who)
         \/ roles!FetchRoles \/ roles!LoadMore
  PROVE  RolesTypes'
<1>1. UNCHANGED <<power, roomList, invitations>> /\ page' \in {page, -1}
  BY DEF roles!AskDisclosure, roles!Disclose, roles!FetchRoles, roles!LoadMore,
         roles!Unchanged, roles!rolesPage, roles!Unset
<1>2. more' \in BOOLEAN /\ loadingMore' \in BOOLEAN
  BY DEF RolesTypes, roles!AskDisclosure, roles!Disclose, roles!FetchRoles, roles!LoadMore,
         roles!Unchanged, roles!rolesPage
<1>3. fetched' \in 0 .. MaxFetches
  <2>1. fetched' = fetched \/ (fetched < MaxFetches /\ fetched' = fetched + 1)
    BY DEF roles!AskDisclosure, roles!Disclose, roles!FetchRoles, roles!LoadMore
  <2> QED
    BY <2>1, Bounds DEF RolesTypes
<1>4. Len(talk') <= MaxMessages
  <2>1. \/ talk' = talk
        \/ Len(talk) < MaxMessages /\ \E m : talk' = Append(talk, m)
    BY DEF roles!AskDisclosure, roles!Disclose, roles!FetchRoles, roles!LoadMore, roles!Say
  <2>2. talk \in Seq(Said) /\ talk' \in Seq(Said)
    BY DEF RolesTypes, RolesInv, TalkInv
  <2>3. CASE Len(talk) < MaxMessages /\ \E m : talk' = Append(talk, m)
    <3>1. Len(talk') = Len(talk) + 1 /\ Len(talk) \in Nat
      BY <2>2, <2>3, LenProperties
    <3> QED
      BY <2>3, <3>1, Bounds
  <2> QED
    BY <2>1, <2>3 DEF RolesTypes
<1>5. roles!Unset <= page'
  BY <1>1 DEF RolesTypes, roles!Unset
<1> QED
  BY <1>1, <1>2, <1>3, <1>4, <1>5 DEF RolesTypes

\* What is looked at, told by sync, asked or promoted.
LEMMA RolesTypesAct ==
  ASSUME RolesTypes, RolesInv',
         \/ roles!Cancel \/ roles!ConfirmFails \/ roles!AskToConfirm \/ roles!Confirm
         \/ \E r \in RoleRooms : roles!SyncRoomList(r)
         \/ \E e \in entries : roles!SelectRole(e)
  PROVE  RolesTypes'
<1>1. UNCHANGED <<talk, page, invitations, more, loadingMore, fetched>>
  BY DEF roles!Cancel, roles!ConfirmFails, roles!AskToConfirm, roles!Confirm,
         roles!SyncRoomList, roles!SelectRole, roles!rolesPage
<1>2. power' \in [RoleRooms -> roles!Roles] /\ roomList' \in [RoleRooms -> roles!Roles]
  <2>1. \/ /\ power' = power
           /\ \/ roomList' = roomList
              \/ \E r \in RoleRooms : roomList' = [roomList EXCEPT ![r] = power[r]]
        \/ /\ roomList' = roomList
           /\ \E e : \E x \in {"steward", "expert", "user"} : power' = [power EXCEPT ![e.room] = x]
    <3>1. CASE roles!Confirm
      <4>1. PICK e \in roles!SelectedRole :
              IF confirm = "reject" THEN roles!Reject(e) ELSE roles!SetPowerLevel(e, confirm)
        BY <3>1 DEF roles!Confirm
      <4>2. roomList' = roomList
        BY <3>1 DEF roles!Confirm
      <4>3. CASE confirm = "reject"
        BY <4>1, <4>2, <4>3 DEF roles!Reject
      <4>4. CASE confirm # "reject"
        <5>1. confirm \in {"steward", "expert", "user"} /\ power' = [power EXCEPT ![e.room] = confirm]
          BY <4>1, <4>4 DEF roles!SetPowerLevel
        <5> QED
          BY <4>2, <5>1
      <4> QED
        BY <4>3, <4>4
    <3> QED
      BY <3>1 DEF roles!Cancel, roles!ConfirmFails, roles!AskToConfirm, roles!SyncRoomList,
           roles!SelectRole
  <2> QED
    BY <2>1 DEF RolesTypes, roles!Roles
<1> QED
  BY <1>1, <1>2 DEF RolesTypes

\* processDmRoom makes one invitation of a room.
LEMMA OneInvitation ==
  ASSUME NEW C, NEW i \in roles!InvitationsIn(C), NEW j \in roles!InvitationsIn(C),
         i.room = j.room
  PROVE  i = j
<1> DEFINE A(r) == roles!Newest({k \in C : talk[k].kind = "ask" /\ talk[k].room = r /\ ~talk[k].redacted})
           d == roles!DisclosedIn(C)
           F(r) == [room |-> r, purpose |-> talk[A(r)].purpose, ask |-> A(r), disclosed |-> d,
                    condition |-> IF d # 0 THEN "disclosed" ELSE "pending"]
<1>1. roles!InvitationsIn(C) = {F(r) : r \in {q \in RoleRooms : A(q) # 0}}
  BY DEF roles!InvitationsIn
<1>2. \A r : F(r).room = r
  OBVIOUS
<1> HIDE DEF F, A, d
<1>3. PICK r \in {q \in RoleRooms : A(q) # 0} : i = F(r)
  BY <1>1
<1>4. PICK q \in {p \in RoleRooms : A(p) # 0} : j = F(q)
  BY <1>1
<1>5. r = q
  BY <1>2, <1>3, <1>4
<1> QED
  BY <1>3, <1>4, <1>5

\* A page arrives: of each room the newest request in it, if the room has none yet.
LEMMA RolesTypesFetched ==
  ASSUME RolesTypes, RolesInv', NEW f \in fetches, roles!Fetched(f)
  PROVE  RolesTypes'
<1>1. UNCHANGED <<talk, power, roomList, fetched>> /\ loadingMore' \in BOOLEAN
  BY DEF roles!Fetched
<1>2. /\ more' \in BOOLEAN /\ roles!Unset <= page'
      /\ \A i, j \in invitations' : i.room = j.room => i = j
  <2>1. CASE roles!PageArrives(f)
    <3> DEFINE n == IF f.more /\ page # roles!Unset THEN page ELSE Len(talk)
               new == roles!InvitationsIn(roles!Chunk(n))
               all == IF f.more THEN invitations \cup {i \in new : \A j \in invitations : j.room # i.room} ELSE new
    <3>1. /\ more' = (n > PageLength) /\ invitations' = all
          /\ page' = IF n > PageLength THEN n - PageLength ELSE 0
      BY <2>1 DEF roles!PageArrives
    <3>2. n \in Int /\ PageLength \in Nat
      <4>1. talk \in Seq(Said) /\ page \in Int
        BY DEF RolesTypes, RolesInv, TalkInv
      <4>2. Len(talk) \in Int
        BY <4>1, LenProperties
      <4> QED
        BY <4>1, <4>2, TalkAssumption
    <3> HIDE DEF n
    <3>3. \A i, j \in new : i.room = j.room => i = j
      BY OneInvitation
    <3> HIDE DEF new
    <3>4. more' \in BOOLEAN /\ roles!Unset <= page'
      BY <3>1, <3>2 DEF roles!Unset
    <3>5. \A i, j \in all : i.room = j.room => i = j
      BY <3>3 DEF RolesTypes
    <3> QED
      BY <3>1, <3>4, <3>5
  <2>2. CASE roles!PageFails(f)
    BY <2>2 DEF roles!PageFails, RolesTypes
  <2> QED
    BY <2>1, <2>2 DEF roles!Fetched
<1> QED
  BY <1>1, <1>2 DEF RolesTypes

LEMMA RolesTypesAfter ==
  ASSUME RolesTypes, RolesInv', NEW w \in work, roles!AfterAction(w)
  PROVE  RolesTypes'
<1>1. /\ UNCHANGED <<power, roomList, more, loadingMore, fetched>> /\ page' = -1
      /\ invitations' \subseteq invitations
  BY DEF roles!AfterAction, roles!Unset
<1>2. Len(talk') = Len(talk)
  <2>1. DOMAIN talk' = DOMAIN talk
    BY DEF roles!AfterAction
  <2>2. talk \in Seq(Said) /\ talk' \in Seq(Said)
    BY DEF RolesTypes, RolesInv, TalkInv
  <2> QED
    BY <2>1, <2>2, LenProperties
<1> QED
  BY <1>1, <1>2 DEF RolesTypes, roles!Unset

LEMMA RolesTypesStep ==
  ASSUME RolesTypes, roles!RolesNext \/ UNCHANGED rolesVars
  PROVE  RolesTypes'
<1>1. RolesInv'
  BY RolesStep, TalkAssumption DEF RolesTypes
<1>2. CASE UNCHANGED rolesVars
  BY <1>1, <1>2 DEF rolesVars, RolesTypes
<1> QED
  BY <1>1, <1>2, RolesTypesAsk, RolesTypesAct, RolesTypesFetched, RolesTypesAfter
     DEF roles!RolesNext

LEMMA RolesTypesShow == RolesTypes => roles!RolesTypeOK
<1> SUFFICES ASSUME RolesTypes PROVE roles!RolesTypeOK
  OBVIOUS
<1>1. talk \in Seq(Said) /\ Len(talk) \in Nat /\ page \in Int /\ page <= Len(talk)
  BY LenProperties DEF RolesTypes, RolesInv, TalkInv
<1>2. page \in roles!Unset .. MaxMessages
  BY <1>1, Bounds DEF RolesTypes, roles!Unset
<1>3. \A i \in invitations :
        /\ i.room \in RoleRooms /\ i.condition \in roles!Conditions /\ i.ask \in 1 .. Len(talk)
        /\ i.disclosed \in 0 .. Len(talk) /\ (i.disclosed # 0) = (i.condition = "disclosed")
  BY DEF RolesTypes, RolesInv, OfferInv, Right, Invitation, roles!Conditions
<1> QED
  BY <1>2, <1>3 DEF RolesTypes, roles!RolesTypeOK

-----------------------------------------------------------------------------
(* Types of sanctions.  What is sent back whole has the type of what was     *)
(* read, and no session without a room in view has a bar.                    *)

PostOK(q) ==
  /\ q.what \in {"warnings", "timeouts", "ban", "kick", "unban"}
  /\ q.what = "warnings" => q.content \in [Members -> 0 .. MaxClock]
  /\ q.what = "timeouts" => q.content \in [Members -> 0 .. MaxClock + 1]
PostTypes ==
  /\ \A q \in posts : PostOK(q)
  /\ IsFiniteSet(posts) /\ Cardinality(posts) <= made
  /\ clock \in 0 .. MaxClock /\ made \in 0 .. MaxPosts
HubTypes ==
  /\ state \in [SRooms -> sanctions!States] /\ data \in [SRooms -> 0 .. MaxClock]
  /\ sanctionsKnown \in [sanctions!Clients -> [SRooms -> sanctions!States]]
  /\ knownData \in [Sessions -> [SRooms -> 0 .. MaxClock]]
StewardTypes ==
  /\ sanctionsView \in [sanctions!Clients -> SRooms \cup {Nowhere}]
  /\ panel \in [Stewards -> Members \cup {Nowhere}]
  /\ DOMAIN dialog = Stewards
  /\ \A p \in Stewards :
       sanctionsView[p] \in SRooms /\ dialog[p].room \in SRooms \cup {Nowhere}
Bars == {"none", "mounting", "running", "over"}
SessionTypes ==
  /\ agreed \in [Sessions -> 0 .. MaxClock]
  /\ until \in [Sessions -> 0 .. MaxClock + 1] /\ bar \in [Sessions -> Bars]
  /\ DOMAIN accepting = Sessions
  /\ \A s \in Sessions :
       /\ (until[s] = 0) = (bar[s] = "none")
       /\ sanctionsView[s] = Nowhere => bar[s] = "none"
       /\ \A a \in accepting[s] : DOMAIN a = {"warning", "stored"} /\ a.warning.at \in 0 .. MaxClock
SanctionTypes == WarningsInv /\ PostTypes /\ HubTypes /\ StewardTypes /\ SessionTypes

LEMMA ClientsFacts ==
  /\ \A p \in Stewards : p \in sanctions!Clients /\ p \notin Sessions
  /\ \A s \in Sessions : s \in sanctions!Clients /\ s \notin Stewards
BY SanctionsAssumption DEF sanctions!Clients

\* Numbers of a clock.
LEMMA ClockFacts ==
  /\ 0 \in 0 .. MaxClock /\ 0 \in 0 .. MaxClock + 1 /\ 0 .. MaxClock \subseteq 0 .. MaxClock + 1
  /\ \A n \in 0 .. MaxClock : n < MaxClock => n + 1 \in 0 .. MaxClock
BY Bounds

LEMMA StateFacts ==
  ASSUME NEW st \in sanctions!States
  PROVE  /\ st.warnings \in [Members -> 0 .. MaxClock]
         /\ st.timeouts \in [Members -> 0 .. MaxClock + 1]
         /\ st.membership \in [Members -> sanctions!Memberships]
BY DEF sanctions!States

LEMMA ReceivedFacts ==
  ASSUME NEW st \in sanctions!States, NEW q, PostOK(q)
  PROVE  sanctions!Received(q, st) \in sanctions!States
<1>1. CASE q.what = "warnings"
  BY <1>1, StateFacts DEF sanctions!Received, PostOK, sanctions!States
<1>2. CASE q.what = "timeouts"
  BY <1>2, StateFacts DEF sanctions!Received, PostOK, sanctions!States
<1>3. CASE q.what \in {"ban", "kick", "unban"}
  <2>1. \A x \in sanctions!Memberships :
          [st EXCEPT !.membership[q.member] = x] \in sanctions!States
    BY StateFacts DEF sanctions!States
  <2>2. {"ban", "leave", "unbanned"} \subseteq sanctions!Memberships
    BY DEF sanctions!Memberships
  <2> QED
    BY <1>3, <2>1, <2>2 DEF sanctions!Received
<1> QED
  BY <1>1, <1>2, <1>3 DEF PostOK

\* The end of a timeout as a session shows it, and the bar it shows.
LEMMA RecomputeFacts ==
  ASSUME SessionTypes, NEW s \in Sessions, NEW st \in sanctions!States, sanctions!Recompute(s, st)
  PROVE  /\ until' \in [Sessions -> 0 .. MaxClock + 1] /\ bar' \in [Sessions -> Bars]
         /\ \A t \in Sessions : /\ (until'[t] = 0) = (bar'[t] = "none")
                                /\ t # s => bar'[t] = bar[t]
<1>1. PICK u : u = sanctions!ActiveTimeout(st, SanctionsMe)
  OBVIOUS
<1>2. u \in 0 .. MaxClock + 1
  BY <1>1, SanctionsAssumption, StateFacts, ClockFacts DEF sanctions!ActiveTimeout
<1>3. PICK b : b = IF u = 0 THEN "none" ELSE IF bar[s] = "none" THEN "mounting" ELSE IF bar[s] = "over" THEN "running" ELSE bar[s]
  OBVIOUS
<1>4. b \in Bars /\ (u = 0) = (b = "none")
  BY <1>3 DEF SessionTypes, Bars
<1>5. until' = [until EXCEPT ![s] = u] /\ bar' = [bar EXCEPT ![s] = b]
  BY <1>1, <1>3 DEF sanctions!Recompute, SessionTypes
<1> QED
  BY <1>2, <1>4, <1>5 DEF SessionTypes

LEMMA SanctionTypesStart == sanctions!SanctionInit => SanctionTypes
<1> SUFFICES ASSUME sanctions!SanctionInit PROVE SanctionTypes
  OBVIOUS
<1>1. PostTypes
  <2>1. posts = {} /\ clock = 0 /\ made = 0
    BY DEF sanctions!SanctionInit
  <2>2. IsFiniteSet({}) /\ Cardinality({}) = 0
    BY FS_EmptySet
  <2> QED
    BY <2>1, <2>2, Bounds DEF PostTypes
<1>2. sanctions!NoState \in sanctions!States
  <2>1. /\ [m \in Members |-> 0] \in [Members -> 0 .. MaxClock]
        /\ [m \in Members |-> 0] \in [Members -> 0 .. MaxClock + 1]
        /\ [m \in Members |-> "join"] \in [Members -> sanctions!Memberships]
    BY ClockFacts DEF sanctions!Memberships
  <2> QED
    BY <2>1 DEF sanctions!States, sanctions!NoState
<1>3. HubTypes
  <2> HIDE DEF sanctions!NoState
  <2>1. state = [r \in SRooms |-> sanctions!NoState] /\ data = [r \in SRooms |-> 0]
    BY DEF sanctions!SanctionInit
  <2>2. /\ sanctionsKnown = [c \in sanctions!Clients |-> [r \in SRooms |-> sanctions!NoState]]
        /\ knownData = [s \in Sessions |-> [r \in SRooms |-> 0]]
    BY DEF sanctions!SanctionInit
  <2> QED
    BY <1>2, <2>1, <2>2, ClockFacts DEF HubTypes
<1>4. StewardTypes
  BY ClientsFacts DEF sanctions!SanctionInit, StewardTypes, sanctions!NoDialog
<1>5. SessionTypes
  <2>1. /\ agreed = [s \in Sessions |-> 0] /\ until = [s \in Sessions |-> 0]
        /\ bar = [s \in Sessions |-> "none"] /\ accepting = [s \in Sessions |-> {}]
    BY DEF sanctions!SanctionInit
  <2> QED
    BY <2>1, ClockFacts DEF SessionTypes, Bars
<1>6. WarningsInv
  BY WarningsStart
<1> QED
  BY <1>1, <1>3, <1>4, <1>5, <1>6 DEF SanctionTypes

\* What the room in view of a steward, or of a session with a room, is known to be.
LEMMA ViewFacts ==
  ASSUME HubTypes, StewardTypes, NEW c \in sanctions!Clients, sanctionsView[c] # Nowhere
  PROVE  sanctionsView[c] \in SRooms /\ sanctions!InView(c) \in sanctions!States
BY DEF HubTypes, StewardTypes, sanctions!InView

\* A request of a steward is sent: at most as many wait as were made.
LEMMA PostStep ==
  ASSUME PostTypes, NEW r, NEW what, NEW m, NEW content, sanctions!Post(r, what, m, content),
         what \in {"warnings", "timeouts", "ban", "kick", "unban"},
         what = "warnings" => content \in [Members -> 0 .. MaxClock],
         what = "timeouts" => content \in [Members -> 0 .. MaxClock + 1],
         clock' \in 0 .. MaxClock
  PROVE  PostTypes'
<1> DEFINE q == [room |-> r, what |-> what, member |-> m, content |-> content, nr |-> made]
<1>1. made \in 0 .. MaxPosts /\ made < MaxPosts /\ made' = made + 1 /\ posts' = posts \cup {q}
  BY DEF PostTypes, sanctions!Post
<1>2. PostOK(q)
  BY DEF PostOK
<1>3. IsFiniteSet(posts) /\ Cardinality(posts) \in Nat /\ Cardinality(posts) <= made
  BY FS_CardinalityType DEF PostTypes
<1> HIDE DEF q
<1>4. IsFiniteSet(posts') /\ Cardinality(posts') \in {Cardinality(posts), Cardinality(posts) + 1}
  BY <1>1, <1>3, FS_AddElement
<1>5. Cardinality(posts') <= made' /\ made' \in 0 .. MaxPosts
  BY <1>1, <1>3, <1>4, Bounds
<1>6. \A p \in posts' : PostOK(p)
  BY <1>1, <1>2 DEF PostTypes
<1> QED
  BY <1>4, <1>5, <1>6 DEF PostTypes

\* What a steward submits or revokes.
LEMMA SubmitTypes ==
  ASSUME SanctionTypes, NEW p \in Stewards, sanctions!Submit(p) \/ sanctions!Revoke(p)
  PROVE  PostTypes'
<1> DEFINE st == sanctions!InView(p)
<1>1. st \in sanctions!States /\ clock \in 0 .. MaxClock
  <2>1. p \in sanctions!Clients /\ sanctionsView[p] # Nowhere
    BY ClientsFacts, SanctionsAssumption DEF SanctionTypes, StewardTypes
  <2> QED
    BY <2>1, ViewFacts DEF SanctionTypes, PostTypes
<1>2. st.warnings \in [Members -> 0 .. MaxClock] /\ st.timeouts \in [Members -> 0 .. MaxClock + 1]
  BY <1>1, StateFacts
<1> HIDE DEF st
<1>3. \A m : /\ [st.warnings EXCEPT ![m] = 0] \in [Members -> 0 .. MaxClock]
             /\ [st.timeouts EXCEPT ![m] = 0] \in [Members -> 0 .. MaxClock + 1]
  BY <1>2, ClockFacts
<1>4. CASE sanctions!Submit(p)
  <2>1. dialog[p] # sanctions!NoDialog
    BY <1>4 DEF sanctions!Submit
  <2>2. dialog[p].kind \in {"kick", "timeout", "yellow", "red"}
    BY <2>1 DEF SanctionTypes, WarningsInv, Dialogs
  <2>3. CASE dialog[p].kind = "yellow"
    <3>1. sanctions!IssueYellowCard(p, dialog[p].room, dialog[p].member)
      BY <1>4, <2>3 DEF sanctions!Submit
    <3>2. PICK w : w = [st.warnings EXCEPT ![dialog[p].member] = clock + 1]
      OBVIOUS
    <3>3. /\ clock < MaxClock /\ clock' = clock + 1
          /\ sanctions!Post(dialog[p].room, "warnings", dialog[p].member, w)
      BY <3>1, <3>2 DEF sanctions!IssueYellowCard, st
    <3>4. clock' \in 0 .. MaxClock /\ w \in [Members -> 0 .. MaxClock]
      BY <1>1, <1>2, <3>2, <3>3, ClockFacts
    <3> QED
      BY <3>3, <3>4, PostStep DEF SanctionTypes
  <2>4. CASE dialog[p].kind = "timeout"
    <3>1. sanctions!IssueTimeout(p, dialog[p].room, dialog[p].member)
      BY <1>4, <2>4 DEF sanctions!Submit
    <3>2. PICK d \in 1 .. 2 :
            /\ clock + d <= MaxClock + 1 /\ clock' = clock
            /\ sanctions!Post(dialog[p].room, "timeouts", dialog[p].member,
                              [st.timeouts EXCEPT ![dialog[p].member] = clock + d])
      BY <3>1 DEF sanctions!IssueTimeout, st
    <3>3. PICK w : w = [st.timeouts EXCEPT ![dialog[p].member] = clock + d]
      OBVIOUS
    <3>4. clock + d \in 0 .. MaxClock + 1
      BY <1>1, <3>2, Bounds
    <3>5. w \in [Members -> 0 .. MaxClock + 1] /\ clock' \in 0 .. MaxClock
      BY <1>1, <1>2, <3>2, <3>3, <3>4
    <3>6. sanctions!Post(dialog[p].room, "timeouts", dialog[p].member, w)
      BY <3>2, <3>3
    <3> QED
      BY <3>5, <3>6, PostStep DEF SanctionTypes
  <2>5. CASE dialog[p].kind \in {"kick", "red"}
    <3>1. PICK what \in {"ban", "kick"} :
            sanctions!Post(dialog[p].room, what, dialog[p].member, 0) /\ clock' = clock
      BY <1>4, <2>5 DEF sanctions!Submit
    <3> QED
      BY <1>1, <3>1, PostStep DEF SanctionTypes
  <2> QED
    BY <2>2, <2>3, <2>4, <2>5
<1>5. CASE sanctions!Revoke(p)
  <2>1. clock' = clock
    BY <1>5 DEF sanctions!Revoke
  <2>2. \/ sanctions!Post(sanctionsView[p], "warnings", panel[p], [st.warnings EXCEPT ![panel[p]] = 0])
        \/ sanctions!Post(sanctionsView[p], "timeouts", panel[p], [st.timeouts EXCEPT ![panel[p]] = 0])
        \/ sanctions!Post(sanctionsView[p], "unban", panel[p], 0)
    <3>1. st = sanctions!InView(p)
      BY DEF st
    <3> QED
      BY ONLY <1>5, <3>1 DEF sanctions!Revoke, sanctions!RevokeYellowCard
  <2>3. PICK w : w = [st.warnings EXCEPT ![panel[p]] = 0]
    OBVIOUS
  <2>4. PICK t : t = [st.timeouts EXCEPT ![panel[p]] = 0]
    OBVIOUS
  <2>5. w \in [Members -> 0 .. MaxClock] /\ t \in [Members -> 0 .. MaxClock + 1]
    BY <1>3, <2>3, <2>4
  <2>6. CASE sanctions!Post(sanctionsView[p], "warnings", panel[p], w)
    BY <1>1, <2>1, <2>5, <2>6, PostStep DEF SanctionTypes
  <2>7. CASE sanctions!Post(sanctionsView[p], "timeouts", panel[p], t)
    BY <1>1, <2>1, <2>5, <2>7, PostStep DEF SanctionTypes
  <2>8. CASE sanctions!Post(sanctionsView[p], "unban", panel[p], 0)
    BY <1>1, <2>1, <2>8, PostStep DEF SanctionTypes
  <2> QED
    BY <2>2, <2>3, <2>4, <2>6, <2>7, <2>8
<1> QED
  BY <1>4, <1>5

\* Stewards: what they look at, and what they send.
LEMMA StewardTypesStep ==
  ASSUME SanctionTypes, WarningsInv', NEW p \in Stewards,
         \/ \E m \in Members : sanctions!OpenProfile(p, m)
         \/ \E kind_ \in {"kick", "timeout", "yellow", "red"} : sanctions!OpenDialog(p, kind_)
         \/ sanctions!CloseDialog(p) \/ sanctions!Submit(p) \/ sanctions!Revoke(p)
         \/ sanctions!StewardMoves(p)
         \/ \E r \in SRooms : sanctions!SyncSteward(p, r)
  PROVE  SanctionTypes'
<1> USE DEF sanctions!Rest, sanctions!hubVars, sanctions!sessionVars, sanctions!history
<1>1. PostTypes'
  <2>1. CASE sanctions!Submit(p) \/ sanctions!Revoke(p)
    BY <2>1, SubmitTypes
  <2>2. CASE ~(sanctions!Submit(p) \/ sanctions!Revoke(p))
    <3>1. UNCHANGED <<posts, clock, made>>
      BY <2>2 DEF sanctions!OpenProfile, sanctions!OpenDialog, sanctions!CloseDialog,
             sanctions!StewardMoves, sanctions!SyncSteward
    <3> QED
      BY <3>1 DEF SanctionTypes, PostTypes, PostOK
  <2> QED
    BY <2>1, <2>2
<1>2. UNCHANGED <<state, data, knownData, agreed, accepting, until, bar>>
  BY DEF sanctions!OpenProfile, sanctions!OpenDialog, sanctions!CloseDialog, sanctions!Submit,
         sanctions!Revoke, sanctions!StewardMoves, sanctions!SyncSteward
<1>3. sanctionsKnown' = sanctionsKnown
      \/ \E r \in SRooms : sanctionsKnown' = [sanctionsKnown EXCEPT ![p][r] = state[r]]
  BY DEF sanctions!OpenProfile, sanctions!OpenDialog, sanctions!CloseDialog, sanctions!Submit,
         sanctions!Revoke, sanctions!StewardMoves, sanctions!SyncSteward
<1>4. HubTypes'
  <2>1. sanctionsKnown' \in [sanctions!Clients -> [SRooms -> sanctions!States]]
    <3>1. /\ sanctionsKnown \in [sanctions!Clients -> [SRooms -> sanctions!States]]
          /\ \A r \in SRooms : state[r] \in sanctions!States
      BY DEF SanctionTypes, HubTypes
    <3>2. \A r \in SRooms : [sanctionsKnown[p] EXCEPT ![r] = state[r]] \in [SRooms -> sanctions!States]
      BY <3>1, ClientsFacts
    <3> QED
      BY <1>3, <3>1, <3>2
  <2> QED
    BY <1>2, <2>1 DEF SanctionTypes, HubTypes
<1>5. sanctionsView' = sanctionsView
      \/ \E r \in SRooms : sanctionsView' = [sanctionsView EXCEPT ![p] = r]
  BY DEF sanctions!OpenProfile, sanctions!OpenDialog, sanctions!CloseDialog, sanctions!Submit,
         sanctions!Revoke, sanctions!StewardMoves, sanctions!SyncSteward
<1>6. SessionTypes'
  <2>1. \A s \in Sessions : sanctionsView'[s] = sanctionsView[s]
    BY <1>5, ClientsFacts DEF SanctionTypes, StewardTypes
  <2> QED
    BY <1>2, <2>1 DEF SanctionTypes, SessionTypes
<1>7. panel' = panel \/ \E x \in Members \cup {Nowhere} : panel' = [panel EXCEPT ![p] = x]
  BY DEF SanctionTypes, StewardTypes, sanctions!OpenProfile, sanctions!OpenDialog,
         sanctions!CloseDialog, sanctions!Submit, sanctions!Revoke, sanctions!StewardMoves,
         sanctions!SyncSteward
<1>8. dialog' = dialog
      \/ \E d : d.room \in SRooms \cup {Nowhere} /\ dialog' = [dialog EXCEPT ![p] = d]
  BY DEF SanctionTypes, StewardTypes, sanctions!OpenProfile, sanctions!OpenDialog,
         sanctions!CloseDialog, sanctions!Submit, sanctions!Revoke, sanctions!StewardMoves,
         sanctions!SyncSteward, sanctions!NoDialog
<1>9. StewardTypes'
  <2>1. sanctionsView' \in [sanctions!Clients -> SRooms \cup {Nowhere}]
        /\ \A q \in Stewards : sanctionsView'[q] \in SRooms
    BY <1>5, ClientsFacts DEF SanctionTypes, StewardTypes
  <2>2. panel' \in [Stewards -> Members \cup {Nowhere}]
    BY <1>7 DEF SanctionTypes, StewardTypes
  <2>3. DOMAIN dialog' = Stewards /\ \A q \in Stewards : dialog'[q].room \in SRooms \cup {Nowhere}
    BY <1>8 DEF SanctionTypes, StewardTypes
  <2> QED
    BY <2>1, <2>2, <2>3 DEF StewardTypes
<1> QED
  BY <1>1, <1>4, <1>6, <1>9 DEF SanctionTypes

\* The hub receives a request, or a member comes back.
LEMMA HubTypesStep ==
  ASSUME SanctionTypes, WarningsInv',
         \/ \E q \in posts : sanctions!Receive(q)
         \/ \E r \in SRooms, m \in Members : sanctions!Rejoin(r, m)
         \/ sanctions!Tick
  PROVE  SanctionTypes'
<1> USE DEF sanctions!hubVars, sanctions!sessionVars, sanctions!history, sanctions!stewardVars
<1>1. /\ UNCHANGED <<data, sanctionsKnown, knownData, sanctionsView, panel, dialog>>
      /\ UNCHANGED <<agreed, accepting, until, bar>>
  BY DEF sanctions!Receive, sanctions!Rejoin, sanctions!Tick
<1>2. StewardTypes' /\ SessionTypes'
  BY <1>1 DEF SanctionTypes, StewardTypes, SessionTypes
<1>3. state' \in [SRooms -> sanctions!States]
  <2>1. CASE \E q \in posts : sanctions!Receive(q)
    <3>1. PICK q \in posts : sanctions!Receive(q)
      BY <2>1
    <3>2. \A st \in sanctions!States : sanctions!Received(q, st) \in sanctions!States
      BY ReceivedFacts DEF SanctionTypes, PostTypes
    <3>3. state' = state \/ state' = [state EXCEPT ![q.room] = sanctions!Received(q, state[q.room])]
      BY <3>1 DEF sanctions!Receive
    <3>4. state \in [SRooms -> sanctions!States]
      BY DEF SanctionTypes, HubTypes
    <3> QED
      BY <3>2, <3>3, <3>4
  <2>2. CASE \E r \in SRooms, m \in Members : sanctions!Rejoin(r, m)
    <3>1. PICK r \in SRooms, m \in Members : sanctions!Rejoin(r, m)
      BY <2>2
    <3>2. state \in [SRooms -> sanctions!States]
      BY DEF SanctionTypes, HubTypes
    <3>3. state' = [state EXCEPT ![r] = [state[r] EXCEPT !.membership[m] = "join"]]
      BY <3>1, <3>2 DEF sanctions!Rejoin
    <3>4. [state[r] EXCEPT !.membership[m] = "join"] \in sanctions!States
      BY ZenonT(60), <3>2, StateFacts DEF sanctions!States, sanctions!Memberships
    <3> QED
      BY <3>2, <3>3, <3>4
  <2> QED
    BY <2>1, <2>2 DEF sanctions!Tick, SanctionTypes, HubTypes
<1>4. HubTypes'
  BY <1>1, <1>3 DEF SanctionTypes, HubTypes
<1>5. PostTypes'
  <2>1. clock' \in 0 .. MaxClock
    BY Bounds DEF sanctions!Receive, sanctions!Rejoin, sanctions!Tick, SanctionTypes, PostTypes
  <2>2. IsFiniteSet(posts) /\ Cardinality(posts) \in Nat /\ Cardinality(posts) <= made
        /\ made \in 0 .. MaxPosts
    BY FS_CardinalityType DEF SanctionTypes, PostTypes
  <2>3. made' \in {made, made + 1} /\ (made' = made + 1 => made < MaxPosts)
    BY <2>2, Bounds DEF sanctions!Receive, sanctions!Rejoin, sanctions!Tick
  <2>4. posts' \subseteq posts
    BY DEF sanctions!Receive, sanctions!Rejoin, sanctions!Tick
  <2>5. IsFiniteSet(posts') /\ Cardinality(posts') <= Cardinality(posts) /\ Cardinality(posts') \in Nat
    BY <2>2, <2>4, FS_Subset, FS_CardinalityType
  <2>6. Cardinality(posts') <= made' /\ made' \in 0 .. MaxPosts
    BY <2>2, <2>3, <2>5, Bounds
  <2> QED
    BY <2>1, <2>4, <2>5, <2>6 DEF SanctionTypes, PostTypes, PostOK
<1> QED
  BY <1>2, <1>4, <1>5 DEF SanctionTypes

\* What a session hears, where it goes, and the bar it shows.
LEMMA SessionLooksTypes ==
  ASSUME SanctionTypes, WarningsInv', NEW s \in Sessions,
         \/ \E r \in SRooms : sanctions!SyncSession(s, r)
         \/ sanctions!SessionMoves(s) \/ sanctions!BarMounted(s) \/ sanctions!TimeoutExpired(s)
  PROVE  SanctionTypes'
<1> USE DEF sanctions!hubVars, sanctions!history, sanctions!stewardVars
<1>1. UNCHANGED <<state, data, knownData, panel, dialog, posts, clock, made, accepting>>
  BY DEF sanctions!SyncSession, sanctions!SessionMoves, sanctions!BarMounted,
         sanctions!TimeoutExpired
<1>2. PostTypes'
  BY <1>1 DEF SanctionTypes, PostTypes, PostOK
<1>3. s \in sanctions!Clients /\ \A p \in Stewards : p \in sanctions!Clients /\ p # s
  BY ClientsFacts
<1>4. HubTypes'
  <2>1. sanctionsKnown' = sanctionsKnown
        \/ \E r \in SRooms : sanctionsKnown' = [sanctionsKnown EXCEPT ![s][r] = state[r]]
    BY DEF sanctions!SyncSession, sanctions!SessionMoves, sanctions!BarMounted,
           sanctions!TimeoutExpired
  <2>2. sanctionsKnown' \in [sanctions!Clients -> [SRooms -> sanctions!States]]
    <3>1. /\ sanctionsKnown \in [sanctions!Clients -> [SRooms -> sanctions!States]]
          /\ \A r \in SRooms : state[r] \in sanctions!States
      BY DEF SanctionTypes, HubTypes
    <3>2. \A r \in SRooms : [sanctionsKnown[s] EXCEPT ![r] = state[r]] \in [SRooms -> sanctions!States]
      BY <1>3, <3>1
    <3> QED
      BY <2>1, <3>1, <3>2
  <2> QED
    BY <1>1, <2>2 DEF SanctionTypes, HubTypes
<1>5. sanctionsView' = sanctionsView
      \/ \E r \in SRooms \cup {Nowhere} : sanctionsView' = [sanctionsView EXCEPT ![s] = r]
  BY DEF sanctions!SyncSession, sanctions!SessionMoves, sanctions!BarMounted,
         sanctions!TimeoutExpired
<1>6. StewardTypes'
  BY <1>1, <1>3, <1>5 DEF SanctionTypes, StewardTypes
<1>7. agreed' \in [Sessions -> 0 .. MaxClock]
  <2>1. agreed' = agreed \/ \E r \in SRooms : agreed' = [agreed EXCEPT ![s] = knownData[s][r]]
    BY DEF sanctions!SyncSession, sanctions!SessionMoves, sanctions!BarMounted,
           sanctions!TimeoutExpired
  <2> QED
    BY <2>1 DEF SanctionTypes, SessionTypes, HubTypes
<1> DEFINE Good == /\ until' \in [Sessions -> 0 .. MaxClock + 1] /\ bar' \in [Sessions -> Bars]
                   /\ \A t \in Sessions : (until'[t] = 0) = (bar'[t] = "none")
                   /\ \A t \in Sessions : t # s => bar'[t] = bar[t]
                   /\ sanctionsView'[s] = Nowhere => bar'[s] = "none"
<1>8. \A r \in SRooms : sanctionsKnown[s][r] \in sanctions!States /\ state[r] \in sanctions!States
  BY <1>3 DEF SanctionTypes, HubTypes
<1>9. ASSUME NEW st \in sanctions!States, sanctions!Recompute(s, st), sanctionsView'[s] # Nowhere
      PROVE  Good
  BY <1>9, RecomputeFacts DEF SanctionTypes
<1>10. ASSUME UNCHANGED <<until, bar, sanctionsView>>
       PROVE  Good
  BY <1>10 DEF SanctionTypes, SessionTypes
<1>15. Good
  <2>11. CASE \E r \in SRooms : sanctions!SyncSession(s, r)
    <3>1. PICK r \in SRooms : sanctions!SyncSession(s, r)
      BY <2>11
    <3>2. CASE sanctionsView[s] # r
      BY <1>10, <3>1, <3>2 DEF sanctions!SyncSession
    <3>3. CASE sanctionsView[s] = r /\ state[r].membership[SanctionsMe] = "join"
      <4>1. sanctions!Recompute(s, state[r]) /\ sanctionsView'[s] # Nowhere
        BY <3>1, <3>3, SanctionsAssumption DEF sanctions!SyncSession
      <4> QED
        BY <1>8, <1>9, <4>1
    <3>4. CASE sanctionsView[s] = r /\ state[r].membership[SanctionsMe] # "join"
      <4>1. until' = [until EXCEPT ![s] = 0] /\ bar' = [bar EXCEPT ![s] = "none"]
        BY <3>1, <3>4 DEF sanctions!SyncSession
      <4>2. "none" \in Bars /\ 0 \in 0 .. MaxClock + 1
        BY ClockFacts DEF Bars
      <4> QED
        BY <4>1, <4>2 DEF SanctionTypes, SessionTypes
    <3> QED
      BY <3>2, <3>3, <3>4
  <2>12. CASE sanctions!SessionMoves(s)
    <3>1. PICK r \in SRooms : /\ sanctionsView' = [sanctionsView EXCEPT ![s] = r]
                              /\ sanctions!Recompute(s, sanctionsKnown[s][r])
      BY <2>12 DEF sanctions!SessionMoves
    <3>2. sanctionsView'[s] # Nowhere
      BY <1>3, <3>1, SanctionsAssumption DEF SanctionTypes, StewardTypes
    <3> QED
      BY <1>8, <1>9, <3>1, <3>2
  <2>13. CASE sanctions!BarMounted(s)
    <3>1. /\ bar[s] = "mounting" /\ UNCHANGED <<until, sanctionsView>>
          /\ \E b \in {"running", "over"} : bar' = [bar EXCEPT ![s] = b]
      BY <2>13 DEF sanctions!BarMounted
    <3> QED
      BY <3>1 DEF SanctionTypes, SessionTypes, Bars
  <2>14. CASE sanctions!TimeoutExpired(s)
    <3>1. /\ bar[s] = "running" /\ sanctions!Recompute(s, sanctions!InView(s))
          /\ sanctionsView' = sanctionsView
      BY <2>14 DEF sanctions!TimeoutExpired
    <3>2. sanctionsView[s] # Nowhere
      BY <3>1 DEF SanctionTypes, SessionTypes
    <3>3. sanctions!InView(s) \in sanctions!States
      BY <1>3, <3>2, ViewFacts DEF SanctionTypes
    <3> QED
      BY <1>9, <3>1, <3>2, <3>3
  <2> QED
    BY <2>11, <2>12, <2>13, <2>14
<1>16. SessionTypes'
  <2>1. \A t \in Sessions : t # s => sanctionsView'[t] = sanctionsView[t]
    BY <1>5, ClientsFacts DEF SanctionTypes, StewardTypes
  <2> QED
    BY <1>1, <1>7, <1>15, <2>1 DEF SanctionTypes, SessionTypes
<1> QED
  BY <1>2, <1>4, <1>6, <1>16 DEF SanctionTypes

\* What a session accepts, and what of it the hub stores and tells.
LEMMA AcceptTypes ==
  ASSUME SanctionTypes, WarningsInv', NEW s \in Sessions,
         \/ \E r \in SRooms : sanctions!SyncAccountData(s, r)
         \/ sanctions!AcceptYellowCard(s)
         \/ \E a \in accepting[s] : sanctions!Store(s, a) \/ sanctions!Accepted(s, a)
  PROVE  SanctionTypes'
<1> USE DEF sanctions!hubVars, sanctions!history, sanctions!stewardVars
<1>1. /\ UNCHANGED <<state, sanctionsKnown, sanctionsView, panel, dialog, posts, clock, made>>
      /\ UNCHANGED <<until, bar>>
  BY DEF sanctions!SyncAccountData, sanctions!AcceptYellowCard, sanctions!Store,
         sanctions!Accepted
<1>2. PostTypes' /\ StewardTypes'
  BY <1>1 DEF SanctionTypes, PostTypes, PostOK, StewardTypes
<1> DEFINE Times == 0 .. MaxClock
<1>3. /\ data \in [SRooms -> Times] /\ knownData \in [Sessions -> [SRooms -> Times]]
      /\ agreed \in [Sessions -> Times]
      /\ \A a \in accepting[s] : DOMAIN a = {"warning", "stored"} /\ a.warning.at \in Times
  BY DEF SanctionTypes, HubTypes, SessionTypes
<1> HIDE DEF Times
<1>4. /\ data' \in [SRooms -> Times] /\ knownData' \in [Sessions -> [SRooms -> Times]]
      /\ agreed' \in [Sessions -> Times]
  <2>1. CASE \E r \in SRooms : sanctions!SyncAccountData(s, r)
    <3>1. PICK r \in SRooms : sanctions!SyncAccountData(s, r)
      BY <2>1
    <3>2. [knownData[s] EXCEPT ![r] = data[r]] \in [SRooms -> Times] /\ data[r] \in Times
      BY <1>3
    <3>3. /\ data' = data /\ knownData' = [knownData EXCEPT ![s] = [knownData[s] EXCEPT ![r] = data[r]]]
          /\ agreed' = [agreed EXCEPT ![s] = IF sanctionsView[s] = r THEN data[r] ELSE agreed[s]]
      BY <1>3, <3>1 DEF sanctions!SyncAccountData
    <3> QED
      BY <1>3, <3>2, <3>3
  <2>2. CASE sanctions!AcceptYellowCard(s)
    BY <1>3, <2>2 DEF sanctions!AcceptYellowCard
  <2>3. CASE \E a \in accepting[s] : sanctions!Store(s, a) \/ sanctions!Accepted(s, a)
    BY <1>3, <2>3 DEF sanctions!Store, sanctions!Accepted
  <2> QED
    BY <2>1, <2>2, <2>3
<1>5. HubTypes'
  BY <1>1, <1>4 DEF SanctionTypes, HubTypes, Times
<1>6. /\ DOMAIN accepting' = Sessions
      /\ \A t \in Sessions : t # s => accepting'[t] = accepting[t]
  BY DEF SanctionTypes, SessionTypes, sanctions!SyncAccountData, sanctions!AcceptYellowCard,
         sanctions!Store, sanctions!Accepted
<1>7. \A a \in accepting'[s] : DOMAIN a = {"warning", "stored"} /\ a.warning.at \in Times
  <2>1. CASE \E r \in SRooms : sanctions!SyncAccountData(s, r)
    BY <1>3, <2>1 DEF sanctions!SyncAccountData
  <2>2. CASE sanctions!AcceptYellowCard(s)
    <3>1. PICK t : t = sanctions!InView(s).warnings[SanctionsMe]
      OBVIOUS
    <3>2. PICK info : info = sanctions!Warning(sanctionsView[s], SanctionsMe, t)
      OBVIOUS
    <3>3. t \in Times
      <4>1. sanctionsView[s] # Nowhere /\ s \in sanctions!Clients
        BY <2>2, ClientsFacts DEF sanctions!AcceptYellowCard
      <4>2. sanctions!InView(s) \in sanctions!States
        BY <4>1, ViewFacts DEF SanctionTypes
      <4> QED
        BY <3>1, <4>2, StateFacts, SanctionsAssumption DEF Times
    <3>4. info.at = t
      BY <3>2 DEF sanctions!Warning
    <3>5. accepting' = [accepting EXCEPT ![s] = @ \cup {[warning |-> info, stored |-> FALSE]}]
      BY <2>2, <3>1, <3>2 DEF sanctions!AcceptYellowCard
    <3>6. accepting'[s] = accepting[s] \cup {[warning |-> info, stored |-> FALSE]}
      BY <3>5 DEF SanctionTypes, SessionTypes
    <3> QED
      BY <1>3, <3>3, <3>4, <3>6
  <2>3. CASE \E a \in accepting[s] : sanctions!Store(s, a) \/ sanctions!Accepted(s, a)
    <3>1. PICK a \in accepting[s] : sanctions!Store(s, a) \/ sanctions!Accepted(s, a)
      BY <2>3
    <3>2. PICK b : b = [a EXCEPT !.stored = TRUE]
      OBVIOUS
    <3>3. DOMAIN b = {"warning", "stored"} /\ b.warning = a.warning
      BY <1>3, <3>2
    <3>4. accepting' = [accepting EXCEPT ![s] = (@ \ {a}) \cup {b}]
          \/ accepting' = [accepting EXCEPT ![s] = @ \ {a}]
      BY <3>1, <3>2 DEF sanctions!Store, sanctions!Accepted
    <3>5. accepting'[s] \subseteq accepting[s] \cup {b}
      BY <3>4 DEF SanctionTypes, SessionTypes
    <3> QED
      BY <1>3, <3>3, <3>5
  <2> QED
    BY <2>1, <2>2, <2>3
<1>8. SessionTypes'
  BY <1>1, <1>4, <1>6, <1>7 DEF SanctionTypes, SessionTypes, Times
<1> QED
  BY <1>2, <1>5, <1>8 DEF SanctionTypes

LEMMA SanctionTypesStep ==
  ASSUME SanctionTypes, sanctions!SanctionNext \/ UNCHANGED sanctionsVars
  PROVE  SanctionTypes'
<1>1. WarningsInv'
  BY WarningsStep DEF SanctionTypes
<1>2. CASE UNCHANGED sanctionsVars
  BY <1>1, <1>2 DEF sanctionsVars, SanctionTypes, PostTypes, PostOK, HubTypes, StewardTypes,
       SessionTypes
<1>3. CASE sanctions!SanctionNext
  BY <1>1, <1>3, StewardTypesStep, HubTypesStep, SessionLooksTypes, AcceptTypes
     DEF sanctions!SanctionNext
<1> QED
  BY <1>2, <1>3

LEMMA SanctionsCardinality == \A S : sanctions!Cardinality(S) = Cardinality(S)
BY DEF sanctions!Cardinality, Cardinality

LEMMA SanctionTypesShow == SanctionTypes => sanctions!SanctionTypeOK
<1> SUFFICES ASSUME SanctionTypes PROVE sanctions!SanctionTypeOK
  OBVIOUS
<1>1. \A r \in SRooms : state[r] \in sanctions!States /\ data[r] \in 0 .. MaxClock
  BY DEF SanctionTypes, HubTypes
<1>2. \A c \in sanctions!Clients :
        /\ sanctionsView[c] \in SRooms \cup {Nowhere}
        /\ \A r \in SRooms : sanctionsKnown[c][r] \in sanctions!States
  BY DEF SanctionTypes, HubTypes, StewardTypes
<1>3. \A p \in Stewards : /\ panel[p] \in Members \cup {Nowhere}
                          /\ dialog[p].room \in SRooms \cup {Nowhere}
  BY DEF SanctionTypes, StewardTypes
<1>4. \A s \in Sessions : /\ agreed[s] \in 0 .. MaxClock /\ until[s] \in 0 .. MaxClock + 1
                          /\ bar[s] \in Bars /\ (until[s] = 0) = (bar[s] = "none")
  BY DEF SanctionTypes, SessionTypes
<1> QED
  BY <1>1, <1>2, <1>3, <1>4, SanctionsCardinality
     DEF SanctionTypes, PostTypes, Bars, sanctions!SanctionTypeOK

-----------------------------------------------------------------------------
(* Types of reports.  What is listed, and what a request brings, are numbers *)
(* of reports that were made; a report is selected while the page is shown   *)
(* only.                                                                     *)

Filed == 1 .. Len(filed)
LoadType == [from : Nat, page : Seq(Filed), total : Nat \cup {-1}]
LookType ==
  [selected : 0 .. Len(filed), tab : BOOLEAN, search : BOOLEAN, page : 1 .. MaxReports + 1,
   asking : BOOLEAN]

ServerTypes ==
  /\ filed \in Seq(Messages) /\ IsFiniteSet(sends)
  /\ Len(filed) + Cardinality(sends) <= MaxReports
  /\ kept \subseteq Filed /\ forms \subseteq Messages /\ sends \subseteq Messages
  /\ visits \in Nat
ListTypes ==
  /\ listed \in Seq(Filed) /\ total \in Nat
  /\ loads = <<>> \/ \E q \in LoadType : loads = <<q>>
LookTypes ==
  /\ look \in LookType /\ (look.tab <=> look.selected # 0) /\ (look.asking => admin)
  /\ preview.of = IF look.selected = 0 THEN reports!Nothing ELSE filed[look.selected]
  /\ ~reports!Open => look.selected = 0
ReportTypes == PreviewInv /\ ServerTypes /\ ListTypes /\ LookTypes

LEMMA ReportsCardinality == \A S : reports!Cardinality(S) = Cardinality(S)
BY DEF reports!Cardinality, Cardinality

LEMMA KeptFacts ==
  ASSUME ServerTypes
  PROVE  /\ Len(filed) \in Nat /\ IsFiniteSet(kept) /\ Cardinality(kept) \in Nat
         /\ \A n \in 1 .. Cardinality(kept) : reports!NewestFirst[n] \in Filed
<1>1. PICK L \in Nat : L = Len(filed)
  BY LenProperties DEF ServerTypes
<1>2. kept \in SUBSET (1 .. L)
  BY <1>1 DEF ServerTypes, Filed
<1>3. IsFiniteSet(kept) /\ Cardinality(kept) \in Nat
  <2>1. IsFiniteSet(1 .. L)
    BY FS_Interval
  <2> QED
    BY <1>2, <2>1, FS_Subset, FS_CardinalityType
<1>4. PICK C \in Nat : C = Cardinality(kept)
  BY <1>3
<1>5. ASSUME NEW n \in 1 .. C
      PROVE  \E k \in kept : Cardinality({j \in kept : j > k}) = n - 1
  <2>1. C - n + 1 \in 1 .. Cardinality(kept)
    BY <1>4, <1>5
  <2>2. PICK k \in kept : Rank(kept, k) = C - n + 1
    BY <1>2, <2>1, PlaceOfRank
  <2> DEFINE T == {j \in kept : j <= k}
  <2>3. {j \in kept : j > k} = kept \ T /\ kept \cap T = T
    <3>1. \A j \in kept : j \in Nat /\ k \in Nat
      BY <1>2
    <3>2. \A j \in kept : j > k <=> ~(j <= k)
      BY <3>1
    <3> QED
      BY <3>2
  <2>4. Cardinality(T) = C - n + 1
    BY <2>2 DEF Rank
  <2> HIDE DEF T
  <2>5. Cardinality(kept \ T) = C - (C - n + 1)
    BY <1>3, <1>4, <2>3, <2>4, FS_Difference
  <2> QED
    BY <1>5, <2>3, <2>5
<1>6. ASSUME NEW n \in 1 .. C
      PROVE  reports!NewestFirst[n] \in kept
  <2>1. reports!NewestFirst[n] = CHOOSE k \in kept : Cardinality({j \in kept : j > k}) = n - 1
    BY <1>4, ReportsCardinality DEF reports!NewestFirst
  <2> QED
    BY <1>5, <2>1
<1> QED
  BY <1>1, <1>2, <1>3, <1>4, <1>6 DEF Filed

\* What is listed at some places are reports that are listed.
LEMMA ListedAtFacts ==
  ASSUME NEW E, listed \in Seq(E), NEW S \in SUBSET DOMAIN listed
  PROVE  /\ reports!ListedAt(S) \in Seq(E)
         /\ \A n \in DOMAIN reports!ListedAt(S) : reports!ListedAt(S)[n] \in E
<1>1. uploads!ElementsAt(listed, S) = reports!ListedAt(S)
  BY DEF uploads!ElementsAt, uploads!Cardinality, reports!ListedAt, reports!Cardinality
<1>2. uploads!ElementsAt(listed, S) \in Seq(E)
  BY ElementsFacts
<1>3. reports!ListedAt(S) \in Seq(E)
  BY <1>1, <1>2
<1> QED
  BY <1>3, LenProperties, ElementOfSeq

LEMMA ReportTypesStart == reports!ReportsInit => ReportTypes
<1> SUFFICES ASSUME reports!ReportsInit PROVE ReportTypes
  OBVIOUS
<1>1. FirstReports \in Nat /\ FirstReports <= MaxReports /\ 1 \in 1 .. MaxReports + 1
  BY ReportsAssumption, Bounds
<1>2. filed \in Seq(Messages) /\ Len(filed) = FirstReports
  BY <1>1, SeqDef, LenProperties DEF reports!ReportsInit
<1>3. ServerTypes
  BY <1>1, <1>2, FS_EmptySet DEF reports!ReportsInit, ServerTypes, Filed
<1>4. ListTypes
  BY DEF reports!ReportsInit, ListTypes
<1>5. look = reports!Unselected /\ preview.of = reports!Nothing
  BY DEF reports!ReportsInit, reports!Unshown
<1>6. LookTypes
  BY <1>1, <1>2, <1>5 DEF LookTypes, LookType, reports!Unselected
<1> QED
  BY <1>3, <1>4, <1>6, PreviewStart DEF ReportTypes

\* More reports are made; what was said of those there are stays true.
LEMMA FiledGrows ==
  ASSUME ListTypes, UNCHANGED <<listed, total, loads>>, Filed \subseteq Filed'
  PROVE  ListTypes'
<1>1. listed' \in Seq(Filed')
  <2> DEFINE A == Filed  B == Filed'
  <2>1. listed \in Seq(A) /\ A \subseteq B
    BY DEF ListTypes
  <2> HIDE DEF A, B
  <2>2. listed \in Seq(B)
    BY <2>1, SeqMonotonic
  <2> QED
    BY <2>2 DEF B
<1>2. ASSUME NEW q \in LoadType, loads = <<q>>
      PROVE  \E p \in LoadType' : loads' = <<p>>
  <2> DEFINE A == Filed  B == Filed'
  <2>1. q \in [from : Nat, page : Seq(A), total : Nat \cup {-1}] /\ A \subseteq B
    BY <1>2 DEF LoadType
  <2> HIDE DEF A, B
  <2>2. q.page \in Seq(B)
    BY <2>1, SeqMonotonic
  <2>3. q \in [from : Nat, page : Seq(B), total : Nat \cup {-1}]
    BY <2>1, <2>2
  <2>4. q \in LoadType'
    BY <2>3 DEF B, LoadType
  <2> QED
    BY <1>2, <2>4
<1> QED
  BY <1>1, <1>2 DEF ListTypes


\* Dialogs, reports on their way and the server.
LEMMA FiledTypes ==
  ASSUME ReportTypes,
         \/ reports!CloseReportDialog
         \/ \E m \in Messages : \/ reports!OpenReportDialog(m) \/ reports!OnSubmit(m)
                                \/ \E stored \in BOOLEAN : reports!ReportEvent(m, stored)
         \/ \E r \in removing : reports!HandleDelete(r)
  PROVE  ServerTypes' /\ ListTypes' /\ LookTypes'
<1>1. /\ UNCHANGED <<listed, total, loads, admin, visits, look, preview>>
  BY DEF reports!CloseReportDialog, reports!OpenReportDialog, reports!OnSubmit,
     reports!ReportEvent, reports!HandleDelete, reports!serverVars, reports!listVars,
     reports!previewVars
<1>2. PICK L \in Nat, N \in Nat : L = Len(filed) /\ N = Cardinality(sends) /\ L + N <= MaxReports
  BY LenProperties, FS_CardinalityType DEF ReportTypes, ServerTypes
<1>3. CASE \/ reports!CloseReportDialog \/ \E m \in Messages : reports!OpenReportDialog(m)
           \/ \E r \in removing : reports!HandleDelete(r)
           \/ \E m \in Messages : reports!ReportEvent(m, FALSE)
  <2>1. /\ UNCHANGED filed /\ sends' \subseteq sends /\ kept' \subseteq kept
        /\ forms' \subseteq Messages
    BY <1>3 DEF ReportTypes, ServerTypes, reports!CloseReportDialog, reports!OpenReportDialog,
       reports!ReportEvent, reports!HandleDelete, reports!serverVars
  <2>2. IsFiniteSet(sends') /\ Cardinality(sends') <= N /\ Cardinality(sends') \in Nat
    BY <1>2, <2>1, FS_Subset, FS_CardinalityType DEF ReportTypes, ServerTypes
  <2>3. Len(filed') + Cardinality(sends') <= MaxReports
    BY <1>2, <2>1, <2>2, Bounds
  <2>4. ServerTypes'
    BY <1>1, <2>1, <2>2, <2>3 DEF ReportTypes, ServerTypes, Filed
  <2>5. Filed' = Filed
    BY <2>1 DEF Filed
  <2>6. ListTypes'
    BY <1>1, <2>5, FiledGrows DEF ReportTypes
  <2>7. LookTypes'
    BY <1>1, <2>1 DEF ReportTypes, LookTypes, LookType, reports!Open
  <2> QED
    BY <2>4, <2>6, <2>7
<1>4. CASE \E m \in Messages : reports!OnSubmit(m)
  <2>1. PICK m \in Messages : reports!OnSubmit(m)
    BY <1>4
  <2>2. /\ sends' = sends \cup {m} /\ m \notin sends /\ forms' = {}
        /\ L + N < MaxReports /\ UNCHANGED <<filed, kept>>
    BY <1>2, <2>1, ReportsCardinality DEF reports!OnSubmit, reports!serverVars
  <2>3. IsFiniteSet(sends') /\ Cardinality(sends') = N + 1
    BY <1>2, <2>2, FS_AddElement DEF ReportTypes, ServerTypes
  <2>4. Len(filed') + Cardinality(sends') <= MaxReports
    BY <1>2, <2>2, <2>3, Bounds
  <2>5. ServerTypes'
    BY <1>1, <2>2, <2>3, <2>4 DEF ReportTypes, ServerTypes, Filed
  <2>6. ListTypes'
    BY <1>1, <2>2, FiledGrows DEF ReportTypes, Filed
  <2>7. LookTypes'
    BY <1>1, <2>2 DEF ReportTypes, LookTypes, LookType, reports!Open
  <2> QED
    BY <2>5, <2>6, <2>7
<1>5. CASE \E m \in Messages : reports!ReportEvent(m, TRUE)
  <2>1. PICK m \in Messages : reports!ReportEvent(m, TRUE)
    BY <1>5
  <2>2. /\ m \in sends /\ sends' = sends \ {m} /\ filed' = Append(filed, m)
        /\ kept' = kept \cup {Len(filed')} /\ forms' \subseteq forms
    BY <2>1 DEF reports!ReportEvent
  <2>3. /\ filed' \in Seq(Messages) /\ Len(filed') = L + 1
        /\ \A i \in 1 .. L : filed'[i] = filed[i]
    BY <1>2, <2>2 DEF ReportTypes, ServerTypes
  <2>4. /\ IsFiniteSet(sends') /\ Cardinality(sends') = N - 1
    BY <1>2, <2>2, FS_RemoveElement DEF ReportTypes, ServerTypes
  <2>5. Len(filed') + Cardinality(sends') <= MaxReports
    BY <1>2, <2>3, <2>4, Bounds
  <2>6. Filed = 1 .. L /\ Filed' = 1 .. L + 1
    BY <1>2, <2>3 DEF Filed
  <2>7. Filed \subseteq Filed' /\ L + 1 \in Filed'
    BY <2>6
  <2>8. ServerTypes'
    BY <1>1, <2>2, <2>3, <2>4, <2>5, <2>7 DEF ReportTypes, ServerTypes
  <2>9. ListTypes'
    BY <1>1, <2>7, FiledGrows DEF ReportTypes
  <2>10. look \in LookType' /\ look.selected \in 0 .. L
    BY <1>2, <2>3 DEF ReportTypes, LookTypes, LookType
  <2>11. look.selected # 0 => filed'[look.selected] = filed[look.selected]
    BY <2>3, <2>10
  <2>12. LookTypes'
    BY <1>1, <2>10, <2>11 DEF ReportTypes, LookTypes, reports!Open
  <2> QED
    BY <2>8, <2>9, <2>12
<1> QED
  BY <1>3, <1>4, <1>5

\* The list is asked for, and the answers.
LEMMA ListStep ==
  ASSUME ReportTypes,
         \/ reports!HandleList \/ reports!ListArrives \/ reports!ListFails
         \/ reports!LoadMoreReports
  PROVE  ServerTypes' /\ ListTypes' /\ LookTypes'
<1>1. UNCHANGED <<admin, filed, kept, forms, sends, visits, look, preview>>
  BY DEF reports!HandleList, reports!ListArrives, reports!ListFails,
     reports!LoadMoreReports, reports!serverVars, reports!previewVars
<1>2. ServerTypes' /\ LookTypes'
  BY <1>1 DEF ReportTypes, ServerTypes, Filed, LookTypes, LookType, reports!Open
<1> DEFINE A == Filed
           Q == [from : Nat, page : Seq(A), total : Nat \cup {-1}]
<1>3. /\ listed \in Seq(A) /\ total \in Nat
      /\ loads = <<>> \/ \E q \in Q : loads = <<q>>
  BY DEF ReportTypes, ListTypes, LoadType
<1>4. SUFFICES /\ listed' \in Seq(A) /\ total' \in Nat
               /\ loads' = <<>> \/ \E q \in Q : loads' = <<q>>
  BY <1>1, <1>2 DEF ListTypes, LoadType, Filed
<1>5. CASE reports!HandleList
  <2>1. PICK q \in Q : loads = <<q>>
    BY <1>3, <1>5 DEF reports!HandleList
  <2>2. PICK C \in Nat : C = Cardinality(kept) /\ \A n \in 1 .. C : reports!NewestFirst[n] \in A
    BY KeptFacts DEF ReportTypes
  <2>3. PICK to \in Int : to = (IF q.from + ReportsBatch <= C THEN q.from + ReportsBatch ELSE C)
    BY <2>1, <2>2, ReportsAssumption
  <2>4. PICK s : s = SubSeq(reports!NewestFirst, q.from + 1, to)
    OBVIOUS
  <2>5. s \in Seq(A)
    <3>1. q.from + 1 \in Int /\ to <= C
      BY <2>1, <2>2, <2>3, ReportsAssumption
    <3>2. \A i \in (q.from + 1) .. to : reports!NewestFirst[i] \in A
      <4>1. \A i \in (q.from + 1) .. to : i \in 1 .. C
        BY <2>1, <2>2, <2>3, <3>1
      <4> QED
        BY <2>2, <4>1
    <3> HIDE DEF A
    <3> QED
      BY <2>3, <2>4, <3>1, <3>2, SubSeqProperties
  <2>6. loads' = <<[q EXCEPT !.page = s, !.total = C]>> /\ listed' = listed /\ total' = total
    BY <1>5, <2>1, <2>2, <2>3, <2>4, ReportsCardinality DEF reports!HandleList
  <2> HIDE DEF A
  <2>7. [q EXCEPT !.page = s, !.total = C] \in Q
    BY <2>1, <2>2, <2>5
  <2> HIDE DEF Q
  <2>8. \E p \in Q : loads' = <<p>>
    BY <2>6, <2>7
  <2> QED
    BY <1>3, <2>6, <2>8
<1> HIDE DEF A
<1>6. CASE reports!ListArrives
  <2>1. PICK q \in Q : loads = <<q>>
    BY <1>3, <1>6 DEF reports!ListArrives
  <2>2. q.page \in Seq(A) /\ q.total \in Nat \cup {-1}
    BY <2>1
  <2> HIDE DEF Q
  <2>3. q = loads[1]
    BY <2>1
  <2>4. /\ q.total # -1 /\ total' = q.total /\ loads' = <<>>
        /\ listed' = IF q.from = 0 THEN q.page ELSE listed \o q.page
    BY <1>6, <2>3 DEF reports!ListArrives
  <2>5. listed \o q.page \in Seq(A)
    BY <1>3, <2>2, ConcatProperties
  <2> QED
    BY <2>2, <2>4, <2>5
<1>7. CASE reports!ListFails
  BY <1>3, <1>7 DEF reports!ListFails
<1>8. CASE reports!LoadMoreReports
  <2>1. /\ loads' = <<[from |-> Len(listed), page |-> <<>>, total |-> -1]>>
        /\ listed' = listed /\ total' = total
    BY <1>8 DEF reports!LoadMoreReports
  <2>2. Len(listed) \in Nat /\ <<>> \in Seq(A)
    BY <1>3, LenProperties, EmptySeq
  <2>3. [from |-> Len(listed), page |-> <<>>, total |-> -1] \in Q
    BY <2>2
  <2> HIDE DEF Q
  <2>4. \E p \in Q : loads' = <<p>>
    BY <2>1, <2>3
  <2> QED
    BY <1>3, <2>1, <2>4
<1> QED
  BY <1>5, <1>6, <1>7, <1>8


\* The page is opened and left.
LEMMA VisitTypes ==
  ASSUME ReportTypes, reports!Visit \/ reports!Leave
  PROVE  ServerTypes' /\ ListTypes' /\ LookTypes'
<1>1. /\ UNCHANGED <<admin, filed, kept, forms, sends>> /\ visits' = visits + 1
      /\ look' = reports!Unselected /\ listed' = <<>> /\ total' = 0
      /\ loads' \in {<<>>, <<[from |-> 0, page |-> <<>>, total |-> -1]>>}
  BY DEF reports!Visit, reports!Leave, reports!serverVars
<1>2. ServerTypes'
  BY <1>1 DEF ReportTypes, ServerTypes, Filed
<1>3. ListTypes'
  <2> DEFINE A == Filed'
             Q == [from : Nat, page : Seq(A), total : Nat \cup {-1}]
  <2>1. <<>> \in Seq(A)
    BY EmptySeq
  <2>2. [from |-> 0, page |-> <<>>, total |-> -1] \in Q
    <3> HIDE DEF A
    <3> QED
      BY <2>1
  <2>3. LoadType' = Q
    BY DEF LoadType
  <2> HIDE DEF Q
  <2>4. loads' = <<>> \/ \E q \in Q : loads' = <<q>>
    BY <1>1, <2>2
  <2> QED
    BY <1>1, <2>1, <2>3, <2>4 DEF ListTypes
<1>4. preview'.of = reports!Nothing
  <2>1. CASE reports!Visit
    BY <2>1 DEF ReportTypes, LookTypes, reports!Visit, reports!previewVars
  <2>2. CASE reports!Leave
    BY <2>2 DEF reports!Leave, reports!Unshown
  <2> QED
    BY <2>1, <2>2
<1>5. Len(filed') \in Nat /\ 1 \in 1 .. MaxReports + 1
  BY <1>1, LenProperties, Bounds DEF ReportTypes, ServerTypes
<1>6. LookTypes'
  BY <1>1, <1>4, <1>5 DEF LookTypes, LookType, reports!Unselected
<1> QED
  BY <1>2, <1>3, <1>6

\* A report is selected, or none: the preview is of it.
LEMMA SelectTypes ==
  ASSUME ReportTypes, UNCHANGED <<admin, filed, visits>>, NEW id \in 0 .. Len(filed),
         reports!Select(id), reports!Open
  PROVE  LookTypes'
<1>1. look' = [look EXCEPT !.selected = id, !.tab = id # 0]
  BY DEF reports!Select
<1>2. /\ look' \in LookType /\ look'.selected = id /\ look'.tab = (id # 0)
      /\ look'.asking = look.asking
  BY <1>1 DEF ReportTypes, LookTypes, LookType
<1>3. preview'.of = IF id = 0 THEN reports!Nothing ELSE filed[id]
  <2>1. CASE id = 0
    BY <2>1 DEF reports!Select, reports!Show, reports!Unshown
  <2>2. CASE id # 0 /\ preview.of = filed[id]
    BY <2>2 DEF reports!Select, reports!Show, reports!previewVars
  <2>3. CASE id # 0 /\ preview.of # filed[id]
    BY <2>3 DEF reports!Select, reports!Show, ReportTypes, PreviewInv
  <2> QED
    BY <2>1, <2>2, <2>3
<1>4. look' \in LookType'
  BY <1>2 DEF LookType
<1> QED
  BY <1>2, <1>3, <1>4 DEF ReportTypes, LookTypes, reports!Open

\* What is done on the page.
LEMMA PageTypes ==
  ASSUME ReportTypes,
         \/ reports!Search \/ reports!CloseSidebar \/ reports!AskDelete
         \/ \E p \in 1 .. MaxReports + 1 : reports!TurnPage(p)
         \/ \E id \in reports!Ids : reports!HandleSelectReport(id)
         \/ \E ok \in BOOLEAN : reports!AnswerDelete(ok)
  PROVE  ServerTypes' /\ ListTypes' /\ LookTypes'
<1>1. UNCHANGED <<admin, filed, kept, forms, sends, visits, listed, total, loads>>
  BY DEF reports!Search, reports!CloseSidebar, reports!AskDelete, reports!TurnPage,
     reports!HandleSelectReport, reports!AnswerDelete, reports!serverVars, reports!listVars
<1>2. ServerTypes'
  BY <1>1 DEF ReportTypes, ServerTypes, Filed
<1>3. ListTypes'
  BY <1>1, FiledGrows DEF ReportTypes, Filed
<1>4. Len(filed) \in Nat /\ look \in LookType /\ 1 \in 1 .. MaxReports + 1
  BY LenProperties, Bounds DEF ReportTypes, ServerTypes, LookTypes
<1>5. LookTypes'
  <2>1. CASE reports!Search
    <3>1. look' = [look EXCEPT !.search = ~@, !.page = 1] /\ UNCHANGED preview
      BY <2>1 DEF reports!Search, reports!previewVars
    <3>2. PICK b \in BOOLEAN : b = ~look.search
      OBVIOUS
    <3>3. look' = [look EXCEPT !.search = b, !.page = 1]
      BY <1>4, <3>1, <3>2 DEF LookType
    <3>4. /\ look' \in LookType /\ look'.selected = look.selected /\ look'.tab = look.tab
          /\ look'.asking = look.asking
      BY <1>4, <3>2, <3>3 DEF LookType
    <3> QED
      BY <1>1, <3>1, <3>4 DEF ReportTypes, LookTypes, LookType, reports!Open
  <2>2. CASE \E p \in 1 .. MaxReports + 1 : reports!TurnPage(p)
    <3>1. PICK p \in 1 .. MaxReports + 1 : reports!TurnPage(p)
      BY <2>2
    <3>2. look' = [look EXCEPT !.page = p] /\ UNCHANGED preview
      BY <3>1 DEF reports!TurnPage, reports!previewVars
    <3>3. /\ look' \in LookType /\ look'.selected = look.selected /\ look'.tab = look.tab
          /\ look'.asking = look.asking
      BY <1>4, <3>2 DEF LookType
    <3> QED
      BY <1>1, <3>2, <3>3 DEF ReportTypes, LookTypes, LookType, reports!Open
  <2>3. CASE reports!AskDelete \/ \E ok \in BOOLEAN : reports!AnswerDelete(ok)
    <3>1. PICK b \in BOOLEAN : look' = [look EXCEPT !.asking = b] /\ (b => admin)
      BY <2>3 DEF reports!AskDelete, reports!AnswerDelete
    <3>2. UNCHANGED preview
      BY <2>3 DEF reports!AskDelete, reports!AnswerDelete, reports!previewVars
    <3>3. /\ look' \in LookType /\ look'.selected = look.selected /\ look'.tab = look.tab
          /\ look'.asking = b
      BY <1>4, <3>1 DEF LookType
    <3> QED
      BY <1>1, <3>1, <3>2, <3>3 DEF ReportTypes, LookTypes, LookType, reports!Open
  <2>4. CASE reports!CloseSidebar
    <3>1. reports!Select(0) /\ look.selected # 0 /\ 0 \in 0 .. Len(filed)
      BY <1>4, <2>4 DEF reports!CloseSidebar, ReportTypes, LookTypes
    <3>2. reports!Open
      BY <3>1 DEF ReportTypes, LookTypes
    <3> QED
      BY <1>1, <3>1, <3>2, SelectTypes
  <2>5. CASE \E id \in reports!Ids : reports!HandleSelectReport(id)
    <3>1. PICK id : reports!HandleSelectReport(id)
      BY <2>5
    <3>2. reports!Open /\ id \in reports!PaginatedReports
      BY <3>1 DEF reports!HandleSelectReport
    <3>3. PICK i \in DOMAIN reports!FilteredReports : id = reports!FilteredReports[i]
      BY <3>2 DEF reports!PaginatedReports
    <3>4. PICK S \in SUBSET DOMAIN listed : reports!FilteredReports = reports!ListedAt(S)
      BY DEF reports!FilteredReports
    <3>5. id \in Filed
      BY <3>3, <3>4, ListedAtFacts DEF ReportTypes, ListTypes
    <3>6. PICK to \in {0, id} : reports!Select(to)
      BY <3>1 DEF reports!HandleSelectReport
    <3>7. to \in 0 .. Len(filed)
      BY <1>4, <3>5, <3>6 DEF Filed
    <3> QED
      BY <1>1, <3>2, <3>6, <3>7, SelectTypes
  <2> QED
    BY <2>1, <2>2, <2>3, <2>4, <2>5
<1> QED
  BY <1>2, <1>3, <1>5

LEMMA DeletedTypes ==
  ASSUME ReportTypes, NEW r \in removing, reports!DeleteReport(r)
  PROVE  ServerTypes' /\ ListTypes' /\ LookTypes'
<1>1. UNCHANGED <<admin, filed, kept, forms, sends, visits, loads>>
  BY DEF reports!DeleteReport, reports!serverVars
<1>2. ServerTypes'
  BY <1>1 DEF ReportTypes, ServerTypes, Filed
<1>3. listed' \in Seq(Filed) /\ total' \in Nat
  <2>1. CASE UNCHANGED <<listed, total>>
    BY <2>1 DEF ReportTypes, ListTypes
  <2>2. CASE ~UNCHANGED <<listed, total>>
    <3>1. /\ listed' = reports!ListedAt({i \in DOMAIN listed : listed[i] # r.id})
          /\ total' = IF total = 0 THEN 0 ELSE total - 1
      BY <2>2 DEF reports!DeleteReport
    <3>2. PICK S \in SUBSET DOMAIN listed : listed' = reports!ListedAt(S)
      BY <3>1
    <3>3. listed' \in Seq(Filed)
      BY <3>2, ListedAtFacts DEF ReportTypes, ListTypes
    <3>4. total' \in Nat
      BY <3>1 DEF ReportTypes, ListTypes
    <3> QED
      BY <3>3, <3>4
  <2> QED
    BY <2>1, <2>2
<1>4. Filed' = Filed /\ LoadType' = LoadType
  BY <1>1 DEF Filed, LoadType
<1>5. ListTypes'
  BY <1>1, <1>3, <1>4 DEF ReportTypes, ListTypes
<1>6. LookTypes'
  <2>1. CASE reports!Open
    <3>1. reports!Select(0)
      BY <2>1 DEF reports!DeleteReport
    <3>2. 0 \in 0 .. Len(filed)
      BY LenProperties DEF ReportTypes, ServerTypes
    <3> QED
      BY <1>1, <2>1, <3>1, <3>2, SelectTypes
  <2>2. CASE ~reports!Open
    <3>1. UNCHANGED <<look, preview>>
      BY <2>2 DEF reports!DeleteReport, reports!previewVars
    <3> QED
      BY <1>1, <3>1 DEF ReportTypes, LookTypes, LookType, reports!Open
  <2> QED
    BY <2>1, <2>2
<1> QED
  BY <1>2, <1>5, <1>6

\* Answers for the preview change neither what it is of nor anything else.
LEMMA FetchTypes ==
  ASSUME ReportTypes,
         \E f \in reportsFetches :
           reports!EventArrives(f) \/ reports!MediaArrives(f) \/ reports!FetchFails(f)
  PROVE  ServerTypes' /\ ListTypes' /\ LookTypes'
<1>1. UNCHANGED <<admin, filed, kept, forms, sends, visits, listed, total, loads, look>>
  BY DEF reports!EventArrives, reports!MediaArrives, reports!FetchFails, reports!serverVars,
     reports!listVars
<1>2. preview'.of = preview.of
  BY DEF reports!EventArrives, reports!MediaArrives, reports!FetchFails, ReportTypes, PreviewInv
<1>3. ServerTypes'
  BY <1>1 DEF ReportTypes, ServerTypes, Filed
<1>4. ListTypes'
  BY <1>1, FiledGrows DEF ReportTypes, Filed
<1>5. LookTypes'
  BY <1>1, <1>2 DEF ReportTypes, LookTypes, LookType, reports!Open
<1> QED
  BY <1>3, <1>4, <1>5

LEMMA ReportTypesStep ==
  ASSUME ReportTypes, reports!ReportsNext \/ UNCHANGED reportsVars
  PROVE  ReportTypes'
<1>1. PreviewInv'
  BY PreviewStep DEF ReportTypes
<1>2. CASE UNCHANGED reportsVars
  BY <1>1, <1>2 DEF reportsVars, ReportTypes, ServerTypes, ListTypes, LookTypes, LoadType,
     LookType, Filed, reports!Open
<1>3. CASE reports!ReportsNext
  BY <1>1, <1>3, FiledTypes, ListStep, VisitTypes, PageTypes, DeletedTypes, FetchTypes
     DEF reports!ReportsNext, ReportTypes
<1> QED
  BY <1>2, <1>3

LEMMA ReportTypesShow == ReportTypes => reports!ReportsTypeOK
<1> SUFFICES ASSUME ReportTypes PROVE reports!ReportsTypeOK
  OBVIOUS
<1>1. PICK L \in Nat, N \in Nat : L = Len(filed) /\ N = Cardinality(sends) /\ L + N <= MaxReports
  BY LenProperties, FS_CardinalityType DEF ReportTypes, ServerTypes
<1>2. Len(filed) <= MaxReports /\ look.selected \in 0 .. MaxReports
  BY SMTT(30), <1>1, Bounds DEF ReportTypes, LookTypes, LookType
<1>3. look.page \in 1 .. MaxReports + 1
  BY DEF ReportTypes, LookTypes, LookType
<1>4. \A i \in DOMAIN listed : listed[i] \in 1 .. Len(filed)
  <2>1. listed \in Seq(Filed)
    BY DEF ReportTypes, ListTypes
  <2> QED
    BY <2>1, LenProperties, ElementOfSeq DEF Filed
<1>5. Len(loads) <= 1
  <2>1. loads = <<>> \/ \E q : loads = <<q>>
    BY DEF ReportTypes, ListTypes
  <2>2. CASE loads = <<>>
    BY <2>2
  <2>3. CASE loads # <<>>
    <3>1. PICK q : loads = <<q>>
      BY <2>1, <2>3
    <3>2. Len(<<q>>) = 1
      OBVIOUS
    <3> QED
      BY <3>1, <3>2
  <2> QED
    BY <2>2, <2>3
<1>6. kept \subseteq 1 .. Len(filed) /\ forms \subseteq Messages /\ sends \subseteq Messages
  BY DEF ReportTypes, ServerTypes, Filed
<1>7. /\ total \in Nat /\ (look.tab <=> look.selected # 0) /\ (look.asking => admin)
      /\ preview.of = IF look.selected = 0 THEN reports!Nothing ELSE filed[look.selected]
      /\ \A f \in reportsFetches : f.n <= preview.n
  BY DEF ReportTypes, ListTypes, LookTypes, PreviewInv
<1> QED
  BY <1>2, <1>3, <1>4, <1>5, <1>6, <1>7 DEF reports!ReportsTypeOK


-----------------------------------------------------------------------------
(* Types of composers.                                                       *)

BoxType ==
  [text : compose!Texts, save : compose!Texts \cup {-1}, root : compose!Places,
   reply : compose!Places \cup {compose!Nothing}, send : BOOLEAN, mention : BOOLEAN,
   announce : BOOLEAN, sign : BOOLEAN, poll : BOOLEAN, file : BOOLEAN, share : Nat,
   edit : compose!Editable \cup {compose!Nothing},
   original : compose!Editable \cup {compose!Nothing},
   existing : FileMessages \cup {compose!Nothing},
   dropped : FileMessages \cup {compose!Nothing}]

Typed(k) == k \in BoxType /\ ~(k.file /\ k.share # 0) /\ ~(k.poll /\ k.sign)
\* A composer that keeps what it replies to, or loses it.
Becomes(k, l) == Typed(l) /\ l.reply \in {k.reply, compose!Nothing}

WaitOK(w) ==
  /\ DOMAIN w = {"c", "op", "at", "text", "reply", "n"}
  /\ w.c \in compose!Composers \cup {"gone"} /\ w.text \in compose!Texts
  /\ w.op \in {"root", "mount", "reply"} => w.at \in compose!Places
  /\ w.op = "preview" => w.at \in FileMessages

\* The composer of the timeline replies to messages of the timeline, that of a
\* thread to those of a thread.
Replying(c, r) ==
  (c = "timeline" => r \in {None, compose!Nothing}) /\ (c = "thread" => r # None)

PlaceTypes ==
  /\ opened \in compose!Places /\ drafts \in [compose!Places -> compose!Texts]
  /\ replyingTo \in compose!Places \cup {compose!Nothing}
  /\ typed \in Seq(compose!Places) /\ Len(typed) <= MaxTyped /\ acts \in 0 .. MaxActs
BoxTypes == \A c \in compose!Composers : Typed(box[c]) /\ Replying(c, box[c].reply)
WaitTypes == \A w \in waits : WaitOK(w)
ComposeTypes == ComposeInv /\ PlaceTypes /\ BoxTypes /\ WaitTypes

LEMMA TextFacts ==
  /\ 0 \in compose!Texts /\ compose!Body \in compose!Texts /\ -1 \notin compose!Texts
  /\ \A n \in 0 .. MaxTyped : n \in compose!Texts
BY Bounds DEF compose!Texts, compose!Body

LEMMA NoneFacts ==
  /\ None \in compose!Places /\ None # compose!Nothing /\ Threads \subseteq compose!Places
  /\ TextMessages \subseteq compose!Editable /\ FileMessages \subseteq compose!Editable
BY ComposeAssumption DEF compose!Places, compose!Nothing, compose!Editable

LEMMA BlankTyped == Typed(compose!Blank) /\ compose!Blank.reply = compose!Nothing
<1>1. compose!Blank \in BoxType
  BY TextFacts, NoneFacts DEF BoxType, compose!Blank
<1> QED
  BY <1>1 DEF Typed, compose!Blank

LEMMA ResetTyped ==
  ASSUME NEW k, Typed(k)
  PROVE  LET l == compose!ResetAll(k) IN
         Typed(l) /\ l.reply = k.reply /\ l.share = 0 /\ ~l.file /\ ~l.poll /\ ~l.sign
BY ZenonT(60) DEF compose!ResetAll, Typed, BoxType

LEMMA RecheckTyped ==
  ASSUME NEW k, Typed(k)
  PROVE  LET l == compose!Recheck(k) IN
         /\ Typed(l) /\ l.reply = k.reply /\ l.share = k.share
         /\ l.file = k.file /\ l.poll = k.poll /\ l.sign = k.sign
<1>1. PICK b \in BOOLEAN : b = compose!Valid(k)
  BY DEF compose!Valid
<1>2. compose!Recheck(k) = [k EXCEPT !.send = b]
  BY <1>1 DEF compose!Recheck
<1> QED
  BY <1>2 DEF Typed, BoxType

LEMMA TextTyped ==
  ASSUME NEW k, Typed(k), NEW t \in compose!Texts
  PROVE  LET l == compose!SetText(k, t) IN
         /\ Typed(l) /\ l.reply = k.reply /\ l.share = k.share
         /\ l.file = k.file /\ l.poll = k.poll /\ l.sign = k.sign
<1> DEFINE l == [k EXCEPT !.text = t, !.save = t]
<1>1. /\ Typed(l) /\ l.reply = k.reply /\ l.share = k.share
      /\ l.file = k.file /\ l.poll = k.poll /\ l.sign = k.sign
  BY ZenonT(60) DEF Typed, BoxType
<1> HIDE DEF l
<1> QED
  BY <1>1, RecheckTyped DEF compose!SetText, l

LEMMA HearsTyped ==
  ASSUME NEW k, Typed(k), NEW escape
  PROVE  Becomes(k, compose!Hears(k, escape))
<1> DEFINE l == compose!ResetAll(k)
<1>1. Typed(l) /\ l.reply = k.reply
  BY ResetTyped
<1> HIDE DEF l
<1>2. Typed(compose!Recheck(l)) /\ compose!Recheck(l).reply = k.reply
  BY <1>1, RecheckTyped
<1> QED
  BY <1>2 DEF compose!Hears, Becomes, l

LEMMA CancelTyped ==
  ASSUME NEW k, Typed(k)
  PROVE  Becomes(k, compose!CancelEdit(k))
<1> DEFINE s == compose!SetText(k, 0)
           l == [s EXCEPT !.original = compose!Nothing, !.dropped = compose!Nothing]
           r == compose!ResetAll(l)
<1>1. Typed(s) /\ s.reply = k.reply
  BY TextFacts, TextTyped
<1> HIDE DEF s
<1>2. Typed(l) /\ l.reply = k.reply
  BY ZenonT(60), <1>1 DEF Typed, BoxType
<1> HIDE DEF l
<1>3. Typed(r) /\ r.reply = k.reply
  BY <1>2, ResetTyped
<1> HIDE DEF r
<1>4. Typed(compose!Recheck(r)) /\ compose!Recheck(r).reply = k.reply
  BY <1>3, RecheckTyped
<1>5. compose!CancelEdit(k) = compose!Recheck(r)
  BY DEF compose!CancelEdit, r, l, s
<1> QED
  BY <1>4, <1>5 DEF Becomes

LEMMA SubscribedTyped ==
  ASSUME NEW b, NEW c \in compose!Composers, Typed(b[c]), NEW r, NEW w
  PROVE  Becomes(b[c], compose!Subscribed(b, r, w)[c])
<1> DEFINE l == [b[c] EXCEPT !.reply = compose!Nothing]
<1>1. Typed(l) /\ l.reply = compose!Nothing
  BY DEF Typed, BoxType
<1>2. compose!Subscribed(b, r, w)[c] \in {b[c], compose!Recheck(l), l}
  BY DEF compose!Subscribed
<1> HIDE DEF l
<1>3. Typed(compose!Recheck(l)) /\ compose!Recheck(l).reply = compose!Nothing
  BY <1>1, RecheckTyped
<1> QED
  BY <1>1, <1>2, <1>3 DEF Becomes

\* A step in which no composer gets a message to reply to.
LEMMA BecomeStep ==
  ASSUME BoxTypes, \A c \in compose!Composers : Becomes(box[c], box'[c])
  PROVE  BoxTypes'
BY NoneFacts DEF BoxTypes, Becomes, Replying

LEMMA OnlyTyped ==
  ASSUME BoxTypes, NEW c, NEW k, compose!Only(c, k),
         c \in compose!Composers => Becomes(box[c], k)
  PROVE  BoxTypes'
<1>1. \A d \in compose!Composers : Becomes(box[d], box'[d])
  BY DEF compose!Only, compose!With, BoxTypes, Becomes
<1> QED
  BY <1>1, BecomeStep

LEMMA ComposeTypesStart == compose!ComposeInit => ComposeTypes
<1> SUFFICES ASSUME compose!ComposeInit PROVE ComposeTypes
  OBVIOUS
<1>1. PlaceTypes
  <2>1. typed \in Seq(compose!Places) /\ Len(typed) = 0
    BY DEF compose!ComposeInit
  <2> QED
    BY <2>1, TextFacts, NoneFacts, Bounds DEF compose!ComposeInit, PlaceTypes
<1>2. BoxTypes
  BY BlankTyped, NoneFacts DEF compose!ComposeInit, BoxTypes, Replying
<1>3. WaitTypes
  BY DEF compose!ComposeInit, WaitTypes
<1> QED
  BY <1>1, <1>2, <1>3, ComposeStart DEF ComposeTypes


\* Texts, drafts and what is replied to.
LEMMA PlaceTypesStep ==
  ASSUME ComposeTypes, compose!ComposeNext
  PROVE  PlaceTypes'
<1>1. opened' \in compose!Places
  <2>1. UNCHANGED opened \/ opened' = None \/ \E t \in Threads : opened' = t
    BY ZenonT(60) DEF compose!ComposeNext, compose!Escape, compose!Reenter, compose!CloseThread,
       compose!CancelReply, compose!Whisper, compose!Announce, compose!Share, compose!OpenPoll,
       compose!Answered, compose!OpenThread, compose!Reply, compose!Type, compose!Blur,
       compose!SaveDraft, compose!Attach, compose!Detach, compose!OpenSign, compose!CloseSign,
       compose!StopEdit, compose!SubmitEdit, compose!SubmitSign, compose!SubmitAwaited,
       compose!SubmitPoll, compose!SubmitShared, compose!SubmitFile, compose!SubmitText,
       compose!Edit, compose!RootArrives, compose!ReplyArrives, compose!PreviewArrives,
       compose!Done, compose!Fails
  <2> QED
    BY SMTT(30), <2>1, NoneFacts DEF ComposeTypes, PlaceTypes
<1>2. replyingTo' \in compose!Places \cup {compose!Nothing}
  <2>1. UNCHANGED replyingTo \/ replyingTo' = compose!Nothing \/ \E p \in compose!Places : replyingTo' = p
    BY ZenonT(60) DEF compose!ComposeNext, compose!Escape, compose!Reenter, compose!CloseThread,
       compose!CancelReply, compose!Whisper, compose!Announce, compose!Share, compose!OpenPoll,
       compose!Answered, compose!OpenThread, compose!Reply, compose!Type, compose!Blur,
       compose!SaveDraft, compose!Attach, compose!Detach, compose!OpenSign, compose!CloseSign,
       compose!StopEdit, compose!SubmitEdit, compose!SubmitSign, compose!SubmitAwaited,
       compose!SubmitPoll, compose!SubmitShared, compose!SubmitFile, compose!SubmitText,
       compose!Edit, compose!RootArrives, compose!ReplyArrives, compose!PreviewArrives,
       compose!Done, compose!Fails
  <2> QED
    BY <2>1 DEF ComposeTypes, PlaceTypes
<1>3. drafts' \in [compose!Places -> compose!Texts]
  <2>1. \/ UNCHANGED drafts
        \/ drafts' = compose!Cleared
        \/ \E c \in compose!Composers : compose!SaveDraft(c)
        \/ \E w \in waits : drafts' = [drafts EXCEPT ![opened] = w.text]
    BY ZenonT(60) DEF compose!ComposeNext, compose!Escape, compose!Reenter, compose!CloseThread,
       compose!CancelReply, compose!Whisper, compose!Announce, compose!Share, compose!OpenPoll,
       compose!Answered, compose!OpenThread, compose!Reply, compose!Type, compose!Blur,
       compose!Attach, compose!Detach, compose!OpenSign, compose!CloseSign,
       compose!StopEdit, compose!SubmitEdit, compose!SubmitSign, compose!SubmitAwaited,
       compose!SubmitPoll, compose!SubmitShared, compose!SubmitFile, compose!SubmitText,
       compose!Edit, compose!RootArrives, compose!ReplyArrives, compose!PreviewArrives,
       compose!Done, compose!Fails
  <2>2. \A t \in compose!Texts : [drafts EXCEPT ![opened] = t] \in [compose!Places -> compose!Texts]
    BY DEF ComposeTypes, PlaceTypes
  <2>3. CASE \E c \in compose!Composers : compose!SaveDraft(c)
    <3>1. PICK c \in compose!Composers : box[c].save # -1 /\ drafts' = [drafts EXCEPT ![opened] = box[c].save]
      BY <2>3 DEF compose!SaveDraft
    <3>2. box[c].save \in compose!Texts
      BY <3>1 DEF ComposeTypes, BoxTypes, Typed, BoxType
    <3> QED
      BY <2>2, <3>1, <3>2
  <2>4. CASE \E w \in waits : drafts' = [drafts EXCEPT ![opened] = w.text]
    BY <2>2, <2>4 DEF ComposeTypes, WaitTypes, WaitOK
  <2>5. CASE drafts' = compose!Cleared
    BY <2>2, <2>5, TextFacts DEF compose!Cleared
  <2>6. CASE UNCHANGED drafts
    BY <2>6 DEF ComposeTypes, PlaceTypes
  <2> QED
    BY <2>1, <2>3, <2>4, <2>5, <2>6
<1>4. typed' \in Seq(compose!Places) /\ Len(typed') <= MaxTyped
  <2>1. UNCHANGED typed \/ \E c \in compose!Composers : compose!Type(c)
    BY ZenonT(60) DEF compose!ComposeNext, compose!Escape, compose!Reenter, compose!CloseThread,
       compose!CancelReply, compose!Whisper, compose!Announce, compose!Share, compose!OpenPoll,
       compose!Answered, compose!OpenThread, compose!Reply, compose!Blur,
       compose!SaveDraft, compose!Attach, compose!Detach, compose!OpenSign, compose!CloseSign,
       compose!StopEdit, compose!SubmitEdit, compose!SubmitSign, compose!SubmitAwaited,
       compose!SubmitPoll, compose!SubmitShared, compose!SubmitFile, compose!SubmitText,
       compose!Edit
  <2>2. CASE UNCHANGED typed
    BY <2>2 DEF ComposeTypes, PlaceTypes
  <2>3. CASE \E c \in compose!Composers : compose!Type(c)
    <3>1. PICK p \in compose!Places : typed' = Append(typed, p) /\ Len(typed) < MaxTyped
      BY <2>3, NoneFacts DEF compose!Type, ComposeTypes, PlaceTypes
    <3>2. typed \in Seq(compose!Places) /\ Len(typed) \in Nat
      BY LenProperties DEF ComposeTypes, PlaceTypes
    <3>3. typed' \in Seq(compose!Places) /\ Len(typed') = Len(typed) + 1
      BY <3>1, <3>2, AppendProperties
    <3> QED
      BY <3>1, <3>2, <3>3, Bounds
  <2> QED
    BY SMTT(30), <2>1, <2>2, <2>3
<1>5. acts' \in 0 .. MaxActs
  <2>1. UNCHANGED acts \/ compose!Act
    BY ZenonT(60) DEF compose!ComposeNext, compose!Escape, compose!Reenter, compose!CloseThread,
       compose!CancelReply, compose!Whisper, compose!Announce, compose!Share, compose!OpenPoll,
       compose!Answered, compose!OpenThread, compose!Reply, compose!Type, compose!Blur,
       compose!SaveDraft, compose!Attach, compose!Detach, compose!OpenSign, compose!CloseSign,
       compose!StopEdit, compose!SubmitEdit, compose!SubmitSign, compose!SubmitAwaited,
       compose!SubmitPoll, compose!SubmitShared, compose!SubmitFile, compose!SubmitText,
       compose!Edit
  <2> QED
    BY <2>1, Bounds DEF compose!Act, ComposeTypes, PlaceTypes
<1> QED
  BY <1>1, <1>2, <1>3, <1>4, <1>5 DEF PlaceTypes

\* What is waited for.
LEMMA WaitFacts ==
  ASSUME NEW c \in compose!Composers \cup {"gone"}, NEW op, NEW at, NEW t \in compose!Texts,
         op \in {"root", "mount", "reply"} => at \in compose!Places,
         op = "preview" => at \in FileMessages
  PROVE  /\ WaitOK(compose!Wait(c, op, at, t))
         /\ \A r : WaitOK([compose!Wait(c, op, at, t) EXCEPT !.reply = r])
BY DEF compose!Wait, WaitOK

LEMMA OrphanFacts ==
  ASSUME ComposeTypes, NEW C \in SUBSET compose!Composers
  PROVE  \A w \in compose!Orphans(C) : WaitOK(w)
<1>1. ASSUME NEW v \in waits, v.op \in {"announce", "whisper", "sign", "upload"}
      PROVE  WaitOK([v EXCEPT !.c = "gone", !.at = IF v.op = "upload" THEN box[v.c].root ELSE v.at])
  <2>1. WaitOK(v)
    BY DEF ComposeTypes, WaitTypes
  <2>2. \A at : WaitOK([v EXCEPT !.c = "gone", !.at = at])
    BY <1>1, <2>1 DEF WaitOK
  <2> QED
    BY <2>2
<1>2. ASSUME NEW c \in C, box[c].save # -1
      PROVE  WaitOK(compose!Wait("gone", "save", compose!Nothing, box[c].save))
  <2>1. box[c].save \in compose!Texts
    BY <1>2 DEF ComposeTypes, BoxTypes, Typed, BoxType
  <2> QED
    BY <2>1, WaitFacts
<1> QED
  BY <1>1, <1>2 DEF compose!Orphans, ComposeTypes, WaitTypes

LEMMA WaitTypesStep ==
  ASSUME ComposeTypes, compose!ComposeNext
  PROVE  WaitTypes'
<1>1. \A w \in waits : WaitOK(w)
  BY DEF ComposeTypes, WaitTypes
<1>2. "timeline" \in compose!Composers /\ "thread" \in compose!Composers
  BY DEF compose!Composers
<1>3. CASE \/ waits' \subseteq waits
  BY <1>1, <1>3 DEF WaitTypes
<1>4. CASE \E t \in Threads : compose!OpenThread(t)
  <2>1. PICK t \in Threads, op \in {"mount", "root"} : waits' = waits \cup {compose!Wait("thread", op, t, 0)}
    BY <1>4 DEF compose!OpenThread
  <2>2. WaitOK(compose!Wait("thread", op, t, 0))
    BY <1>2, TextFacts, NoneFacts, WaitFacts
  <2> QED
    BY <1>1, <2>1, <2>2 DEF WaitTypes
<1>5. CASE compose!CloseThread
  <2>1. waits' = compose!Orphans({"thread"})
    BY <1>5 DEF compose!CloseThread
  <2> QED
    BY <1>2, <2>1, OrphanFacts DEF WaitTypes
<1>6. CASE compose!Reenter
  <2>1. waits' = compose!Orphans(compose!Composers) \cup {compose!Wait("timeline", "mount", None, 0)}
    BY <1>6 DEF compose!Reenter
  <2>2. WaitOK(compose!Wait("timeline", "mount", None, 0))
    BY <1>2, TextFacts, NoneFacts, WaitFacts
  <2> QED
    BY <2>1, <2>2, OrphanFacts DEF WaitTypes
<1>7. ASSUME NEW p \in compose!Places
      PROVE  \A w \in compose!Replies(p) : WaitOK(w)
  BY TextFacts, WaitFacts DEF compose!Replies
<1>8. CASE \E p \in compose!Places : compose!Reply(p)
  BY <1>1, <1>7, <1>8 DEF WaitTypes, compose!Reply
<1>9. CASE compose!Share
  BY <1>1, <1>7, <1>9 DEF WaitTypes, compose!Share, ComposeTypes, PlaceTypes
<1>10. CASE \E c \in compose!Composers : \E m \in compose!Editable, t \in {0, compose!Body} : compose!Edit(c, m, t)
  <2>1. PICK c \in compose!Composers, m \in compose!Editable, t \in {0, compose!Body} : compose!Edit(c, m, t)
    BY <1>10
  <2>2. CASE m \in FileMessages
    <3>1. waits' = waits \cup {compose!Wait(c, "preview", m, 0)}
      BY <2>1, <2>2 DEF compose!Edit
    <3>2. WaitOK(compose!Wait(c, "preview", m, 0))
      BY <2>2, TextFacts, WaitFacts
    <3> QED
      BY <1>1, <3>1, <3>2 DEF WaitTypes
  <2>3. CASE m \notin FileMessages
    BY <1>1, <2>1, <2>3 DEF WaitTypes, compose!Edit
  <2> QED
    BY <2>2, <2>3
<1>11. CASE \E c \in compose!Composers :
              \/ compose!SubmitEdit(c) \/ compose!SubmitSign(c) \/ compose!SubmitAwaited(c)
              \/ compose!SubmitShared(c) \/ compose!SubmitFile(c)
  <2>1. PICK c \in compose!Composers :
          \/ compose!SubmitEdit(c) \/ compose!SubmitSign(c) \/ compose!SubmitAwaited(c)
          \/ compose!SubmitShared(c) \/ compose!SubmitFile(c)
    BY <1>11
  <2>2. \A op \in {"edit", "sign", "announce", "whisper", "file", "upload"} : \A at, r :
          /\ WaitOK(compose!Wait(c, op, at, 0))
          /\ WaitOK([compose!Wait(c, op, at, 0) EXCEPT !.reply = r])
    BY TextFacts, WaitFacts
  <2>3. CASE compose!SubmitEdit(c) \/ compose!SubmitShared(c)
    <3>1. \E op \in {"edit", "file"} : \E at : waits' = waits \cup {compose!Wait(c, op, at, 0)}
      BY <2>3 DEF compose!SubmitEdit, compose!SubmitShared
    <3> QED
      BY <1>1, <2>2, <3>1 DEF WaitTypes
  <2>4. CASE compose!SubmitSign(c) \/ compose!SubmitAwaited(c) \/ compose!SubmitFile(c)
    <3>1. PICK op \in {"sign", "announce", "whisper", "upload"} : compose!Starts(c, op)
      <4>1. CASE compose!SubmitSign(c)
        BY <4>1 DEF compose!SubmitSign
      <4>2. CASE compose!SubmitAwaited(c)
        <5>1. compose!Starts(c, IF box[c].announce THEN "announce" ELSE "whisper")
          BY <4>2 DEF compose!SubmitAwaited
        <5>2. CASE box[c].announce
          BY <5>1, <5>2
        <5>3. CASE ~box[c].announce
          BY <5>1, <5>3
        <5> QED
          BY <5>2, <5>3
      <4>3. CASE compose!SubmitFile(c)
        BY <4>3 DEF compose!SubmitFile
      <4> QED
        BY <2>4, <4>1, <4>2, <4>3
    <3>2. PICK at : at = box[c].root
      OBVIOUS
    <3>3. PICK r : waits' = waits \cup {[compose!Wait(c, op, at, 0) EXCEPT !.reply = r]}
      BY <3>1, <3>2 DEF compose!Starts
    <3> DEFINE w == [compose!Wait(c, op, at, 0) EXCEPT !.reply = r]
    <3>4. WaitOK(w) /\ waits' = waits \cup {w}
      BY <2>2, <3>3
    <3> HIDE DEF w
    <3> QED
      BY <1>1, <3>4 DEF WaitTypes
  <2> QED
    BY <2>1, <2>3, <2>4
<1>12. CASE \/ compose!Escape \/ compose!CancelReply \/ compose!Whisper \/ compose!Announce
            \/ compose!OpenPoll \/ compose!Answered
            \/ \E c \in compose!Composers :
                 \/ compose!Type(c) \/ compose!Blur(c) \/ compose!SaveDraft(c) \/ compose!Attach(c)
                 \/ compose!Detach(c) \/ compose!OpenSign(c) \/ compose!CloseSign(c)
                 \/ compose!StopEdit(c) \/ compose!SubmitPoll(c) \/ compose!SubmitText(c)
  <2>1. waits' \subseteq waits
    BY <1>12 DEF compose!Escape, compose!CancelReply, compose!Whisper, compose!Announce, compose!OpenPoll,
       compose!Answered, compose!Type, compose!Blur, compose!SaveDraft, compose!Attach,
       compose!Detach, compose!OpenSign, compose!CloseSign, compose!StopEdit,
       compose!SubmitPoll, compose!SubmitText
  <2> QED
    BY <1>3, <2>1
<1> QED
  BY <1>4, <1>5, <1>6, <1>8, <1>9, <1>10, <1>11, <1>12 DEF compose!ComposeNext


\* Typing, drafts, threads and what is replied to.
LEMMA TypeBoxes ==
  ASSUME ComposeTypes, NEW c \in compose!Composers,
         \/ compose!Type(c) \/ compose!Blur(c) \/ compose!SaveDraft(c) \/ compose!Escape
  PROVE  BoxTypes'
<1>1. BoxTypes /\ Typed(box[c])
  BY DEF ComposeTypes, BoxTypes
<1>2. CASE compose!Type(c)
  <2> DEFINE l == [box[c] EXCEPT !.mention = TRUE]
             t == Len(typed')
  <2>1. Typed(l) /\ l.reply = box[c].reply
    BY ZenonT(60), <1>1 DEF Typed, BoxType
  <2>2. t \in compose!Texts
    <3>1. PICK p \in compose!Places : typed' = Append(typed, p) /\ Len(typed) < MaxTyped
      BY <1>2, NoneFacts DEF compose!Type, ComposeTypes, PlaceTypes
    <3>2. typed \in Seq(compose!Places) /\ Len(typed) \in Nat
      BY LenProperties DEF ComposeTypes, PlaceTypes
    <3>3. t = Len(typed) + 1
      BY <3>1, <3>2, AppendProperties
    <3>4. t \in 0 .. MaxTyped
      BY <3>1, <3>2, <3>3, Bounds
    <3> QED
      BY <3>4, TextFacts
  <2>3. \A d \in compose!Composers :
          box'[d] = IF d = c THEN compose!SetText(l, t) ELSE compose!Hears(box[d], FALSE)
    BY <1>2 DEF compose!Type
  <2> HIDE DEF l, t
  <2>4. Becomes(box[c], compose!SetText(l, t))
    BY <2>1, <2>2, TextTyped DEF Becomes
  <2>5. \A d \in compose!Composers : Becomes(box[d], compose!Hears(box[d], FALSE))
    BY <1>1, HearsTyped DEF BoxTypes
  <2>6. \A d \in compose!Composers : Becomes(box[d], box'[d])
    BY <2>3, <2>4, <2>5
  <2> QED
    BY <1>1, <2>6, BecomeStep
<1>3. CASE compose!Blur(c)
  <2> DEFINE l == [box[c] EXCEPT !.mention = FALSE]
  <2>1. Becomes(box[c], l)
    BY ZenonT(60), <1>1 DEF Typed, BoxType, Becomes
  <2>2. compose!Only(c, l)
    BY <1>3 DEF compose!Blur
  <2> HIDE DEF l
  <2> QED
    BY <1>1, <2>1, <2>2, OnlyTyped
<1>4. CASE compose!SaveDraft(c)
  <2> DEFINE l == [box[c] EXCEPT !.save = -1]
  <2>1. Becomes(box[c], l)
    BY <1>1 DEF Typed, BoxType, Becomes
  <2>2. compose!Only(c, l)
    BY <1>4 DEF compose!SaveDraft
  <2> HIDE DEF l
  <2> QED
    BY <1>1, <2>1, <2>2, OnlyTyped
<1>5. CASE compose!Escape
  <2>1. \A d \in compose!Composers : /\ Becomes(box[d], compose!Hears(box[d], TRUE))
                                     /\ Becomes(box[d], box[d])
    BY <1>1, HearsTyped DEF BoxTypes, Becomes
  <2>2. \A d \in compose!Composers : box'[d] \in {box[d], compose!Hears(box[d], TRUE)}
    BY <1>5 DEF compose!Escape
  <2>3. \A d \in compose!Composers : Becomes(box[d], box'[d])
    BY <2>1, <2>2
  <2> QED
    BY <1>1, <2>3, BecomeStep
<1> QED
  BY <1>2, <1>3, <1>4, <1>5

LEMMA ThreadBoxes ==
  ASSUME ComposeTypes,
         \/ \E t \in Threads : compose!OpenThread(t)
         \/ \E p \in compose!Places : compose!Reply(p)
         \/ compose!CloseThread \/ compose!Reenter \/ compose!CancelReply \/ compose!Whisper
         \/ compose!Announce
  PROVE  BoxTypes'
<1>1. BoxTypes /\ \A d \in compose!Composers : Typed(box[d])
  BY DEF ComposeTypes, BoxTypes
<1>2. CASE \/ \E t \in Threads : compose!OpenThread(t)
           \/ \E p \in compose!Places : compose!Reply(p)
           \/ compose!CancelReply \/ compose!Whisper
  <2>1. box' = box \/ \E r, w : box' = compose!Subscribed(box, r, w)
    BY <1>2 DEF compose!OpenThread, compose!Reply, compose!CancelReply, compose!Whisper
  <2>2. \A d \in compose!Composers : /\ Becomes(box[d], box[d])
                                     /\ \A r, w : Becomes(box[d], compose!Subscribed(box, r, w)[d])
    BY <1>1, SubscribedTyped DEF Becomes
  <2>3. \A d \in compose!Composers : Becomes(box[d], box'[d])
    BY <2>1, <2>2
  <2> QED
    BY <1>1, <2>3, BecomeStep
<1>3. CASE compose!CloseThread
  <2>1. compose!Only("thread", compose!Blank) /\ Becomes(box["thread"], compose!Blank)
    BY <1>3, BlankTyped DEF compose!CloseThread, Becomes
  <2> QED
    BY <1>1, <2>1, OnlyTyped
<1>4. CASE compose!Reenter
  <2>1. \A d \in compose!Composers : Becomes(box[d], box'[d])
    BY <1>4, BlankTyped DEF compose!Reenter, Becomes
  <2> QED
    BY <1>1, <2>1, BecomeStep
<1>5. CASE compose!Announce
  <2>1. "timeline" \in compose!Composers
    BY DEF compose!Composers
  <2>2. PICK b \in BOOLEAN : b = ~box["timeline"].announce
    OBVIOUS
  <2> DEFINE l == [box["timeline"] EXCEPT !.announce = b]
  <2>3. Becomes(box["timeline"], l)
    BY <1>1, <2>1 DEF Typed, BoxType, Becomes
  <2>4. compose!Only("timeline", l)
    BY <1>5, <2>2, <1>1, <2>1 DEF compose!Announce, Typed, BoxType
  <2> HIDE DEF l
  <2> QED
    BY <1>1, <2>3, <2>4, OnlyTyped
<1> QED
  BY <1>2, <1>3, <1>4, <1>5

\* The modes.
LEMMA ModeBoxes ==
  ASSUME ComposeTypes, NEW c \in compose!Composers,
         \/ compose!Attach(c) \/ compose!Detach(c) \/ compose!OpenSign(c) \/ compose!CloseSign(c)
         \/ compose!StopEdit(c) \/ compose!OpenPoll \/ compose!Share
  PROVE  BoxTypes'
<1>1. BoxTypes /\ \A d \in compose!Composers : Typed(box[d])
  BY DEF ComposeTypes, BoxTypes
<1>2. CASE compose!Attach(c)
  <2> DEFINE l == [box[c] EXCEPT !.file = TRUE, !.share = 0, !.send = TRUE]
  <2>1. Becomes(box[c], l)
    BY ZenonT(60), <1>1 DEF Typed, BoxType, Becomes
  <2>2. compose!Only(c, l)
    BY <1>2 DEF compose!Attach
  <2> HIDE DEF l
  <2> QED
    BY <1>1, <2>1, <2>2, OnlyTyped
<1>3. CASE compose!Detach(c)
  <2> DEFINE k == box[c]
             l == IF k.file THEN [k EXCEPT !.file = FALSE]
                  ELSE IF k.existing # compose!Nothing THEN [k EXCEPT !.existing = compose!Nothing, !.dropped = k.existing]
                  ELSE [k EXCEPT !.share = 0]
  <2>1. /\ Becomes(k, [k EXCEPT !.file = FALSE]) /\ Becomes(k, [k EXCEPT !.share = 0])
        /\ Becomes(k, [k EXCEPT !.existing = compose!Nothing, !.dropped = k.existing])
    BY ZenonT(60), <1>1 DEF Typed, BoxType, Becomes
  <2>2. Becomes(k, l)
    BY <2>1
  <2>3. compose!Only(c, compose!Recheck(l))
    BY <1>3 DEF compose!Detach
  <2> HIDE DEF l
  <2>4. Becomes(k, compose!Recheck(l))
    BY <2>2, RecheckTyped DEF Becomes
  <2> QED
    BY <1>1, <2>3, <2>4, OnlyTyped
<1>4. CASE compose!OpenSign(c)
  <2> DEFINE k == compose!ResetAll(box[c])
             l == [k EXCEPT !.send = box[c].send, !.file = box[c].file, !.sign = TRUE]
  <2>1. Typed(k) /\ k.reply = box[c].reply /\ k.share = 0 /\ ~k.poll
    BY <1>1, ResetTyped
  <2>2. box[c].send \in BOOLEAN /\ box[c].file \in BOOLEAN
    BY <1>1 DEF Typed, BoxType
  <2> HIDE DEF k
  <2>3. Becomes(box[c], l)
    BY <2>1, <2>2 DEF Typed, BoxType, Becomes
  <2>4. compose!Only(c, l)
    BY <1>4 DEF compose!OpenSign, k
  <2> HIDE DEF l
  <2> QED
    BY <1>1, <2>3, <2>4, OnlyTyped
<1>5. CASE compose!CloseSign(c)
  <2> DEFINE l == [box[c] EXCEPT !.sign = FALSE]
  <2>1. Becomes(box[c], l)
    BY ZenonT(60), <1>1 DEF Typed, BoxType, Becomes
  <2>2. compose!Only(c, l)
    BY <1>5 DEF compose!CloseSign
  <2> HIDE DEF l
  <2> QED
    BY <1>1, <2>1, <2>2, OnlyTyped
<1>6. CASE compose!StopEdit(c)
  <2>1. compose!Only(c, compose!CancelEdit(box[c])) /\ Becomes(box[c], compose!CancelEdit(box[c]))
    BY <1>1, <1>6, CancelTyped DEF compose!StopEdit
  <2> QED
    BY <1>1, <2>1, OnlyTyped
<1>7. "timeline" \in compose!Composers
  BY DEF compose!Composers
<1>8. CASE compose!OpenPoll
  <2> DEFINE k == compose!ResetAll(box["timeline"])
  <2>1. PICK complete \in BOOLEAN : compose!Only("timeline", [k EXCEPT !.poll = TRUE, !.send = complete])
    BY <1>8 DEF compose!OpenPoll
  <2>2. Typed(k) /\ k.reply = box["timeline"].reply /\ ~k.sign
    BY <1>1, <1>7, ResetTyped
  <2> HIDE DEF k
  <2> DEFINE l == [k EXCEPT !.poll = TRUE, !.send = complete]
  <2>3. Becomes(box["timeline"], l)
    BY ZenonT(60), <2>2 DEF Typed, BoxType, Becomes
  <2> HIDE DEF l
  <2> QED
    BY <1>1, <2>1, <2>3, OnlyTyped DEF l
<1>9. CASE compose!Share
  <2> DEFINE k == IF box["timeline"].edit # compose!Nothing THEN compose!CancelEdit(box["timeline"]) ELSE box["timeline"]
             r == compose!ResetAll(k)
             n == Len(shared')
             l == [r EXCEPT !.share = n, !.send = TRUE, !.reply = compose!Nothing]
  <2>1. shared' = Append(shared, 0) /\ compose!Only("timeline", l)
    BY <1>9 DEF compose!Share
  <2>2. n \in Nat
    <3>1. shared \in Seq({0, 1}) /\ 0 \in {0, 1}
      BY DEF ComposeTypes, ComposeInv
    <3> QED
      BY <2>1, <3>1, AppendProperties, LenProperties
  <2> HIDE DEF n
  <2>3. Typed(k)
    BY <1>1, <1>7, CancelTyped DEF Becomes
  <2> HIDE DEF k
  <2>4. Typed(r) /\ ~r.file
    BY <2>3, ResetTyped
  <2> HIDE DEF r
  <2>5. Becomes(box["timeline"], l)
    BY <2>2, <2>4 DEF Typed, BoxType, Becomes
  <2> HIDE DEF l
  <2> QED
    BY <1>1, <2>1, <2>5, OnlyTyped
<1> QED
  BY <1>2, <1>3, <1>4, <1>5, <1>6, <1>8, <1>9

LEMMA EditBoxes ==
  ASSUME ComposeTypes, NEW c \in compose!Composers, NEW m \in compose!Editable,
         NEW t \in {0, compose!Body}, compose!Edit(c, m, t)
  PROVE  BoxTypes'
<1>1. PICK no : no = FALSE
  OBVIOUS
<1> DEFINE b == compose!Subscribed(box, compose!Nothing, no)
           s == compose!SetText(b[c], t)
           k == [s EXCEPT !.original = m, !.dropped = compose!Nothing]
           r == compose!ResetAll(k)
           l == [r EXCEPT !.edit = m]
<1>2. BoxTypes /\ \A d \in compose!Composers : Becomes(box[d], b[d])
  BY SubscribedTyped DEF ComposeTypes, BoxTypes
<1>3. box' = compose!With(b, c, k) \/ box' = compose!With(b, c, compose!Recheck(l))
  BY <1>1 DEF compose!Edit
<1>4. t \in compose!Texts
  BY TextFacts
<1> HIDE DEF b
<1>5. Typed(s) /\ s.reply = b[c].reply
  BY <1>2, <1>4, TextTyped DEF Becomes
<1> HIDE DEF s
<1>6. Typed(k) /\ k.reply = b[c].reply
  BY ZenonT(60), <1>5 DEF Typed, BoxType
<1> HIDE DEF k
<1>7. Typed(r) /\ r.reply = b[c].reply
  BY <1>6, ResetTyped
<1> HIDE DEF r
<1>8. Typed(l) /\ l.reply = b[c].reply
  BY <1>7 DEF Typed, BoxType
<1> HIDE DEF l
<1>9. Typed(compose!Recheck(l)) /\ compose!Recheck(l).reply = b[c].reply
  BY <1>8, RecheckTyped
<1>10. \A d \in compose!Composers : Becomes(box[d], box'[d])
  BY <1>2, <1>3, <1>6, <1>9 DEF compose!With, Becomes
<1> QED
  BY <1>2, <1>10, BecomeStep


\* What is sent.
LEMMA SubmitBoxes ==
  ASSUME ComposeTypes, NEW c \in compose!Composers,
         \/ compose!SubmitEdit(c) \/ compose!SubmitSign(c) \/ compose!SubmitAwaited(c)
         \/ compose!SubmitPoll(c) \/ compose!SubmitShared(c) \/ compose!SubmitFile(c)
         \/ compose!SubmitText(c)
  PROVE  BoxTypes'
<1>1. BoxTypes /\ \A d \in compose!Composers : Typed(box[d])
  BY DEF ComposeTypes, BoxTypes
<1> DEFINE b == compose!Subscribed(box, compose!Nothing, whispering)
<1>2. \A d \in compose!Composers : Becomes(box[d], b[d]) /\ Becomes(box[d], box[d])
  BY <1>1, SubscribedTyped DEF Becomes
<1>3. CASE box' = box \/ box' = b
  BY SMTT(30), <1>1, <1>2, <1>3, BecomeStep
<1>4. CASE compose!SubmitEdit(c) \/ compose!SubmitSign(c) \/ compose!SubmitAwaited(c) \/ compose!SubmitFile(c)
  <2>1. box' = box \/ box' = b
    BY <1>4 DEF compose!SubmitEdit, compose!SubmitSign, compose!SubmitAwaited, compose!SubmitFile
  <2> QED
    BY <1>3, <2>1
<1>5. CASE compose!SubmitPoll(c)
  <2>1. compose!Only(c, compose!SetText(compose!ResetAll(box[c]), 0))
    BY <1>5 DEF compose!SubmitPoll
  <2>2. Typed(compose!ResetAll(box[c])) /\ compose!ResetAll(box[c]).reply = box[c].reply
    BY <1>1, ResetTyped
  <2>3. Becomes(box[c], compose!SetText(compose!ResetAll(box[c]), 0))
    BY <2>2, TextFacts, TextTyped DEF Becomes
  <2> QED
    BY <1>1, <2>1, <2>3, OnlyTyped
<1> HIDE DEF b
<1>6. CASE compose!SubmitText(c)
  <2>1. box' = compose!With(b, c, compose!SetText(b[c], 0))
    BY <1>6 DEF compose!SubmitText, b
  <2>2. Becomes(box[c], compose!SetText(b[c], 0))
    BY <1>2, TextFacts, TextTyped DEF Becomes
  <2>3. \A d \in compose!Composers : Becomes(box[d], box'[d])
    BY <1>2, <2>1, <2>2 DEF compose!With
  <2> QED
    BY <1>1, <2>3, BecomeStep
<1>7. CASE compose!SubmitShared(c)
  <2> DEFINE e == [b[c] EXCEPT !.share = 0]
             s == compose!SetText(e, 0)
  <2>1. box' = compose!With(b, c, compose!Recheck(s))
    BY <1>7 DEF compose!SubmitShared, compose!Emptied, b
  <2>2. Typed(e) /\ e.reply = b[c].reply
    BY <1>2 DEF Becomes, Typed, BoxType
  <2> HIDE DEF e
  <2>3. Typed(s) /\ s.reply = b[c].reply
    BY <2>2, TextFacts, TextTyped
  <2> HIDE DEF s
  <2>4. Becomes(box[c], compose!Recheck(s))
    BY <1>2, <2>3, RecheckTyped DEF Becomes
  <2>5. \A d \in compose!Composers : Becomes(box[d], box'[d])
    BY <1>2, <2>1, <2>4 DEF compose!With
  <2> QED
    BY <1>1, <2>5, BecomeStep
<1> QED
  BY <1>4, <1>5, <1>6, <1>7

\* What a request or an upload comes to.
LEMMA DoneBoxes ==
  ASSUME ComposeTypes, NEW w \in waits, compose!Done(w) \/ compose!Fails(w)
  PROVE  BoxTypes'
<1>1. BoxTypes /\ \A d \in compose!Composers : Typed(box[d])
  BY DEF ComposeTypes, BoxTypes
<1> DEFINE k == compose!Box(w.c)
<1>2. Typed(k) /\ (w.c \in compose!Composers => k = box[w.c])
  BY <1>1, BlankTyped DEF compose!Box
<1>3. \/ box' = box
      \/ compose!Only(w.c, [compose!SetText(k, 0) EXCEPT !.announce = FALSE])
      \/ box' = compose!With(compose!Subscribed(box, replyingTo, FALSE), w.c,
                             compose!SetText([k EXCEPT !.reply = compose!Nothing], 0))
      \/ compose!Only(w.c, compose!SetText([k EXCEPT !.sign = FALSE], 0))
      \/ compose!Only(w.c, compose!Recheck(compose!SetText([k EXCEPT !.file = FALSE], 0)))
      \/ compose!Only(w.c, compose!Recheck([k EXCEPT !.file = FALSE]))
      \/ compose!Only(w.c, compose!CancelEdit(k))
  BY DEF compose!Done, compose!Fails
<1> HIDE DEF k
<1>4. ASSUME NEW l, Becomes(k, l), compose!Only(w.c, l)
      PROVE  BoxTypes'
  <2>1. w.c \in compose!Composers => Becomes(box[w.c], l)
    BY <1>2, <1>4
  <2> QED
    BY <1>1, <1>4, <2>1, OnlyTyped
<1>5. CASE compose!Only(w.c, [compose!SetText(k, 0) EXCEPT !.announce = FALSE])
  <2> DEFINE s == compose!SetText(k, 0)
             l == [s EXCEPT !.announce = FALSE]
  <2>1. Typed(s) /\ s.reply = k.reply
    BY <1>2, TextFacts, TextTyped
  <2> HIDE DEF s
  <2>2. Becomes(k, l)
    BY ZenonT(60), <2>1 DEF Becomes, Typed, BoxType
  <2>3. compose!Only(w.c, l)
    BY <1>5 DEF s
  <2> HIDE DEF l
  <2> QED
    BY <1>4, <2>2, <2>3
<1>6. CASE box' = compose!With(compose!Subscribed(box, replyingTo, FALSE), w.c,
                               compose!SetText([k EXCEPT !.reply = compose!Nothing], 0))
  <2>0. PICK no : no = FALSE
    OBVIOUS
  <2> DEFINE l == [k EXCEPT !.reply = compose!Nothing]
             b == compose!Subscribed(box, replyingTo, no)
  <2>1. Typed(l) /\ l.reply = compose!Nothing
    BY <1>2 DEF Typed, BoxType
  <2>2. box' = compose!With(b, w.c, compose!SetText(l, 0))
    BY <1>6, <2>0
  <2>3. \A d \in compose!Composers : Becomes(box[d], b[d])
    BY <1>1, SubscribedTyped
  <2> HIDE DEF l, b
  <2>4. \A j : Becomes(j, compose!SetText(l, 0))
    BY <2>1, TextFacts, TextTyped DEF Becomes
  <2>5. \A d \in compose!Composers : Becomes(box[d], box'[d])
    BY <2>2, <2>3, <2>4 DEF compose!With
  <2> QED
    BY <1>1, <2>5, BecomeStep
<1>7. CASE compose!Only(w.c, compose!SetText([k EXCEPT !.sign = FALSE], 0))
  <2> DEFINE l == [k EXCEPT !.sign = FALSE]
  <2>1. Typed(l) /\ l.reply = k.reply
    BY ZenonT(60), <1>2 DEF Typed, BoxType
  <2>2. compose!Only(w.c, compose!SetText(l, 0))
    BY <1>7
  <2> HIDE DEF l
  <2>3. Becomes(k, compose!SetText(l, 0))
    BY <2>1, TextFacts, TextTyped DEF Becomes
  <2> QED
    BY <1>4, <2>2, <2>3
<1>8. CASE \/ compose!Only(w.c, compose!Recheck(compose!SetText([k EXCEPT !.file = FALSE], 0)))
           \/ compose!Only(w.c, compose!Recheck([k EXCEPT !.file = FALSE]))
  <2> DEFINE l == [k EXCEPT !.file = FALSE]
             s == compose!SetText(l, 0)
  <2>1. Typed(l) /\ l.reply = k.reply
    BY ZenonT(60), <1>2 DEF Typed, BoxType
  <2>2. compose!Only(w.c, compose!Recheck(s)) \/ compose!Only(w.c, compose!Recheck(l))
    BY <1>8
  <2> HIDE DEF l
  <2>3. Typed(s) /\ s.reply = k.reply
    BY <2>1, TextFacts, TextTyped
  <2> HIDE DEF s
  <2>4. Becomes(k, compose!Recheck(s)) /\ Becomes(k, compose!Recheck(l))
    BY <2>1, <2>3, RecheckTyped DEF Becomes
  <2> QED
    BY <1>4, <2>2, <2>4
<1>9. CASE compose!Only(w.c, compose!CancelEdit(k))
  BY <1>2, <1>4, <1>9, CancelTyped
<1>10. CASE box' = box
  BY <1>1, <1>10, BecomeStep DEF Becomes
<1> QED
  BY <1>3, <1>5, <1>6, <1>7, <1>8, <1>9, <1>10

\* What was fetched.
LEMMA FetchedBoxes ==
  ASSUME ComposeTypes, NEW w \in waits,
         \/ w.op \in {"root", "mount"} /\ compose!RootArrives(w)
         \/ w.op = "reply" /\ compose!ReplyArrives(w)
         \/ w.op = "preview" /\ compose!PreviewArrives(w)
  PROVE  BoxTypes'
<1>1. BoxTypes /\ WaitOK(w) /\ \A d \in compose!Composers : Typed(box[d])
  BY DEF ComposeTypes, BoxTypes, WaitTypes
<1> DEFINE k == box[w.c]
<1>2. CASE w.c \notin compose!Composers
  <2>1. \E l : compose!Only(w.c, l)
    BY DEF compose!RootArrives, compose!ReplyArrives, compose!PreviewArrives
  <2> QED
    BY <1>1, <1>2, <2>1, OnlyTyped
<1>3. CASE w.c \in compose!Composers /\ w.op \in {"root", "mount"} /\ compose!RootArrives(w)
  <2> DEFINE r == [k EXCEPT !.root = w.at]
             t == drafts[opened]
  <2>1. compose!Only(w.c, r) \/ compose!Only(w.c, compose!SetText(r, t))
    BY <1>3 DEF compose!RootArrives
  <2>2. w.at \in compose!Places /\ t \in compose!Texts
    BY <1>1, <1>3 DEF WaitOK, ComposeTypes, PlaceTypes
  <2>3. Typed(r) /\ r.reply = k.reply
    BY <1>1, <1>3, <2>2 DEF Typed, BoxType
  <2> HIDE DEF r, t
  <2>4. Becomes(k, r) /\ Becomes(k, compose!SetText(r, t))
    BY <2>2, <2>3, TextTyped DEF Becomes
  <2> QED
    BY <1>1, <2>1, <2>4, OnlyTyped
<1>4. CASE w.c \in compose!Composers /\ w.op = "preview" /\ compose!PreviewArrives(w)
  <2> DEFINE s == compose!ResetAll(k)
             r == [s EXCEPT !.edit = w.at, !.existing = w.at]
  <2>1. compose!Only(w.c, compose!Recheck(r))
    BY <1>4 DEF compose!PreviewArrives
  <2>2. w.at \in FileMessages /\ w.at \in compose!Editable
    BY <1>1, <1>4, NoneFacts DEF WaitOK
  <2>3. Typed(s) /\ s.reply = k.reply
    BY <1>1, <1>4, ResetTyped
  <2> HIDE DEF s
  <2>4. Typed(r) /\ r.reply = k.reply
    BY <2>2, <2>3 DEF Typed, BoxType
  <2> HIDE DEF r
  <2>5. Becomes(k, compose!Recheck(r))
    BY <2>4, RecheckTyped DEF Becomes
  <2> QED
    BY <1>1, <2>1, <2>5, OnlyTyped
<1>5. CASE w.c \in compose!Composers /\ w.op = "reply" /\ compose!ReplyArrives(w)
  <2> DEFINE r == [k EXCEPT !.reply = w.at]
  <2>1. CASE (w.c = "thread") = (w.at # None)
    <3>1. compose!Only(w.c, compose!Recheck(r))
      BY <1>5, <2>1 DEF compose!ReplyArrives
    <3>2. w.at \in compose!Places
      BY <1>1, <1>5 DEF WaitOK
    <3>3. Typed(r) /\ r.reply = w.at
      BY <1>1, <1>5, <3>2 DEF Typed, BoxType
    <3> HIDE DEF r
    <3>4. Typed(compose!Recheck(r)) /\ compose!Recheck(r).reply = w.at
      BY <3>3, RecheckTyped
    <3>5. Replying(w.c, w.at)
      BY <1>5, <2>1 DEF Replying, compose!Composers
    <3> QED
      BY <1>1, <3>1, <3>4, <3>5 DEF compose!Only, compose!With, BoxTypes
  <2>2. CASE (w.c = "thread") # (w.at # None)
    <3>1. compose!Only(w.c, compose!Recheck(k))
      BY <1>5, <2>2 DEF compose!ReplyArrives
    <3>2. Becomes(k, compose!Recheck(k))
      BY <1>1, <1>5, RecheckTyped DEF Becomes
    <3> QED
      BY <1>1, <3>1, <3>2, OnlyTyped
  <2> QED
    BY <2>1, <2>2
<1> QED
  BY <1>2, <1>3, <1>4, <1>5

LEMMA ComposeTypesStep ==
  ASSUME ComposeTypes, compose!ComposeNext \/ UNCHANGED composeVars
  PROVE  ComposeTypes'
<1>1. ComposeInv'
  BY ComposeStep DEF ComposeTypes
<1>2. CASE UNCHANGED composeVars
  BY <1>1, <1>2 DEF composeVars, ComposeTypes, PlaceTypes, BoxTypes, WaitTypes
<1>3. CASE compose!ComposeNext
  <2>1. CASE compose!Answered
    <3>1. PICK w \in waits :
            \/ w.op \in {"root", "mount"} /\ compose!RootArrives(w)
            \/ w.op = "reply" /\ compose!ReplyArrives(w)
            \/ w.op = "preview" /\ compose!PreviewArrives(w)
            \/ compose!Done(w)
            \/ compose!Fails(w)
      BY <2>1 DEF compose!Answered
    <3>2. BoxTypes'
      BY <3>1, DoneBoxes, FetchedBoxes
    <3> QED
      BY <1>1, <1>3, <3>2, PlaceTypesStep, WaitTypesStep DEF ComposeTypes
  <2>2. CASE ~compose!Answered
    <3>1. "timeline" \in compose!Composers
      BY DEF compose!Composers
    <3>2. BoxTypes'
      BY <1>3, <2>2, <3>1, TypeBoxes, ThreadBoxes, ModeBoxes, EditBoxes, SubmitBoxes
         DEF compose!ComposeNext
    <3> QED
      BY <1>1, <1>3, <3>2, PlaceTypesStep, WaitTypesStep DEF ComposeTypes
  <2> QED
    BY <2>1, <2>2
<1> QED
  BY <1>2, <1>3

LEMMA ComposeTypesShow == ComposeTypes => compose!ComposeTypeOK
<1> SUFFICES ASSUME ComposeTypes PROVE compose!ComposeTypeOK
  OBVIOUS
<1>1. \A c \in compose!Composers : box[c] \in BoxType
  BY DEF ComposeTypes, BoxTypes, Typed
<1>2. \A c \in compose!Composers :
        /\ box[c].text \in compose!Texts /\ box[c].save \in compose!Texts \cup {-1}
        /\ box[c].root \in compose!Places /\ box[c].reply \in compose!Places \cup {compose!Nothing}
        /\ box[c].edit \in compose!Editable \cup {compose!Nothing}
        /\ box[c].original \in compose!Editable \cup {compose!Nothing}
        /\ box[c].existing \in FileMessages \cup {compose!Nothing}
  BY <1>1 DEF BoxType
<1>3. \A c \in compose!Composers :
        /\ ~(box[c].file /\ box[c].share # 0) /\ ~(box[c].poll /\ box[c].sign)
        /\ (c = "timeline" => box[c].reply \in {None, compose!Nothing})
        /\ (c = "thread" => box[c].reply # None)
  BY DEF ComposeTypes, BoxTypes, Typed, Replying
<1>4. \A w \in waits : w.c \in compose!Composers \cup {"gone"} /\ w.text \in compose!Texts
  BY DEF ComposeTypes, WaitTypes, WaitOK
<1> QED
  BY <1>2, <1>3, <1>4 DEF ComposeTypes, PlaceTypes, compose!ComposeTypeOK


-----------------------------------------------------------------------------
(* Types of uploads.  An array that is walked has each file once, so that a  *)
(* walk never comes further than there are files, although files leave the   *)
(* array behind its back.                                                    *)

UploadTypes ==
  /\ UploadsInv
  /\ Len(files) <= MaxFiles /\ walk.i <= Cardinality(Entries)
  /\ attempt \in 0 .. MaxRetries /\ (step = "wait" => attempt < MaxRetries)
  /\ uploadError \in BOOLEAN /\ fetching \subseteq Entries /\ settling \subseteq Entries

LEMMA EntriesFacts == IsFiniteSet(Entries) /\ Cardinality(Entries) \in Nat
BY BoundsAssumption, FS_CardinalityType

LEMMA DistinctFits ==
  ASSUME NEW s \in Seq(Entries), Distinct(s)
  PROVE  Len(s) <= Cardinality(Entries)
<1>1. PICK L \in Nat : L = Len(s)
  BY LenProperties
<1>2. IsFiniteSet(1 .. L) /\ Cardinality(1 .. L) = L
  BY FS_Interval
<1>3. s \in [1 .. L -> Entries]
  BY <1>1, LenProperties
<1>4. ~(Cardinality(Entries) < Cardinality(1 .. L))
  <2> SUFFICES ASSUME Cardinality(Entries) < Cardinality(1 .. L) PROVE FALSE
    OBVIOUS
  <2>1. \E x, y \in 1 .. L : x # y /\ s[x] = s[y]
    BY <1>2, <1>3, EntriesFacts, FS_PigeonHole
  <2> QED
    BY <1>1, <2>1 DEF Distinct
<1> QED
  BY <1>1, <1>2, <1>4, EntriesFacts

LEMMA UploadTypesStart == uploads!UploadsInit => UploadTypes
<1> SUFFICES ASSUME uploads!UploadsInit PROVE UploadTypes
  OBVIOUS
<1>1. Len(files) = 0 /\ walk.i = 0
  BY DEF uploads!UploadsInit, uploads!NoWalk
<1>2. Len(files) <= MaxFiles /\ walk.i <= Cardinality(Entries) /\ 0 \in 0 .. MaxRetries
  BY <1>1, EntriesFacts, Bounds
<1> QED
  BY <1>2, UploadsStart DEF uploads!UploadsInit, UploadTypes

\* The list gets longer only while there is room.
LEMMA FilesFit ==
  ASSUME UploadTypes, uploads!UploadsNext
  PROVE  Len(files') <= MaxFiles
<1>1. files \in Seq(Entries) /\ Len(files) \in Nat /\ Len(files) <= MaxFiles
  BY LenProperties DEF UploadTypes, UploadsInv, ListInv
<1>2. CASE UNCHANGED files
  BY <1>1, <1>2
<1>3. CASE files' = <<>>
  BY <1>3, Bounds
<1>4. CASE \E e \in Entries : uploads!AddFiles(e)
  <2>1. UNCHANGED files \/ \E e \in Entries : files' = Append(files, e) /\ Len(files) < MaxFiles
    BY <1>4 DEF uploads!AddFiles, uploads!InPlace
  <2>2. \A e \in Entries : Len(Append(files, e)) = Len(files) + 1
    BY <1>1, AppendProperties
  <2> QED
    BY <1>1, <1>2, <2>1, <2>2, Bounds
<1>5. CASE \E e \in Entries : uploads!RemoveFileFromList(e)
  <2>1. PICK k \in DOMAIN files : files' = uploads!RemoveAt(files, k)
    BY <1>5 DEF uploads!RemoveFileFromList, uploads!InPlace
  <2>2. k \in 1 .. Len(files)
    BY <1>1, <2>1, LenProperties
  <2>3. Len(files') = Len(files) - 1
    BY <1>1, <2>1, <2>2, RemoveAtFacts
  <2> QED
    BY <1>1, <2>3, Bounds
<1>6. CASE uploads!AddFile \/ uploads!UploadFails
  <2>1. PICK s : files' = uploads!WithoutDone(files, s)
    BY <1>6 DEF uploads!AddFile, uploads!UploadFails, uploads!Settle
  <2>2. PICK S \in SUBSET DOMAIN files : files' = uploads!ElementsAt(files, S)
    BY <2>1 DEF uploads!WithoutDone
  <2>3. files' \in Seq(Entries) /\ Len(files') <= Len(files)
    BY <1>1, <2>2, ElementsFacts
  <2>4. Len(files') \in Nat
    BY <2>3, LenProperties
  <2> QED
    BY <1>1, <2>3, <2>4, Bounds
<1>7. CASE uploads!CancelFiles
  BY <1>3, <1>7 DEF uploads!CancelFiles, uploads!Replace
<1>8. CASE \/ uploads!UploadFiles \/ uploads!Progress \/ uploads!Stored \/ uploads!RateLimited \/ uploads!Retry
           \/ \E e \in Entries : \/ uploads!DownloadFile(e) \/ uploads!DownloadEnds(e)
                                 \/ uploads!DownloadFails(e) \/ uploads!DownloadAgain(e)
  <2>1. UNCHANGED files
    BY <1>8 DEF uploads!UploadFiles, uploads!Progress, uploads!Replace, uploads!Stored, uploads!RateLimited, uploads!Retry,
       uploads!DownloadFile, uploads!DownloadEnds, uploads!DownloadFails, uploads!DownloadAgain,
       uploads!listVars
  <2> QED
    BY <1>2, <2>1
<1> QED
  BY <1>4, <1>5, <1>6, <1>7, <1>8 DEF uploads!UploadsNext

LEMMA WalkFits ==
  ASSUME UploadTypes, uploads!UploadsNext
  PROVE  walk'.i <= Cardinality(Entries)
<1>1. /\ walk \in WalkState /\ walk.i \in Nat /\ walk.i <= Cardinality(Entries)
      /\ walk.array \in Seq(Entries) /\ Distinct(walk.array)
      /\ files \in Seq(Entries) /\ Distinct(files)
  BY DEF UploadTypes, UploadsInv, WalkInv, WalkState, ListInv
<1>2. CASE \/ UNCHANGED walk \/ walk' = [walk EXCEPT !.own = FALSE]
           \/ \E a : walk' = [walk EXCEPT !.array = a]
  BY <1>1, <1>2 DEF WalkState
<1>3. CASE uploads!UploadFiles
  <2>1. walk'.i = 1 /\ files # <<>>
    BY <1>3 DEF uploads!UploadFiles
  <2>2. Len(files) \in Nat \ {0} /\ Len(files) <= Cardinality(Entries)
    BY <1>1, <2>1, EmptySeq, DistinctFits
  <2> QED
    BY <2>1, <2>2, EntriesFacts
<1>4. CASE uploads!AddFile \/ uploads!UploadFails
  <2>1. \/ walk.i + 1 <= Len(walk.array) /\ walk'.i = walk.i + 1
        \/ walk'.i = 0
    BY <1>4 DEF uploads!AddFile, uploads!UploadFails, uploads!Settle, uploads!NoWalk
  <2>2. Len(walk.array) <= Cardinality(Entries) /\ Len(walk.array) \in Nat
    BY <1>1, DistinctFits, LenProperties
  <2> QED
    BY <1>1, <2>1, <2>2, EntriesFacts
<1>5. CASE ~(uploads!UploadFiles \/ uploads!AddFile \/ uploads!UploadFails)
  <2>1. \/ UNCHANGED walk \/ walk' = [walk EXCEPT !.own = FALSE]
        \/ \E a : walk' = [walk EXCEPT !.array = a]
    BY <1>5 DEF uploads!UploadsNext, uploads!AddFiles, uploads!RemoveFileFromList, uploads!InPlace,
       uploads!CancelFiles, uploads!Replace, uploads!Progress, uploads!Stored, uploads!RateLimited,
       uploads!Retry, uploads!DownloadFile, uploads!DownloadEnds, uploads!DownloadFails,
       uploads!DownloadAgain, uploads!uploadVars
  <2> QED
    BY <1>2, <2>1
<1> QED
  BY <1>3, <1>4, <1>5

LEMMA UploadTypesStep ==
  ASSUME UploadTypes, uploads!UploadsNext \/ UNCHANGED uploadsVars
  PROVE  UploadTypes'
<1>1. UploadsInv'
  BY UploadsStep DEF UploadTypes
<1>2. CASE UNCHANGED uploadsVars
  BY <1>1, <1>2 DEF uploadsVars, UploadTypes
<1>3. CASE uploads!UploadsNext
  <2>1. attempt' \in 0 .. MaxRetries /\ (step' = "wait" => attempt' < MaxRetries)
    <3>1. \/ step' # "wait" /\ attempt' = 0
          \/ UNCHANGED <<step, attempt>>
          \/ step' # "wait" /\ attempt' = attempt
          \/ step' = "wait" /\ attempt < MaxRetries /\ attempt' = attempt
          \/ step = "wait" /\ step' # "wait" /\ attempt' = attempt + 1
      BY <1>3 DEF uploads!UploadsNext, uploads!AddFiles, uploads!RemoveFileFromList,
         uploads!CancelFiles, uploads!UploadFiles, uploads!Progress, uploads!Stored, uploads!RateLimited,
         uploads!Retry, uploads!AddFile, uploads!UploadFails, uploads!Settle, uploads!DownloadFile,
         uploads!DownloadEnds, uploads!DownloadFails, uploads!DownloadAgain, uploads!uploadVars
    <3> QED
      BY SMTT(30), <3>1, Bounds DEF UploadTypes
  <2>2. uploadError' \in BOOLEAN
    BY <1>3 DEF UploadTypes, uploads!UploadsNext, uploads!AddFiles, uploads!RemoveFileFromList,
       uploads!CancelFiles, uploads!UploadFiles, uploads!Progress, uploads!Stored, uploads!RateLimited,
       uploads!Retry, uploads!AddFile, uploads!UploadFails, uploads!DownloadFile,
       uploads!DownloadEnds, uploads!DownloadFails, uploads!DownloadAgain, uploads!uploadVars
  <2>3. fetching' \subseteq Entries /\ settling' \subseteq Entries
    BY <1>3 DEF UploadTypes, uploads!UploadsNext, uploads!AddFiles, uploads!RemoveFileFromList,
       uploads!CancelFiles, uploads!UploadFiles, uploads!Progress, uploads!Stored, uploads!RateLimited,
       uploads!Retry, uploads!AddFile, uploads!UploadFails, uploads!DownloadFile,
       uploads!DownloadEnds, uploads!DownloadFails, uploads!DownloadAgain, uploads!downloadVars
  <2> QED
    BY <1>1, <1>3, <2>1, <2>2, <2>3, FilesFit, WalkFits DEF UploadTypes
<1> QED
  BY <1>2, <1>3

LEMMA UploadsCardinality == \A S : uploads!Cardinality(S) = Cardinality(S)
BY DEF uploads!Cardinality, Cardinality

LEMMA UploadTypesShow == UploadTypes => uploads!UploadsTypeOK
<1> SUFFICES ASSUME UploadTypes PROVE uploads!UploadsTypeOK
  OBVIOUS
<1>1. uploads!ToSet(files) \subseteq dropped
  BY LenProperties DEF UploadTypes, UploadsInv, ListInv, uploads!ToSet
<1>2. walk.i \in 0 .. Len(walk.array) + uploads!Cardinality(Entries)
  <2>1. PICK C \in Nat : C = Cardinality(Entries)
    BY EntriesFacts
  <2>2. PICK L \in Nat : L = Len(walk.array)
    BY LenProperties DEF UploadTypes, UploadsInv, WalkInv, WalkState
  <2>3. walk.i \in Nat /\ walk.i <= C
    BY <2>1 DEF UploadTypes, UploadsInv, WalkInv, WalkState
  <2> QED
    BY <2>1, <2>2, <2>3, UploadsCardinality
<1>3. uploadsPosted \in [Entries -> Nat]
  BY DEF UploadTypes, UploadsInv, ListInv
<1> QED
  BY <1>1, <1>2, <1>3 DEF UploadTypes, UploadsInv, ListInv, WalkInv, uploads!UploadsTypeOK


-----------------------------------------------------------------------------
(* Types of everything.                                                      *)

LEMMA PermsTypesShow == PermsInv => perms!PermsTypeOK
BY DEF PermsInv, LevelInv, RoomInv, SavingInv, perms!PermsTypeOK

LEMMA TakeOverTypesShow == TakeOverInv => takeover!TakeOverTypeOK
BY DEF TakeOverInv

\* What the store of a component holds has the shape its code relies on
\* (pubhubs.ts, rooms.ts and the pages): the answer that a list is filled from
\* are reports that were made, a composer has not both a file and one that is
\* shared, nor a poll and a signed message, and replies to a message of its own
\* timeline or thread; a walk through a list of uploads stays within what there
\* is to upload; rows of a form are saved or have failed, not both; and a stamp of
\* a warning is of a moment that has been.
THEOREM TalkTypes == Spec => []TypeOK
<1> DEFINE I == /\ part = "voting" => VotingInv
                /\ part = "roles" => RolesTypes
                /\ part = "sanctions" => SanctionTypes
                /\ part = "reports" => ReportTypes
                /\ part = "compose" => ComposeTypes
                /\ part = "uploads" => UploadTypes
                /\ part = "perms" => PermsInv
                /\ part = "takeover" => TakeOverInv
                /\ part = "search" => SearchTypes
<1>1. Init => I
  BY ZenonT(60), Parts, VotingStart, RolesTypesStart, SanctionTypesStart, ReportTypesStart,
     ComposeTypesStart, UploadTypesStart, PermsStart, TakeOverStart, SearchTypesStart,
     TalkAssumption
<1>2. I /\ [Next]_vars => I'
  BY ZenonT(60), Parts, VotingStep, RolesTypesStep, SanctionTypesStep, ReportTypesStep,
     ComposeTypesStep, UploadTypesStep, PermsStep, TakeOverStep, SearchTypesStep,
     TalkAssumption DEF perms!NoRoom
<1>3. I => TypeOK
  <2>1. SearchTypes => search!SearchTypeOK
    BY DEF SearchTypes
  <2> QED
    BY <2>1, VotingAgrees, RolesTypesShow, SanctionTypesShow, ReportTypesShow,
       ComposeTypesShow, UploadTypesShow, PermsTypesShow, TakeOverTypesShow DEF TypeOK
<1> QED
  BY <1>1, <1>2, <1>3, PTL DEF Spec
=============================================================================
