-------------------------------- MODULE TakeOver --------------------------------
(***************************************************************************)
(* A hub administrator takes over a room that has no administrator left       *)
(* (useManageRooms.ts, AdminMembers.vue, apiService.ts).  The server makes    *)
(* someone administrator of a room only through an administrator who is in    *)
(* it.  When there is none, a panel offers to log in as the previous one, who *)
(* is made to join, promotes the present administrator and leaves again.      *)
(* Its button can be pressed again while that goes on.                        *)
(***************************************************************************)
EXTENDS Naturals, FiniteSets

CONSTANTS Clicks,                 \* calls of handleActionClick
          MaxPromotes, MaxFaults  \* bounds

Me == "me"
Prev == "prev"
Users == {Me, Prev}

VARIABLES
  members, power,    \* of the room, on the server: who is in it, who has level 100
  promote,           \* makeRoomAdmin: where it is
  panel,             \* the panel: closed, loading, waiting for the button, or done with an error
  flow,              \* where each call of handleActionClick is
  own,               \* forceRoomJoin: the token to put back, of each
  apiMatrix,         \* whose token api_matrix has
  client,            \* ... and the Matrix client
  inProgress,
  brought,           \* history: the previous administrator was made to join
  sentOff,           \* history: ... and to leave
  missed,            \* history: a join failed, which nobody was told
  promotes, faults

roomVars == <<members, power>>
panelVars == <<panel, inProgress>>
flowVars == <<flow, own>>
tokenVars == <<apiMatrix, client>>
pastVars == <<brought, sentOff, missed>>
takeOverVars == <<roomVars, promote, panelVars, flowVars, tokenVars, pastVars, promotes, faults>>

Steps == {"idle", "login", "posting", "join", "make", "login2", "leave", "poll", "over"}

TakeOverTypeOK ==
  /\ members \subseteq Users /\ power \subseteq Users /\ Prev \in power
  /\ promote \in {"no", "ask", "api", "creator", "join"} /\ panel \in {"closed", "loading", "open"}
  /\ flow \in [Clicks -> Steps] /\ own \in [Clicks -> Users] /\ apiMatrix \in Users /\ client \in Users
  /\ inProgress \in BOOLEAN /\ brought \in BOOLEAN /\ sentOff \in BOOLEAN /\ missed \in BOOLEAN

\* The creator of the room is not the administrator, and may have left it; others
\* have not, so that the room has a state.
TakeOverInit ==
  /\ members \in SUBSET {Prev} /\ power = {Prev}
  /\ promote = "no" /\ panel = "closed" /\ inProgress = FALSE
  /\ flow = [c \in Clicks |-> "idle"] /\ own = [c \in Clicks |-> Me]
  /\ apiMatrix = Me /\ client = Me /\ brought = FALSE /\ sentOff = FALSE /\ missed = FALSE
  /\ promotes = 0 /\ faults = 0

Fault == faults < MaxFaults /\ faults' = faults + 1

-----------------------------------------------------------------------------
(* What the server does.                                                    *)

\* make_room_admin works through an administrator who is in the room.
CanPromote == members \cap power # {}
\* A join goes by the token of the client it is made with.
Joins(u) == members' = members \cup {u}

\* joinRoom of the hub client's store: a failure is not told to the caller.
JoinRoom ==
  \/ Joins(client) /\ missed' = (missed \/ client # Me) /\ UNCHANGED faults
  \/ Fault /\ missed' = TRUE /\ UNCHANGED members

-----------------------------------------------------------------------------
(* makeRoomAdmin of useManageRooms, one call of it at a time.               *)

PromoteSelectedRoom ==
  /\ promote = "no" /\ panel = "closed" /\ promotes < MaxPromotes /\ promotes' = promotes + 1
  /\ promote' = "ask"
  /\ UNCHANGED <<roomVars, panelVars, flowVars, tokenVars, pastVars, faults>>

Confirm ==
  /\ promote = "ask" /\ promote' \in {"api", "no"}
  /\ UNCHANGED <<roomVars, panelVars, flowVars, tokenVars, pastVars, promotes, faults>>

MakeRoomAdmin ==
  /\ promote = "api"
  /\ \/ CanPromote /\ power' = power \cup {Me} /\ promote' = "join" /\ UNCHANGED faults
     \/ ~CanPromote /\ promote' = "creator" /\ UNCHANGED <<power, faults>>
     \/ Fault /\ promote' = "creator" /\ UNCHANGED power
  /\ UNCHANGED <<members, panelVars, flowVars, tokenVars, pastVars, promotes>>

\* Is the creator in the room?
RoomCreatorIsMember ==
  /\ promote = "creator"
  /\ \/ Prev \in members /\ promote' = "join" /\ UNCHANGED <<panel, inProgress, faults>>
     \/ Prev \notin members /\ promote' = "no" /\ panel' = "loading" /\ inProgress' = FALSE /\ UNCHANGED faults
     \/ Fault /\ promote' = "no" /\ UNCHANGED <<panel, inProgress>>
  /\ UNCHANGED <<roomVars, flowVars, tokenVars, pastVars, promotes>>

PromoteJoins ==
  /\ promote = "join" /\ promote' = "no" /\ JoinRoom
  /\ UNCHANGED <<power, panelVars, flowVars, tokenVars, brought, sentOff, promotes>>

-----------------------------------------------------------------------------
(* The panel, and what its button does.                                     *)

\* Without an answer the button does nothing.
FetchRoomCreatorInfo ==
  /\ panel = "loading" /\ panel' = "open"
  /\ UNCHANGED <<roomVars, promote, inProgress, flowVars, tokenVars, pastVars, promotes, faults>>

\* What is under way goes on.
ClosePanel ==
  /\ panel # "closed" /\ panel' = "closed" /\ inProgress' = FALSE
  /\ UNCHANGED <<roomVars, promote, flowVars, tokenVars, pastVars, promotes, faults>>

At(c, s) == flow[c] = s
GoTo(c, s) == flow' = [flow EXCEPT ![c] = s]

HandleActionClick(c) ==
  /\ panel = "open" /\ At(c, "idle") /\ GoTo(c, "login") /\ inProgress' = TRUE
  /\ UNCHANGED <<roomVars, promote, panel, own, tokenVars, pastVars, promotes, faults>>

\* forceRoomJoin, once logged in: the shared API gets the other's token ...
ForceRoomJoin(c) ==
  /\ At(c, "login") /\ GoTo(c, "posting")
  /\ own' = [own EXCEPT ![c] = apiMatrix] /\ apiMatrix' = Prev
  /\ UNCHANGED <<roomVars, promote, panelVars, client, pastVars, promotes, faults>>

\* ... and gets back, in the end, the one it had.
ForcedJoinEnds(c) ==
  /\ At(c, "posting") /\ apiMatrix' = own[c]
  /\ \/ Joins(Prev) /\ brought' = TRUE /\ GoTo(c, "join") /\ UNCHANGED faults
     \/ Fault /\ GoTo(c, "over") /\ UNCHANGED <<members, brought>>
  /\ UNCHANGED <<power, promote, panelVars, own, client, sentOff, missed, promotes>>

JoinAsMe(c) ==
  /\ At(c, "join") /\ GoTo(c, "make") /\ JoinRoom
  /\ UNCHANGED <<power, promote, panelVars, own, tokenVars, brought, sentOff, promotes>>

\* slip: as with the join, nobody looks whether it worked
GoesOn(c) == GoTo(c, "login2")
Stops(c) == GoTo(c, "over")

MakeAdmin(c) ==
  /\ At(c, "make")
  /\ \/ CanPromote /\ power' = power \cup {Me} /\ GoTo(c, "login2") /\ UNCHANGED faults
     \/ ~CanPromote /\ Stops(c) /\ UNCHANGED <<power, faults>>
     \/ Fault /\ Stops(c) /\ UNCHANGED power
  /\ UNCHANGED <<members, promote, panelVars, own, tokenVars, pastVars, promotes>>

LoginFails(c) ==
  /\ At(c, "login") \/ At(c, "login2")
  /\ Fault /\ GoTo(c, "over")
  /\ UNCHANGED <<roomVars, promote, panelVars, own, tokenVars, pastVars, promotes>>

\* leavePrevAdmin: the client keeps the token.
SetAccessToken(c) ==
  /\ At(c, "login2") /\ GoTo(c, "leave") /\ client' = Prev
  /\ UNCHANGED <<roomVars, promote, panelVars, own, apiMatrix, pastVars, promotes, faults>>

LeavePrevAdmin(c) ==
  /\ At(c, "leave")
  /\ \/ Prev \in members /\ members' = members \ {Prev} /\ sentOff' = TRUE /\ GoTo(c, "poll") /\ UNCHANGED faults
     \/ Prev \notin members /\ Stops(c) /\ UNCHANGED <<members, sentOff, faults>>
     \/ Fault /\ Stops(c) /\ UNCHANGED <<members, sentOff>>
  /\ UNCHANGED <<power, promote, panelVars, own, tokenVars, brought, missed, promotes>>

\* The polling sees that all is done, and the panel closes.
CompleteFlow(c) ==
  /\ At(c, "poll") /\ Me \in power /\ Prev \notin members /\ GoTo(c, "over")
  /\ panel' = "closed" /\ inProgress' = FALSE
  /\ UNCHANGED <<roomVars, promote, own, tokenVars, pastVars, promotes, faults>>

\* The previous administrator goes back in, or leaves again, of his own accord.
PrevComesAndGoes ==
  /\ Fault /\ members' = IF Prev \in members THEN members \ {Prev} ELSE members \cup {Prev}
  /\ UNCHANGED <<power, promote, panelVars, flowVars, tokenVars, pastVars, promotes>>

TakeOverNext ==
  \/ PromoteSelectedRoom \/ Confirm \/ MakeRoomAdmin \/ RoomCreatorIsMember \/ PromoteJoins
  \/ FetchRoomCreatorInfo \/ ClosePanel \/ PrevComesAndGoes
  \/ \E c \in Clicks : HandleActionClick(c) \/ ForceRoomJoin(c) \/ ForcedJoinEnds(c) \/ JoinAsMe(c)
                       \/ MakeAdmin(c) \/ LoginFails(c) \/ SetAccessToken(c)
                       \/ LeavePrevAdmin(c) \/ CompleteFlow(c)

TakeOverSpec == TakeOverInit /\ [][TakeOverNext]_takeOverVars

-----------------------------------------------------------------------------
\* The previous administrator is made to leave only when the present one has taken
\* over, whatever fails and however the button is pressed; and then the latter is in
\* the room, unless a join failed unnoticed or was made in the name of the former.
\* Only someone who came to the room can be made to leave.
HandedOver ==
  sentOff => brought /\ Me \in power /\ (Me \in members \/ missed)

\* "Put our own token back afterwards: `api_matrix` is shared".
OwnTokenBack ==
  (\A c \in Clicks : ~At(c, "posting")) => apiMatrix = Me
=============================================================================
