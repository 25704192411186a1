------------------------------ MODULE VideoCall ------------------------------
(***************************************************************************)
(* Video calls in a room (videoCall.ts, VideoCallPage.vue,                 *)
(* VideoCallBottomBar.vue, MessageVideoCall.vue, pubhubs.ts:               *)
(* addEndCallListener).  A call is a Matrix group call of the room, a      *)
(* session in it and a connection to a LiveKit server; to start, join,     *)
(* leave or end one takes several requests, and the user, who may go to    *)
(* another room or click again, and the end of the call by another user    *)
(* come in between.                                                        *)
(***************************************************************************)
EXTENDS Integers, Sequences, FiniteSets

CONSTANTS Callers,   \* users, each with one client
          CallRooms, NoRoom,
          MaxActs,   \* bound on what a user starts, per user
          MaxFails   \* bound on requests that fail

VARIABLES
  call,   \* call[c]: the store videoCall of c
  flows,  \* flows[c]: what c has begun, with the steps that are left
  where,  \* where[c]: rooms.currentRoom
  heard,  \* heard[c]: rooms on which addEndCallListener listens
  sees,   \* sees[c]: remoteParticipants of the connection is not empty
  groups, \* rooms with a group call that is not terminated
  news,   \* news[c]: terminated calls of which c has still to hear
  acts, fails

callVars == <<call, flows, where, heard, sees, groups, news, acts, fails>>

Idle == [active |-> FALSE, connecting |-> FALSE, ending |-> FALSE, group |-> NoRoom,
         session |-> NoRoom, livekit |-> NoRoom, event |-> NoRoom, video |-> "off"]
Flow(c, todo, r) == [todo |-> todo, room |-> r, group |-> NoRoom, nr |-> acts[c]]
Connecting == <<"token", "connect">>
Leaving == <<"disconnect", "session", "left">>

CallTypeOK ==
  /\ \A c \in Callers : /\ call[c].livekit \in CallRooms \cup {NoRoom} /\ call[c].event \in CallRooms \cup {NoRoom}
                        /\ \A f \in flows[c] : f.todo # <<>>
                        /\ heard[c] \subseteq CallRooms /\ news[c] \subseteq CallRooms
  /\ where \in [Callers -> CallRooms \cup {NoRoom}] /\ sees \in [Callers -> BOOLEAN]
  /\ groups \subseteq CallRooms /\ acts \in [Callers -> 0..MaxActs] /\ fails \in 0..MaxFails

CallInit ==
  /\ call = [c \in Callers |-> Idle] /\ flows = [c \in Callers |-> {}]
  /\ where \in [Callers -> CallRooms]
  /\ heard = [c \in Callers |-> {}] /\ sees = [c \in Callers |-> FALSE]
  /\ groups = {} /\ news = [c \in Callers |-> {}]
  /\ acts = [c \in Callers |-> 0] /\ fails = 0

-----------------------------------------------------------------------------
Act(c) == acts[c] < MaxActs /\ acts' = [acts EXCEPT ![c] = @ + 1]
Put(c, f, g) == flows' = [flows EXCEPT ![c] = (@ \ {f}) \cup g]
After(f) == IF Tail(f.todo) = <<>> THEN {} ELSE {[f EXCEPT !.todo = Tail(@)]}

\* connectToCall up to its first await: s is the store so far.  A client that
\* is in a call stays where it is, one that is connecting gives up.
Connect(c, s, f) ==
  IF (s.active /\ s.livekit # NoRoom) \/ s.connecting
  THEN call' = [call EXCEPT ![c] = s] /\ Put(c, f, {})
  ELSE call' = [call EXCEPT ![c] = [s EXCEPT !.connecting = TRUE]] /\ Put(c, f, {Flow(c, Connecting, f.room)})

\* startCall up to its first await.
BeginCall(c) == Put(c, <<>>, {Flow(c, <<"started", "group">> \o Connecting, where[c])}) /\ UNCHANGED call

\* The menu of MessageInput.vue.
StartCall(c) ==
  /\ Act(c) /\ where[c] # NoRoom /\ BeginCall(c)
  /\ UNCHANGED <<where, heard, sees, groups, news, fails>>

\* joinCall, when the room has a group call.
JoinCall(c) == Connect(c, [call[c] EXCEPT !.group = where[c]], Flow(c, <<>>, where[c]))

\* JoinVideoCall: joinCall, and startCall if there is no group call.  The
\* button is there while the store has no active call.
JoinVideoCall(c) ==
  /\ Act(c) /\ where[c] # NoRoom /\ ~call[c].active
  /\ IF where[c] \in groups THEN JoinCall(c) ELSE BeginCall(c)
  /\ UNCHANGED <<where, heard, sees, groups, news, fails>>

\* leaveCall up to its first await.
Leave(s) == [s EXCEPT !.active = FALSE]

\* endCall: _isEnding is TRUE from here to its last step.
EndFlow(c) == Flow(c, <<"ended">>, where[c])

\* goBack, and Leave call and End call of VideoCallBottomBar.vue: the last
\* participant ends the call.
GoBack(c, end) ==
  /\ Act(c) /\ call[c].livekit # NoRoom /\ where[c] # NoRoom
  /\ IF end \/ ~sees[c]
     THEN call' = [call EXCEPT ![c].ending = TRUE] /\ Put(c, <<>>, {EndFlow(c)})
     ELSE /\ call' = [call EXCEPT ![c] = Leave(@)]
          /\ Put(c, <<>>, IF call[c].active THEN {Flow(c, Leaving, where[c])} ELSE {})
  /\ UNCHANGED <<where, heard, sees, groups, news, fails>>

\* The user goes to another room, or to a page without one.
Navigate(c) ==
  /\ Act(c) /\ \E r \in (CallRooms \cup {NoRoom}) \ {where[c]} : where' = [where EXCEPT ![c] = r]
  /\ UNCHANGED <<call, flows, heard, sees, groups, news, fails>>

\* findDevices, VideoCallDropDown.vue: changeVideoDevice stops the track it
\* has and creates one, which is there when the browser has it.
ChangeVideoDevice(c) ==
  /\ Act(c) /\ call[c].livekit # NoRoom /\ call[c].video # "opening"
  /\ call' = [call EXCEPT ![c].video = "opening"]
  /\ UNCHANGED <<flows, where, heard, sees, groups, news, fails>>

VideoTrack(c) ==
  /\ call[c].video = "opening" /\ call' = [call EXCEPT ![c].video = "on"]
  /\ UNCHANGED <<flows, where, heard, sees, groups, news, acts, fails>>

-----------------------------------------------------------------------------
\* addVideoCallMessage
Started(c, f) ==
  /\ call' = [call EXCEPT ![c].event = f.room] /\ Put(c, f, After(f))
  /\ UNCHANGED <<heard, groups, news>>

\* createGroupCall, which refuses a second one in the room; startMatrixRTC.
CreateGroupCall(c, f) ==
  /\ IF f.room \in groups THEN UNCHANGED <<call, groups>> /\ Put(c, f, {})
     ELSE groups' = groups \cup {f.room} /\ Connect(c, [call[c] EXCEPT !.group = f.room], f)
  /\ UNCHANGED <<heard, news>>

\* getLiveKitTokenResponse: the session is joined, and the listener is for the
\* room that is current now.
Token(c, f) ==
  /\ call' = [call EXCEPT ![c].active = TRUE, ![c].session = f.room, ![c].livekit = f.room,
                          ![c].event = IF @ = NoRoom THEN f.room ELSE @]
  /\ heard' = [heard EXCEPT ![c] = @ \cup ({where[c]} \ {NoRoom})]
  /\ Put(c, f, After(f)) /\ UNCHANGED <<groups, news>>

\* (slip: only the catch resets _connecting)
Succeeds(s) == s
\* The end of connectToCall: finally.
Finally(s) == [s EXCEPT !.connecting = FALSE]

Aborted(s) == [s EXCEPT !.active = FALSE, !.livekit = NoRoom, !.connecting = FALSE]

\* LiveKitRoom.connect, which fails when the room was disconnected meanwhile.
Connected(c, f) ==
  /\ call' = [call EXCEPT ![c] = IF @.livekit = f.room THEN Finally(@) ELSE Aborted(@)]
  /\ Put(c, f, {}) /\ UNCHANGED <<heard, groups, news>>

\* addEndVideoCallMessage; then endCall notes the group call, and leaveCall
\* returns at once when the call is not active any more.
Ended(c, f) ==
  /\ call' = [call EXCEPT ![c] = Leave(@)]
  /\ Put(c, f, {[Flow(c, (IF call[c].active THEN Leaving ELSE <<>>) \o <<"terminate">>, f.room) EXCEPT !.group = call[c].group]})
  /\ UNCHANGED <<heard, groups, news>>

\* leaveCall: the connection, the group call and the devices.
Disconnect(c, f) ==
  /\ call' = [call EXCEPT ![c].livekit = NoRoom, ![c].group = NoRoom,
                          ![c].video = IF @ = "on" THEN "off" ELSE @]
  /\ Put(c, f, After(f)) /\ UNCHANGED <<heard, groups, news>>

LeaveSession(c, f) == call' = [call EXCEPT ![c].session = NoRoom] /\ Put(c, f, After(f)) /\ UNCHANGED <<heard, groups, news>>

\* getEvent, addThreadMessageWithoutLocalEcho, and the fields that are reset.
Left(c, f) == call' = [call EXCEPT ![c].event = NoRoom] /\ Put(c, f, After(f)) /\ UNCHANGED <<heard, groups, news>>

\* groupCall.terminate: an event of the room's state tells everyone.
Terminate(c, f) ==
  /\ groups' = groups \ {f.group}
  /\ news' = [d \in Callers |-> news[d] \cup ({f.group} \cap groups)]
  /\ call' = [call EXCEPT ![c].ending = FALSE] /\ Put(c, f, {}) /\ UNCHANGED heard

Step(c, f) ==
  /\ CASE Head(f.todo) = "started"    -> Started(c, f)
       [] Head(f.todo) = "group"      -> CreateGroupCall(c, f)
       [] Head(f.todo) = "token"      -> Token(c, f)
       [] Head(f.todo) = "connect"    -> Connected(c, f)
       [] Head(f.todo) = "ended"      -> Ended(c, f)
       [] Head(f.todo) = "disconnect" -> Disconnect(c, f)
       [] Head(f.todo) = "session"    -> LeaveSession(c, f)
       [] Head(f.todo) = "left"       -> Left(c, f)
       [] OTHER                       -> Terminate(c, f)
  /\ UNCHANGED <<where, sees, acts, fails>>

\* A request fails: connectToCall catches, the other functions end there.
Fail(c, f) ==
  /\ fails < MaxFails /\ fails' = fails + 1
  /\ call' = IF Head(f.todo) \in {"token", "connect"} THEN [call EXCEPT ![c] = Aborted(@)] ELSE call
  /\ Put(c, f, {}) /\ UNCHANGED <<where, heard, sees, groups, news, acts>>

\* onCallTerminated
CallTerminated(c, r) ==
  /\ r \in news[c] /\ news' = [news EXCEPT ![c] = @ \ {r}]
  /\ heard' = [heard EXCEPT ![c] = @ \ {r}]
  /\ IF r \in heard[c] /\ ~call[c].ending
     THEN /\ where' = [where EXCEPT ![c] = r] /\ call' = [call EXCEPT ![c] = Leave(@)]
          /\ Put(c, <<>>, IF call[c].active THEN {Flow(c, Leaving, r)} ELSE {})
     ELSE UNCHANGED <<where, call, flows>>
  /\ UNCHANGED <<sees, groups, acts, fails>>

\* syncRemoteParticipants: the client hears who else is connected.
SyncRemoteParticipants(c) ==
  /\ call[c].livekit # NoRoom
  /\ sees' = [sees EXCEPT ![c] = \E d \in Callers \ {c} : call[d].livekit = call[c].livekit]
  /\ sees' # sees /\ UNCHANGED <<call, flows, where, heard, groups, news, acts, fails>>

CallNext == \E c \in Callers :
  \/ StartCall(c) \/ JoinVideoCall(c) \/ (\E end \in BOOLEAN : GoBack(c, end)) \/ Navigate(c)
  \/ ChangeVideoDevice(c) \/ VideoTrack(c) \/ SyncRemoteParticipants(c)
  \/ \E f \in flows[c] : Step(c, f) \/ Fail(c, f)
  \/ \E r \in CallRooms : CallTerminated(c, r)

CallSpec == CallInit /\ [][CallNext]_callVars

-----------------------------------------------------------------------------
Working(c, steps) == \E f \in flows[c] : Head(f.todo) \in steps

\* connectToCall: while _connecting is set every other attempt is refused, so
\* it is set only as long as one is under way, whatever fails or overlaps.
ConnectsAgain == \A c \in Callers : call[c].connecting => Working(c, {"token", "connect"})

\* VideoCallPage.vue: "the room-level call state would stay ongoing forever
\* with nobody left to end it".
NobodyLeftBehind ==
  (\A c \in Callers : flows[c] = {} /\ news[c] = {} /\ call[c].livekit = NoRoom) => groups = {}

\* pubhubs.ts, onCallTerminated: "Skip if we're the one ending the call -
\* endCall() handles everything": nobody who ends nothing stays in a call
\* of whose end it was told.
EndIsHeard ==
  [][\A c \in Callers : news'[c] # news[c] /\ call[c].active /\ ~Working(c, {"ended", "terminate"})
        /\ call[c].livekit \in news[c] \ news'[c] => ~call'[c].active]_callVars
=============================================================================
