---------------------------- MODULE GlobalProofs ----------------------------
(***************************************************************************)
(* Theorems about the global client and its frames, for any numbers of     *)
(* devices, hubs, users and files.  For each component an invariant is     *)
(* shown of its own steps; Parts carries it over to the composition.  The  *)
(* lemmas about chained sessions are in ChainsProofs.                      *)
(***************************************************************************)
EXTENDS ChainsProofs, Integers, Sequences, FiniteSets, SequenceTheorems, FiniteSetTheorems, TLAPS

\* A behaviour that looks at a component starts as it does and takes its steps.
LEMMA Parts ==
  /\ Init =>
       /\ part = "accounts" => accounts!Init
       /\ part = "frames" => frames!Init
       /\ part = "dialogs" => dialogs!DialogsInit
       /\ part = "houserules" => houserules!RulesInit
       /\ part = "video" => video!CallInit
       /\ part = "menus" => menus!MenusInit
       /\ part = "shelf" => shelf!LibraryInit
       /\ part = "chains" => chains!ChainedInit
  /\ [Next]_vars =>
       /\ part' = part
       /\ part = "accounts" => accounts!Next \/ UNCHANGED accountsVars
       /\ part = "frames" => frames!Next \/ UNCHANGED framesVars
       /\ part = "dialogs" => dialogs!DialogsNext \/ UNCHANGED dialogsVars
       /\ part = "houserules" => houserules!RulesNext \/ UNCHANGED houserulesVars
       /\ part = "video" => video!CallNext \/ UNCHANGED videoVars
       /\ part = "menus" => menus!MenusNext \/ UNCHANGED menusVars
       /\ part = "shelf" => shelf!LibraryNext \/ UNCHANGED shelfVars
       /\ part = "chains" => chains!ChainedNext \/ UNCHANGED chainsVars
<1>1. ASSUME Init
      PROVE  /\ part = "accounts" => accounts!Init
             /\ part = "frames" => frames!Init
             /\ part = "dialogs" => dialogs!DialogsInit
             /\ part = "houserules" => houserules!RulesInit
             /\ part = "video" => video!CallInit
             /\ part = "menus" => menus!MenusInit
             /\ part = "shelf" => shelf!LibraryInit
             /\ part = "chains" => chains!ChainedInit
  BY <1>1 DEF Init
<1>2. CASE UNCHANGED vars
  BY <1>1, <1>2 DEF vars
<1>3. CASE Next
  BY <1>1, <1>3 DEF Next, accountsNext, framesNext, dialogsNext, houserulesNext, videoNext,
       menusNext, shelfNext, chainsNext
<1> QED
  BY <1>1, <1>2, <1>3

-----------------------------------------------------------------------------
(* Frames: what is in the local store of a hub.                            *)

StoreInv ==
  /\ current \in Hubs \cup {NoHub}
  /\ store \in [Hubs -> SUBSET Hubs]
  /\ frames!StoreOfHub

\* Only an update that is heard changes a store, and it is of the hub that is
\* current, or nothing is written (resolveVerifiedStore).
LEMMA StoreStep == StoreInv /\ (frames!Next \/ UNCHANGED framesVars) => StoreInv'
<1> SUFFICES ASSUME StoreInv, frames!Next \/ UNCHANGED framesVars PROVE StoreInv'
  OBVIOUS
<1> USE DEF StoreInv, frames!StoreOfHub
<1>1. CASE UNCHANGED framesVars
  BY <1>1 DEF framesVars
<1>2. ASSUME NEW h \in Hubs, frames!EnterHub(h) PROVE StoreInv'
  BY <1>2 DEF frames!EnterHub
<1>3. ASSUME NEW h \in Hubs,
             frames!SetupMiniclient(h) \/ frames!HubActive(h) \/ frames!Fallback(h)
      PROVE  StoreInv'
  BY <1>3 DEF frames!SetupMiniclient, frames!HubActive, frames!Fallback, frames!parentVars
<1>4. ASSUME NEW h \in Hubs, frames!UnpinHub(h) PROVE StoreInv'
  BY <1>4 DEF frames!UnpinHub
<1>5. CASE frames!LeaveHub
  BY <1>5 DEF frames!LeaveHub
<1>6. CASE \/ frames!Loaded \/ frames!StartMessageBox \/ frames!Connected
           \/ frames!StoreAccessToken \/ frames!ToggleSidebar \/ frames!UpdateLocalStore
           \/ frames!ClearAuth
  BY <1>6 DEF frames!Loaded, frames!StartMessageBox, frames!Connected, frames!StoreAccessToken,
       frames!ToggleSidebar, frames!UpdateLocalStore, frames!ClearAuth, frames!parentVars
<1>7. CASE frames!RemoveAccessToken
  BY <1>7 DEF frames!RemoveAccessToken
<1>8. CASE frames!Receive
  <2> DEFINE m == Head(mail)
  <2>1. current' = current
    BY <1>8 DEF frames!Receive, frames!parentVars
  <2>2. CASE UNCHANGED store
    BY <2>1, <2>2
  <2>3. CASE frames!HandleMessage(m)
    BY <2>1, <2>3 DEF frames!HandleMessage, frames!Verified
  <2> QED
    BY <1>8, <2>2, <2>3 DEF frames!Receive, frames!parentVars
<1> QED
  BY <1>1, <1>2, <1>3, <1>4, <1>5, <1>6, <1>7, <1>8 DEF frames!Next

\* However late a message of a hub that was left comes in, the local store of a
\* hub holds the data of the client of that hub only.
THEOREM StoresAreApart == Spec => []StoreOfHub
<1> DEFINE I == part = "frames" => StoreInv
<1>1. Init => I
  BY Parts DEF StoreInv, frames!Init, frames!StoreOfHub
<1>2. I /\ [Next]_vars => I'
  BY Parts, StoreStep
<1>3. I => StoreOfHub
  BY DEF StoreInv, StoreOfHub
<1> QED
  BY <1>1, <1>2, <1>3, PTL DEF Spec

-----------------------------------------------------------------------------
(* VideoCall: a call can be connected to again.                            *)

Todos ==
  {<<"started", "group", "token", "connect">>, <<"group", "token", "connect">>,
   <<"token", "connect">>, <<"connect">>,
   <<"ended">>, <<"disconnect", "session", "left", "terminate">>,
   <<"session", "left", "terminate">>, <<"left", "terminate">>, <<"terminate">>,
   <<"disconnect", "session", "left">>, <<"session", "left">>, <<"left">>}
CallState ==
  [active : BOOLEAN, connecting : BOOLEAN, ending : BOOLEAN,
   group : CallRooms \cup {NoRoom}, session : CallRooms \cup {NoRoom},
   livekit : CallRooms \cup {NoRoom}, event : CallRooms \cup {NoRoom},
   video : {"off", "opening", "on"}]
CallFlow ==
  [todo : Todos, room : CallRooms \cup {NoRoom}, group : CallRooms \cup {NoRoom}, nr : Nat]

CallInv ==
  /\ call \in [Callers -> CallState]
  /\ flows \in [Callers -> SUBSET CallFlow]
  /\ where \in [Callers -> CallRooms \cup {NoRoom}]
  /\ acts \in [Callers -> Nat]
  /\ video!ConnectsAgain

\* What is left of a flow after its first step, if anything.
LEMMA TodoTail ==
  ASSUME NEW t \in Todos
  PROVE  /\ t # <<>> /\ (Tail(t) # <<>> => Tail(t) \in Todos)
         /\ Head(t) = "token" => Tail(t) # <<>> /\ Head(Tail(t)) = "connect"
<1>1. CASE t = <<"started", "group", "token", "connect">>
  BY <1>1 DEF Todos
<1>2. CASE t = <<"group", "token", "connect">>
  BY <1>2 DEF Todos
<1>3. CASE t = <<"token", "connect">>
  BY <1>3 DEF Todos
<1>4. CASE t = <<"connect">>
  BY <1>4 DEF Todos
<1>5. CASE t = <<"ended">>
  BY <1>5 DEF Todos
<1>6. CASE t = <<"disconnect", "session", "left", "terminate">>
  BY <1>6 DEF Todos
<1>7. CASE t = <<"session", "left", "terminate">>
  BY <1>7 DEF Todos
<1>8. CASE t = <<"left", "terminate">>
  BY <1>8 DEF Todos
<1>9. CASE t = <<"terminate">>
  BY <1>9 DEF Todos
<1>10. CASE t = <<"disconnect", "session", "left">>
  BY <1>10 DEF Todos
<1>11. CASE t = <<"session", "left">>
  BY <1>11 DEF Todos
<1>12. CASE t = <<"left">>
  BY <1>12 DEF Todos
<1> QED
  BY <1>1, <1>2, <1>3, <1>4, <1>5, <1>6, <1>7, <1>8, <1>9, <1>10, <1>11, <1>12 DEF Todos

\* What is left to do when a call is left, and then ended.
LEMMA LeavingEnds ==
  /\ video!Leaving \o <<"terminate">> = <<"disconnect", "session", "left", "terminate">>
  /\ <<>> \o <<"terminate">> = <<"terminate">>
<1>1. <<"disconnect", "session", "left">> \o <<"terminate">> = <<"disconnect", "session", "left", "terminate">>
  <2> DEFINE s == <<"disconnect", "session", "left">> r == <<"terminate">>
             u == <<"disconnect", "session", "left", "terminate">>
             S == {"disconnect", "session", "left", "terminate"}
  <2>1. s \in Seq(S) /\ r \in Seq(S) /\ u \in Seq(S) /\ Len(s) = 3 /\ Len(r) = 1 /\ Len(u) = 4
    OBVIOUS
  <2>2. s \o r \in Seq(S) /\ Len(s \o r) = 4
    BY <2>1
  <2>3. \A i \in 1 .. 4 : (s \o r)[i] = u[i]
    BY <2>1
  <2> HIDE DEF s, r, u, S
  <2> QED
    BY <2>1, <2>2, <2>3, SeqEqual DEF s, r, u
<1>2. <<>> \o <<"terminate">> = <<"terminate">>
  BY ConcatEmptySeq, <<"terminate">> \in Seq({"terminate"})
<1> QED
  BY <1>1, <1>2 DEF video!Leaving

\* The flows that are begun.
LEMMA TodoBegun ==
  /\ video!Connecting \in Todos /\ Head(video!Connecting) = "token"
  /\ <<"started", "group">> \o video!Connecting \in Todos
  /\ video!Leaving \in Todos /\ <<"ended">> \in Todos
  /\ video!Leaving \o <<"terminate">> \in Todos /\ <<>> \o <<"terminate">> \in Todos
<1>1. <<"started", "group">> \o <<"token", "connect">> = <<"started", "group", "token", "connect">>
  <2> DEFINE s == <<"started", "group">> r == <<"token", "connect">>
             u == <<"started", "group", "token", "connect">>
             S == {"started", "group", "token", "connect"}
  <2>1. s \in Seq(S) /\ r \in Seq(S) /\ u \in Seq(S) /\ Len(s) = 2 /\ Len(r) = 2 /\ Len(u) = 4
    OBVIOUS
  <2>2. s \o r \in Seq(S) /\ Len(s \o r) = 4
    BY <2>1
  <2>3. \A i \in 1 .. 4 : (s \o r)[i] = u[i]
    BY <2>1
  <2> HIDE DEF s, r, u, S
  <2> QED
    BY ZenonT(60), <2>1, <2>2, <2>3, SeqEqual DEF s, r, u
<1> QED
  BY <1>1, LeavingEnds DEF Todos, video!Connecting, video!Leaving

\* What a step of c does to its call and its flows: f goes and g comes.
LEMMA PutKeepsInv ==
  ASSUME CallInv, NEW c \in Callers, NEW s \in CallState, NEW f, NEW g \in SUBSET CallFlow,
         call' = [call EXCEPT ![c] = s], video!Put(c, f, g),
         \/ ~s.connecting
         \/ \E h \in g : Head(h.todo) \in {"token", "connect"}
         \/ call[c].connecting /\ (f \in CallFlow => Head(f.todo) \notin {"token", "connect"}),
         where' \in [Callers -> CallRooms \cup {NoRoom}], acts' \in [Callers -> Nat]
  PROVE  CallInv'
<1> USE DEF video!Put
<1>1. flows' \in [Callers -> SUBSET CallFlow] /\ call' \in [Callers -> CallState]
  BY DEF CallInv
<1>2. ASSUME NEW d \in Callers, call'[d].connecting
      PROVE  \E h \in flows'[d] : Head(h.todo) \in {"token", "connect"}
  <2>1. CASE d # c
    BY <1>2, <2>1 DEF CallInv, video!ConnectsAgain, video!Working
  <2>2. CASE d = c
    <3>1. flows'[c] = (flows[c] \ {f}) \cup g /\ call'[c] = s
      BY DEF CallInv
    <3>2. CASE \E h \in g : Head(h.todo) \in {"token", "connect"}
      BY <2>2, <3>1, <3>2
    <3>3. CASE call[c].connecting /\ (f \in CallFlow => Head(f.todo) \notin {"token", "connect"})
      <4>1. PICK h \in flows[c] : Head(h.todo) \in {"token", "connect"}
        BY <3>3 DEF CallInv, video!ConnectsAgain, video!Working
      <4>2. h \in CallFlow
        BY DEF CallInv
      <4> QED
        BY <2>2, <3>1, <3>3, <4>1, <4>2
    <3> QED
      BY <1>2, <2>2, <3>1, <3>2, <3>3
  <2> QED
    BY <2>1, <2>2
<1> QED
  BY <1>1, <1>2 DEF CallInv, video!ConnectsAgain, video!Working

\* The same when the call of c stays as it is.
LEMMA PutKeepsCall ==
  ASSUME CallInv, NEW c \in Callers, NEW f, NEW g \in SUBSET CallFlow,
         call' = call, video!Put(c, f, g),
         f \in CallFlow => Head(f.todo) \notin {"token", "connect"},
         where' \in [Callers -> CallRooms \cup {NoRoom}], acts' \in [Callers -> Nat]
  PROVE  CallInv'
<1>1. call[c] \in CallState /\ call[c].connecting \in BOOLEAN /\ call' = [call EXCEPT ![c] = call[c]]
  BY DEF CallInv, CallState
<1> QED
  BY <1>1, PutKeepsInv

\* The flows of a client are as CallFlow says.
LEMMA FlowBegun ==
  ASSUME CallInv, NEW c \in Callers, NEW todo \in Todos, NEW r \in CallRooms \cup {NoRoom}
  PROVE  /\ video!Flow(c, todo, r) \in CallFlow
         /\ video!Flow(c, todo, r).todo = todo
         /\ \A s \in CallRooms \cup {NoRoom} :
              [video!Flow(c, todo, r) EXCEPT !.group = s] \in CallFlow
  BY DEF CallInv, CallFlow, video!Flow

LEMMA NoFlow == <<>> \notin CallFlow /\ \A c, r : video!Flow(c, <<>>, r) \notin CallFlow
  BY TodoTail DEF CallFlow, video!Flow

\* Which flows the first step of f leaves behind.
LEMMA FlowAfter ==
  ASSUME NEW f \in CallFlow
  PROVE  /\ video!After(f) \in SUBSET CallFlow
         /\ Head(f.todo) = "token" => \E h \in video!After(f) : Head(h.todo) = "connect"
<1>1. f.todo \in Todos
  BY DEF CallFlow
<1>2. CASE Tail(f.todo) = <<>>
  BY <1>1, <1>2, TodoTail DEF video!After
<1>3. CASE Tail(f.todo) # <<>>
  <2> DEFINE h == [f EXCEPT !.todo = Tail(@)]
  <2>1. h \in CallFlow /\ h.todo = Tail(f.todo)
    BY <1>1, <1>3, TodoTail DEF CallFlow
  <2>2. video!After(f) = {h}
    BY <1>3 DEF video!After
  <2> QED
    BY <1>1, <2>1, <2>2, TodoTail
<1> QED
  BY <1>2, <1>3

\* An attempt to connect, after s and f, is refused while another is under way.
LEMMA ConnectKeepsInv ==
  ASSUME CallInv, NEW c \in Callers, NEW s \in CallState, NEW f, video!Connect(c, s, f),
         f.room \in CallRooms \cup {NoRoom}, s.connecting = call[c].connecting,
         f \in CallFlow => Head(f.todo) \notin {"token", "connect"},
         where' \in [Callers -> CallRooms \cup {NoRoom}], acts' \in [Callers -> Nat]
  PROVE  CallInv'
<1>1. CASE (s.active /\ s.livekit # NoRoom) \/ s.connecting
  <2>1. call' = [call EXCEPT ![c] = s] /\ video!Put(c, f, {})
    BY <1>1 DEF video!Connect
  <2>2. s.connecting \in BOOLEAN
    BY DEF CallState
  <2> QED
    BY <2>1, <2>2, PutKeepsInv
<1>2. CASE ~((s.active /\ s.livekit # NoRoom) \/ s.connecting)
  <2> DEFINE t == [s EXCEPT !.connecting = TRUE]  g == video!Flow(c, video!Connecting, f.room)
  <2>1. call' = [call EXCEPT ![c] = t] /\ video!Put(c, f, {g})
    BY <1>2 DEF video!Connect
  <2>2. t \in CallState
    BY DEF CallState
  <2>3. g \in CallFlow /\ Head(g.todo) = "token"
    BY TodoBegun, FlowBegun
  <2> HIDE DEF t, g
  <2> QED
    BY <2>1, <2>2, <2>3, PutKeepsInv
<1> QED
  BY <1>1, <1>2

\* A flow that goes on is one of c, so that nobody else's attempt is touched.
LEMMA CallFlowStep ==
  ASSUME CallInv, NEW c \in Callers, NEW f \in flows[c], video!Step(c, f) \/ video!Fail(c, f)
  PROVE  CallInv'
<1>1. /\ call[c] \in CallState /\ f \in CallFlow /\ f.room \in CallRooms \cup {NoRoom}
      /\ f.todo \in Todos /\ where[c] \in CallRooms \cup {NoRoom}
  BY DEF CallInv, CallFlow
<1>2. where' \in [Callers -> CallRooms \cup {NoRoom}] /\ acts' \in [Callers -> Nat]
  BY DEF CallInv, video!Step, video!Fail
<1> DEFINE s == call[c]
<1>3. CASE video!Fail(c, f)
  <2>1. CASE Head(f.todo) \in {"token", "connect"}
    <3>1. call' = [call EXCEPT ![c] = video!Aborted(s)] /\ video!Put(c, f, {})
      BY <1>3, <2>1 DEF video!Fail
    <3>2. video!Aborted(s) \in CallState /\ ~video!Aborted(s).connecting
      BY <1>1 DEF video!Aborted, CallState
    <3> QED
      BY <1>2, <3>1, <3>2, PutKeepsInv
  <2>2. CASE Head(f.todo) \notin {"token", "connect"}
    BY <1>1, <1>2, <1>3, <2>2, PutKeepsCall DEF video!Fail
  <2> QED
    BY <2>1, <2>2
<1>4. CASE Head(f.todo) = "started" /\ video!Started(c, f)
  <2>1. call' = [call EXCEPT ![c] = [s EXCEPT !.event = f.room]] /\ video!Put(c, f, video!After(f))
    BY <1>4 DEF video!Started
  <2>2. [s EXCEPT !.event = f.room] \in CallState /\ [s EXCEPT !.event = f.room].connecting = s.connecting
        /\ s.connecting \in BOOLEAN
    BY <1>1 DEF CallState
  <2> QED
    BY <1>1, <1>2, <1>4, <2>1, <2>2, FlowAfter, PutKeepsInv
<1>5. CASE Head(f.todo) = "group" /\ video!CreateGroupCall(c, f)
  <2>1. CASE f.room \in groups
    BY <1>1, <1>2, <1>5, <2>1, PutKeepsCall DEF video!CreateGroupCall
  <2>2. CASE f.room \notin groups
    <3>1. video!Connect(c, [s EXCEPT !.group = f.room], f)
      BY <1>5, <2>2 DEF video!CreateGroupCall
    <3>2. [s EXCEPT !.group = f.room] \in CallState /\ [s EXCEPT !.group = f.room].connecting = s.connecting
      BY <1>1 DEF CallState
    <3> QED
      BY <1>1, <1>2, <1>5, <3>1, <3>2, ConnectKeepsInv
  <2> QED
    BY <2>1, <2>2
<1>6. CASE Head(f.todo) = "token" /\ video!Token(c, f)
  <2> DEFINE e == IF s.event = NoRoom THEN f.room ELSE s.event
             u == [s EXCEPT !.active = TRUE, !.session = f.room, !.livekit = f.room, !.event = e]
  <2>1. call' = [call EXCEPT ![c] = u] /\ video!Put(c, f, video!After(f))
    BY <1>6 DEF video!Token
  <2>2. u \in CallState
    BY <1>1 DEF CallState
  <2> HIDE DEF u
  <2> QED
    BY <1>1, <1>2, <1>6, <2>1, <2>2, FlowAfter, PutKeepsInv
<1>7. CASE Head(f.todo) = "connect" /\ video!Connected(c, f)
  <2> DEFINE u == IF s.livekit = f.room THEN video!Finally(s) ELSE video!Aborted(s)
  <2>1. call' = [call EXCEPT ![c] = u] /\ video!Put(c, f, {})
    BY <1>7 DEF video!Connected
  <2>2. u \in CallState /\ ~u.connecting
    BY <1>1 DEF CallState, video!Finally, video!Aborted
  <2> HIDE DEF u
  <2> QED
    BY <1>1, <1>2, <2>1, <2>2, PutKeepsInv
<1>8. CASE Head(f.todo) = "ended" /\ video!Ended(c, f)
  <2> DEFINE todo == (IF s.active THEN video!Leaving ELSE <<>>) \o <<"terminate">>
             g == [video!Flow(c, todo, f.room) EXCEPT !.group = s.group]
  <2>1. call' = [call EXCEPT ![c] = video!Leave(s)] /\ video!Put(c, f, {g})
    BY <1>8 DEF video!Ended
  <2>2. video!Leave(s) \in CallState /\ video!Leave(s).connecting = s.connecting
        /\ s.connecting \in BOOLEAN /\ s.group \in CallRooms \cup {NoRoom}
    BY <1>1 DEF CallState, video!Leave
  <2>3. todo \in Todos
    BY TodoBegun
  <2>4. g \in CallFlow
    BY <1>1, <2>2, <2>3, FlowBegun
  <2> HIDE DEF g
  <2> QED
    BY <1>1, <1>2, <1>8, <2>1, <2>2, <2>4, PutKeepsInv
<1>9. CASE Head(f.todo) = "disconnect" /\ video!Disconnect(c, f)
  <2> DEFINE v == IF s.video = "on" THEN "off" ELSE s.video
             u == [s EXCEPT !.livekit = NoRoom, !.group = NoRoom, !.video = v]
  <2>1. call' = [call EXCEPT ![c] = u] /\ video!Put(c, f, video!After(f))
    BY <1>9 DEF video!Disconnect
  <2>2. u \in CallState /\ u.connecting = s.connecting /\ s.connecting \in BOOLEAN
    BY <1>1 DEF CallState
  <2> HIDE DEF u
  <2> QED
    BY <1>1, <1>2, <1>9, <2>1, <2>2, FlowAfter, PutKeepsInv
<1>10. CASE Head(f.todo) \in {"session", "left"} /\ (video!LeaveSession(c, f) \/ video!Left(c, f))
  <2> DEFINE u == [s EXCEPT !.session = NoRoom]  w == [s EXCEPT !.event = NoRoom]
  <2>1. /\ call' = [call EXCEPT ![c] = u] \/ call' = [call EXCEPT ![c] = w]
        /\ video!Put(c, f, video!After(f))
    BY <1>10 DEF video!LeaveSession, video!Left
  <2>2. /\ u \in CallState /\ u.connecting = s.connecting
        /\ w \in CallState /\ w.connecting = s.connecting /\ s.connecting \in BOOLEAN
    BY <1>1 DEF CallState
  <2> HIDE DEF u, w
  <2> QED
    BY <1>1, <1>2, <1>10, <2>1, <2>2, FlowAfter, PutKeepsInv
<1>11. CASE Head(f.todo) \notin {"token", "connect"} /\ video!Terminate(c, f)
  <2> DEFINE u == [s EXCEPT !.ending = FALSE]
  <2>1. call' = [call EXCEPT ![c] = u] /\ video!Put(c, f, {})
    BY <1>11 DEF video!Terminate
  <2>2. u \in CallState /\ u.connecting = s.connecting /\ s.connecting \in BOOLEAN
    BY <1>1 DEF CallState
  <2> HIDE DEF u
  <2> QED
    BY <1>1, <1>2, <1>11, <2>1, <2>2, PutKeepsInv
<1> QED
  BY <1>3, <1>4, <1>5, <1>6, <1>7, <1>8, <1>9, <1>10, <1>11 DEF video!Step

LEMMA CallStep == CallInv /\ (video!CallNext \/ UNCHANGED videoVars) => CallInv'
<1> SUFFICES ASSUME CallInv, video!CallNext \/ UNCHANGED videoVars PROVE CallInv'
  OBVIOUS
<1>1. CASE UNCHANGED videoVars
  BY <1>1 DEF videoVars, CallInv, video!ConnectsAgain, video!Working
<1>2. ASSUME NEW c \in Callers, NEW f \in flows[c], video!Step(c, f) \/ video!Fail(c, f) PROVE CallInv'
  BY <1>2, CallFlowStep
<1>3. ASSUME NEW c \in Callers
      PROVE  /\ call[c] \in CallState /\ where[c] \in CallRooms \cup {NoRoom}
             /\ call[c].connecting \in BOOLEAN
             /\ video!Leave(call[c]) \in CallState /\ video!Leave(call[c]).connecting = call[c].connecting
             /\ video!Act(c) => acts' \in [Callers -> Nat]
             /\ \A r \in CallRooms \cup {NoRoom} : {video!Flow(c, video!Leaving, r)} \in SUBSET CallFlow
  <2>1. call[c] \in CallState /\ where[c] \in CallRooms \cup {NoRoom}
    BY DEF CallInv
  <2>2. /\ call[c].connecting \in BOOLEAN
        /\ video!Leave(call[c]) \in CallState /\ video!Leave(call[c]).connecting = call[c].connecting
    BY <2>1 DEF CallState, video!Leave
  <2>3. video!Act(c) => acts' \in [Callers -> Nat]
    BY DEF CallInv, video!Act
  <2>4. \A r \in CallRooms \cup {NoRoom} : {video!Flow(c, video!Leaving, r)} \in SUBSET CallFlow
    BY TodoBegun, FlowBegun
  <2> QED
    BY <2>1, <2>2, <2>3, <2>4
<1>4. ASSUME NEW c \in Callers, video!BeginCall(c), video!Act(c), UNCHANGED where PROVE CallInv'
  <2>1. {video!Flow(c, <<"started", "group">> \o video!Connecting, where[c])} \in SUBSET CallFlow
    BY <1>3, TodoBegun, FlowBegun
  <2> QED
    BY <1>3, <1>4, <2>1, NoFlow, PutKeepsCall DEF video!BeginCall, CallInv
<1>5. ASSUME NEW c \in Callers, video!StartCall(c) PROVE CallInv'
  BY <1>4, <1>5 DEF video!StartCall
<1>6. ASSUME NEW c \in Callers, video!JoinVideoCall(c) PROVE CallInv'
  <2>1. CASE video!JoinCall(c)
    <3> DEFINE s == [call[c] EXCEPT !.group = where[c]]  f == video!Flow(c, <<>>, where[c])
    <3>1. s \in CallState /\ s.connecting = call[c].connecting
      BY <1>3 DEF CallState
    <3>2. f \notin CallFlow /\ f.room = where[c]
      BY NoFlow DEF video!Flow
    <3>3. video!Connect(c, s, f)
      BY <2>1 DEF video!JoinCall
    <3> HIDE DEF s, f
    <3> QED
      BY <1>3, <1>6, <3>1, <3>2, <3>3, ConnectKeepsInv DEF video!JoinVideoCall, CallInv
  <2> QED
    BY <1>4, <1>6, <2>1 DEF video!JoinVideoCall
<1>7. ASSUME NEW c \in Callers, NEW end \in BOOLEAN, video!GoBack(c, end) PROVE CallInv'
  <2>1. CASE end \/ ~sees[c]
    <3> DEFINE s == [call[c] EXCEPT !.ending = TRUE]
    <3>1. s \in CallState /\ s.connecting = call[c].connecting
      BY ZenonT(60), <1>3 DEF CallState
    <3>2. {video!EndFlow(c)} \in SUBSET CallFlow
      BY <1>3, TodoBegun, FlowBegun DEF video!EndFlow
    <3>3. call' = [call EXCEPT ![c] = s] /\ video!Put(c, <<>>, {video!EndFlow(c)})
      BY <1>7, <2>1 DEF video!GoBack
    <3> HIDE DEF s
    <3> QED
      BY <1>3, <1>7, <3>1, <3>2, <3>3, NoFlow, PutKeepsInv DEF video!GoBack, CallInv
  <2>2. CASE ~(end \/ ~sees[c])
    <3> DEFINE g == IF call[c].active THEN {video!Flow(c, video!Leaving, where[c])} ELSE {}
    <3>1. g \in SUBSET CallFlow
      BY <1>3
    <3>2. call' = [call EXCEPT ![c] = video!Leave(call[c])] /\ video!Put(c, <<>>, g)
      BY <1>7, <2>2 DEF video!GoBack
    <3> HIDE DEF g
    <3> QED
      BY <1>3, <1>7, <3>1, <3>2, NoFlow, PutKeepsInv DEF video!GoBack, CallInv
  <2> QED
    BY <2>1, <2>2
<1>8. ASSUME NEW c \in Callers, video!Navigate(c) PROVE CallInv'
  <2>1. where' \in [Callers -> CallRooms \cup {NoRoom}]
    BY <1>8 DEF video!Navigate, CallInv
  <2> QED
    BY <1>3, <1>8, <2>1 DEF video!Navigate, CallInv, video!ConnectsAgain, video!Working
<1>9. ASSUME NEW c \in Callers, video!ChangeVideoDevice(c) \/ video!VideoTrack(c) PROVE CallInv'
  <2>1. PICK v \in {"opening", "on"} : call' = [call EXCEPT ![c] = [call[c] EXCEPT !.video = v]]
    BY <1>9 DEF video!ChangeVideoDevice, video!VideoTrack
  <2>2. [call[c] EXCEPT !.video = v] \in CallState /\ [call[c] EXCEPT !.video = v].connecting = call[c].connecting
    BY <1>3 DEF CallState
  <2>3. call' \in [Callers -> CallState] /\ acts' \in [Callers -> Nat] /\ UNCHANGED <<flows, where>>
    BY <1>3, <1>9, <2>1, <2>2 DEF CallInv, video!ChangeVideoDevice, video!VideoTrack
  <2>4. \A d \in Callers : call'[d].connecting = call[d].connecting
    BY <2>1, <2>2 DEF CallInv
  <2> QED
    BY <2>3, <2>4 DEF CallInv, video!ConnectsAgain, video!Working
<1>10. ASSUME NEW c \in Callers, video!SyncRemoteParticipants(c) PROVE CallInv'
  BY <1>10 DEF video!SyncRemoteParticipants, CallInv, video!ConnectsAgain, video!Working
<1>11. ASSUME NEW c \in Callers, NEW r \in CallRooms, video!CallTerminated(c, r) PROVE CallInv'
  <2>1. CASE UNCHANGED <<where, call, flows>>
    BY <1>11, <2>1 DEF video!CallTerminated, CallInv, video!ConnectsAgain, video!Working
  <2>2. CASE r \in heard[c] /\ ~call[c].ending
    <3> DEFINE g == IF call[c].active THEN {video!Flow(c, video!Leaving, r)} ELSE {}
    <3>1. g \in SUBSET CallFlow
      BY <1>3
    <3>2. call' = [call EXCEPT ![c] = video!Leave(call[c])] /\ video!Put(c, <<>>, g)
      BY <1>11, <2>2 DEF video!CallTerminated
    <3>3. where' \in [Callers -> CallRooms \cup {NoRoom}] /\ acts' \in [Callers -> Nat]
      BY <1>11, <2>2 DEF video!CallTerminated, CallInv
    <3> HIDE DEF g
    <3> QED
      BY <1>3, <3>1, <3>2, <3>3, NoFlow, PutKeepsInv
  <2> QED
    BY <1>11, <2>1, <2>2 DEF video!CallTerminated
<1> QED
  BY <1>1, <1>2, <1>5, <1>6, <1>7, <1>8, <1>9, <1>10, <1>11 DEF video!CallNext

LEMMA CallStart == video!CallInit => CallInv
<1> SUFFICES ASSUME video!CallInit PROVE CallInv
  OBVIOUS
<1>1. video!Idle \in CallState /\ ~video!Idle.connecting
  BY DEF video!Idle, CallState
<1> QED
  BY <1>1 DEF video!CallInit, CallInv, video!ConnectsAgain

\* While _connecting is set an attempt to connect is under way, whatever fails
\* or overlaps (connectToCall); and a request for a chained session that waits is
\* with it, which will expire, or its command is on its way; and for a Yivi server
\* that is dripped on, waits and is gone, an abort is on its way.
THEOREM NobodyIsForgotten == Spec => []NobodyWaitsInVain
<1> DEFINE I == (part = "video" => CallInv) /\ (part = "chains" => ChainInv)
<1>1. Init => I
  BY Parts, CallStart, ChainStart
<1>2. I /\ [Next]_vars => I'
  <2> SUFFICES ASSUME I, [Next]_vars PROVE I'
    OBVIOUS
  <2>1. part = "video" => CallInv'
    BY Parts, CallStep
  <2>2. part = "chains" => ChainInv'
    BY Parts, ChainStep
  <2> QED
    BY <2>1, <2>2, Parts
<1>3. I => NobodyWaitsInVain
  BY ChainGives DEF CallInv, NobodyWaitsInVain
<1> QED
  BY <1>1, <1>2, <1>3, PTL DEF Spec

-----------------------------------------------------------------------------
(* Account: types, and the secret of an account that has one.              *)

Stored == [id : 0 .. contents, data : [accounts!Attrs -> 0 .. secrets]]
Places == Devices \cup {Nobody}
Run ==
  [at : accounts!Steps \cup {"none"}, on : Places, mode : {"Login", "LoginOrRegister"},
   attrs : SUBSET accounts!Attrs, base : Stored, hash : [accounts!Handles -> 0 .. contents],
   new : Stored, warned : BOOLEAN]
Writing == {"store", "verify", "storebackup", "verifybackup"}

\* What a run of enterPubHubs has at each of its steps.
RunOK(x) ==
  /\ x.at \in {"enter", "card", "state", "backup", "keys"} => x.attrs # {}
  /\ x.at \in Writing => x.new.id > x.base.id /\ \E a \in accounts!Attrs : x.new.data[a] # 0

AccountTypes ==
  /\ existed \in BOOLEAN /\ contents \in Nat /\ secrets \in Nat
  /\ account \in SUBSET accounts!Attrs /\ wallet \in SUBSET accounts!Attrs
  /\ object \in [accounts!Handles -> Stored]
  /\ disk \in [Devices -> [token : BOOLEAN, secret : 0 .. secrets]]
  /\ mem \in [Devices -> [token : BOOLEAN, secret : 0 .. secrets,
                          hash : [accounts!Handles -> 0 .. contents]]]
  /\ \A d \in Devices : disk[d].token => mem[d].token
  /\ page \in [Devices -> {"login", "onboarding", "home", "error"}]
  /\ flow \in [Flows -> Run]
  /\ \A f \in Flows : RunOK(flow[f])

\* An object that holds the secret 1 for some attribute, and no other.
HoldsFirst(o) ==
  /\ o.id # 0 /\ o.data \in [accounts!Attrs -> {0, 1}]
  /\ \E a \in accounts!Attrs : o.data[a] = 1

\* A run of an account that has a secret works on that one.
RunOfFirst(x) ==
  /\ x.at \in Writing \cup {"backup", "keys"} => HoldsFirst(x.base)
  /\ x.at \in Writing => HoldsFirst(x.new)

SecretInv ==
  existed =>
    /\ \A h \in accounts!Handles : HoldsFirst(object[h])
    /\ \A d \in Devices : disk[d].secret \in {0, 1} /\ mem[d].secret \in {0, 1}
    /\ \A f \in Flows : RunOfFirst(flow[f])

AccountInv == AccountTypes /\ SecretInv

LEMMA NoRun ==
  ASSUME AccountTypes
  PROVE  accounts!NoFlow \in Run /\ RunOK(accounts!NoFlow) /\ RunOfFirst(accounts!NoFlow)
  BY DEF AccountTypes, RunOK, RunOfFirst, Run, Places, Stored, Writing, accounts!NoFlow, accounts!Empty,
     accounts!Attrs, accounts!Handles, accounts!Steps

\* A step that changes one run.
LEMMA RunStep ==
  ASSUME AccountInv, NEW f \in Flows, NEW x \in Run, RunOK(x), existed => RunOfFirst(x),
         flow' = [flow EXCEPT ![f] = x], UNCHANGED <<existed, contents, secrets>>
  PROVE  /\ (flow \in [Flows -> Run])'
         /\ \A g \in Flows : RunOK(flow'[g]) /\ (existed' => RunOfFirst(flow'[g]))
<1>1. Run' = Run
  BY DEF Run, Stored
<1> QED
  BY <1>1 DEF AccountInv, AccountTypes, SecretInv

\* Logging out keeps the types, and leaves no secret behind on the disk.
LEMMA LogoutStep ==
  ASSUME AccountInv, NEW d, accounts!Logout(d), UNCHANGED <<existed, contents, secrets>>
  PROVE  /\ (disk \in [Devices -> [token : BOOLEAN, secret : 0 .. secrets]])'
         /\ (mem \in [Devices -> [token : BOOLEAN, secret : 0 .. secrets,
                                  hash : [accounts!Handles -> 0 .. contents]]])'
         /\ \A e \in Devices : disk'[e].token => mem'[e].token
         /\ existed => \A e \in Devices : disk'[e].secret \in {0, 1} /\ mem'[e].secret \in {0, 1}
<1>1. CASE d \in Devices
  <2> DEFINE m == [mem[d] EXCEPT !.token = disk[d].token, !.hash = [h \in accounts!Handles |-> 0]]
             k == [token |-> FALSE, secret |-> 0]
  <2>1. disk' = [disk EXCEPT ![d] = k] /\ mem' = [mem EXCEPT ![d] = m]
    BY <1>1 DEF accounts!Logout, AccountInv, AccountTypes
  <2>2. /\ m \in [token : BOOLEAN, secret : 0 .. secrets, hash : [accounts!Handles -> 0 .. contents]]
        /\ m.secret = mem[d].secret /\ m.token = disk[d].token
    <3>1. /\ mem[d] \in [token : BOOLEAN, secret : 0 .. secrets, hash : [accounts!Handles -> 0 .. contents]]
          /\ disk[d].token \in BOOLEAN
      BY <1>1 DEF AccountInv, AccountTypes
    <3>2. [h \in accounts!Handles |-> 0] \in [accounts!Handles -> 0 .. contents]
      BY DEF AccountInv, AccountTypes
    <3> QED
      BY <3>1, <3>2
  <2>3. k \in [token : BOOLEAN, secret : 0 .. secrets] /\ k.secret = 0 /\ ~k.token
    BY DEF AccountInv, AccountTypes
  <2> HIDE DEF m, k
  <2>4. \A e \in Devices : mem'[e] = (IF e = d THEN m ELSE mem[e]) /\ disk'[e] = (IF e = d THEN k ELSE disk[e])
    BY <1>1, <2>1 DEF AccountInv, AccountTypes
  <2>5. /\ (disk \in [Devices -> [token : BOOLEAN, secret : 0 .. secrets]])'
        /\ (mem \in [Devices -> [token : BOOLEAN, secret : 0 .. secrets,
                                  hash : [accounts!Handles -> 0 .. contents]]])'
    BY <1>1, <2>1, <2>2, <2>3 DEF AccountInv, AccountTypes
  <2>6. \A e \in Devices : disk'[e].token => mem'[e].token
    BY <2>3, <2>4 DEF AccountInv, AccountTypes
  <2>7. existed => \A e \in Devices : disk'[e].secret \in {0, 1} /\ mem'[e].secret \in {0, 1}
    BY <1>1, <2>2, <2>3, <2>4 DEF AccountInv, SecretInv
  <2> QED
    BY <2>5, <2>6, <2>7
<1>2. CASE d \notin Devices
  BY <1>2 DEF accounts!Logout, AccountInv, AccountTypes, SecretInv
<1> QED
  BY <1>1, <1>2

\* The hashes that Central has.
LEMMA HashesType == AccountTypes => accounts!Hashes \in [accounts!Handles -> 0 .. contents]
  BY DEF AccountTypes, Stored, accounts!Hashes

\* What else a step has to keep when it touches neither objects nor numbers.
LEMMA AccountKept ==
  ASSUME AccountInv, UNCHANGED <<existed, contents, secrets, object>>,
         account' \in SUBSET accounts!Attrs, wallet' \in SUBSET accounts!Attrs,
         page' \in [Devices -> {"login", "onboarding", "home", "error"}],
         (disk \in [Devices -> [token : BOOLEAN, secret : 0 .. secrets]])',
         (mem \in [Devices -> [token : BOOLEAN, secret : 0 .. secrets,
                               hash : [accounts!Handles -> 0 .. contents]]])',
         \A e \in Devices : disk'[e].token => mem'[e].token,
         existed => \A e \in Devices : disk'[e].secret \in {0, 1} /\ mem'[e].secret \in {0, 1},
         (flow \in [Flows -> Run])',
         \A g \in Flows : RunOK(flow'[g]) /\ (existed' => RunOfFirst(flow'[g]))
  PROVE  AccountInv'
<1>1. Stored' = Stored
  BY DEF Stored
<1> QED
  BY ZenonT(60), <1>1 DEF AccountInv, AccountTypes, SecretInv, RunOK, RunOfFirst, HoldsFirst

\* A run that goes on to another step.
LEMMA GoStep ==
  ASSUME AccountInv, NEW f \in Flows, NEW step \in accounts!Steps, accounts!Go(f, step),
         step \in {"enter", "card", "state", "backup"} => flow[f].attrs # {},
         step \in Writing => flow[f].at \in Writing,
         step \notin {"backup", "keys"}, UNCHANGED <<existed, contents, secrets>>
  PROVE  /\ (flow \in [Flows -> Run])'
         /\ \A g \in Flows : RunOK(flow'[g]) /\ (existed' => RunOfFirst(flow'[g]))
<1> DEFINE x == [flow[f] EXCEPT !.at = step]
<1>1. flow[f] \in Run /\ RunOK(flow[f]) /\ (existed => RunOfFirst(flow[f]))
  BY DEF AccountInv, AccountTypes, SecretInv
<1>2. x \in Run /\ x.at = step /\ x.attrs = flow[f].attrs /\ x.new = flow[f].new /\ x.base = flow[f].base
  BY <1>1 DEF Run
<1>3. flow' = [flow EXCEPT ![f] = x]
  BY DEF accounts!Go
<1> HIDE DEF x
<1>4. RunOK(x) /\ (existed => RunOfFirst(x))
  BY <1>1, <1>2 DEF RunOK, RunOfFirst
<1> QED
  BY <1>2, <1>3, <1>4, RunStep

\* A run that is over.
LEMMA EndStep ==
  ASSUME AccountInv, NEW f \in Flows, accounts!End(f), UNCHANGED <<existed, contents, secrets>>
  PROVE  /\ (flow \in [Flows -> Run])'
         /\ \A g \in Flows : RunOK(flow'[g]) /\ (existed' => RunOfFirst(flow'[g]))
  BY NoRun, RunStep DEF AccountInv, accounts!End

\* What does not touch the runs.
LEMMA SameRuns ==
  ASSUME AccountInv, UNCHANGED <<flow, existed, contents, secrets>>
  PROVE  /\ (flow \in [Flows -> Run])'
         /\ \A g \in Flows : RunOK(flow'[g]) /\ (existed' => RunOfFirst(flow'[g]))
<1>1. Run' = Run
  BY DEF Run, Stored
<1> QED
  BY <1>1 DEF AccountInv, AccountTypes, SecretInv

\* What does not touch the devices.
LEMMA SameDevices ==
  ASSUME AccountInv, UNCHANGED <<disk, mem, existed, contents, secrets>>
  PROVE  /\ (disk \in [Devices -> [token : BOOLEAN, secret : 0 .. secrets]])'
         /\ (mem \in [Devices -> [token : BOOLEAN, secret : 0 .. secrets,
                                  hash : [accounts!Handles -> 0 .. contents]]])'
         /\ \A e \in Devices : disk'[e].token => mem'[e].token
         /\ existed => \A e \in Devices : disk'[e].secret \in {0, 1} /\ mem'[e].secret \in {0, 1}
  BY DEF AccountInv, AccountTypes, SecretInv

\* The known hashes of a device change, and nothing else of it.
LEMMA HashStep ==
  ASSUME AccountInv, NEW d, NEW known \in [accounts!Handles -> 0 .. contents],
         mem' = [mem EXCEPT ![d].hash = known], UNCHANGED <<disk, existed, contents, secrets>>
  PROVE  /\ (disk \in [Devices -> [token : BOOLEAN, secret : 0 .. secrets]])'
         /\ (mem \in [Devices -> [token : BOOLEAN, secret : 0 .. secrets,
                                  hash : [accounts!Handles -> 0 .. contents]]])'
         /\ \A e \in Devices : disk'[e].token => mem'[e].token
         /\ existed => \A e \in Devices : disk'[e].secret \in {0, 1} /\ mem'[e].secret \in {0, 1}
<1>1. CASE d \in Devices
  <2> DEFINE m == [mem[d] EXCEPT !.hash = known]
  <2>1. mem' = [mem EXCEPT ![d] = m]
    BY <1>1
  <2>2. /\ m \in [token : BOOLEAN, secret : 0 .. secrets, hash : [accounts!Handles -> 0 .. contents]]
        /\ m.secret = mem[d].secret /\ m.token = mem[d].token
    <3>1. mem[d] \in [token : BOOLEAN, secret : 0 .. secrets, hash : [accounts!Handles -> 0 .. contents]]
      BY <1>1 DEF AccountInv, AccountTypes
    <3> QED
      BY <3>1
  <2> HIDE DEF m
  <2>3. \A e \in Devices : mem'[e] = IF e = d THEN m ELSE mem[e]
    BY <1>1, <2>1 DEF AccountInv, AccountTypes
  <2>4. (mem \in [Devices -> [token : BOOLEAN, secret : 0 .. secrets, hash : [accounts!Handles -> 0 .. contents]]])'
    BY <1>1, <2>1, <2>2 DEF AccountInv, AccountTypes
  <2> QED
    BY <1>1, <2>2, <2>3, <2>4 DEF AccountInv, AccountTypes, SecretInv
<1>2. CASE d \notin Devices
  BY <1>2 DEF AccountInv, AccountTypes, SecretInv
<1> QED
  BY <1>1, <1>2

\* A device is given a token, on the disk and in memory.
LEMMA TokenStep ==
  ASSUME AccountInv, NEW d, UNCHANGED <<existed, contents, secrets>>,
         mem' = [mem EXCEPT ![d].token = TRUE], disk' = [disk EXCEPT ![d].token = TRUE]
  PROVE  /\ (disk \in [Devices -> [token : BOOLEAN, secret : 0 .. secrets]])'
         /\ (mem \in [Devices -> [token : BOOLEAN, secret : 0 .. secrets,
                                  hash : [accounts!Handles -> 0 .. contents]]])'
         /\ \A e \in Devices : disk'[e].token => mem'[e].token
         /\ existed => \A e \in Devices : disk'[e].secret \in {0, 1} /\ mem'[e].secret \in {0, 1}
<1>1. CASE d \in Devices
  <2> DEFINE m == [mem[d] EXCEPT !.token = TRUE]  k == [disk[d] EXCEPT !.token = TRUE]
  <2>1. mem' = [mem EXCEPT ![d] = m] /\ disk' = [disk EXCEPT ![d] = k]
    BY <1>1
  <2>2. /\ m \in [token : BOOLEAN, secret : 0 .. secrets, hash : [accounts!Handles -> 0 .. contents]]
        /\ k \in [token : BOOLEAN, secret : 0 .. secrets]
        /\ m.secret = mem[d].secret /\ m.token = TRUE /\ k.secret = disk[d].secret
    <3>1. /\ mem[d] \in [token : BOOLEAN, secret : 0 .. secrets, hash : [accounts!Handles -> 0 .. contents]]
          /\ disk[d] \in [token : BOOLEAN, secret : 0 .. secrets]
      BY <1>1 DEF AccountInv, AccountTypes
    <3> QED
      BY <3>1
  <2> HIDE DEF m, k
  <2>3. \A e \in Devices : mem'[e] = (IF e = d THEN m ELSE mem[e]) /\ disk'[e] = (IF e = d THEN k ELSE disk[e])
    BY <1>1, <2>1 DEF AccountInv, AccountTypes
  <2>4. (disk \in [Devices -> [token : BOOLEAN, secret : 0 .. secrets]])'
    BY ZenonT(60), <1>1, <2>1, <2>2 DEF AccountInv, AccountTypes
  <2>7. (mem \in [Devices -> [token : BOOLEAN, secret : 0 .. secrets, hash : [accounts!Handles -> 0 .. contents]]])'
    BY ZenonT(60), <1>1, <2>1, <2>2 DEF AccountInv, AccountTypes
  <2>5. \A e \in Devices : disk'[e].token => mem'[e].token
    BY <2>2, <2>3 DEF AccountInv, AccountTypes
  <2>6. existed => \A e \in Devices : disk'[e].secret \in {0, 1} /\ mem'[e].secret \in {0, 1}
    BY <1>1, <2>2, <2>3 DEF AccountInv, SecretInv
  <2> QED
    BY <2>4, <2>5, <2>6, <2>7
<1>2. CASE d \notin Devices
  BY <1>2 DEF AccountInv, AccountTypes, SecretInv
<1> QED
  BY <1>1, <1>2

LEMMA AccountPages ==
  ASSUME AccountInv, NEW d, NEW p \in {"login", "onboarding", "home", "error"},
         page' = [page EXCEPT ![d] = p] \/ page' = page
  PROVE  page' \in [Devices -> {"login", "onboarding", "home", "error"}]
  BY DEF AccountInv, AccountTypes

\* The steps of a device that no run takes.
LEMMA AccountDeviceStep ==
  ASSUME AccountInv, NEW d \in Devices,
         \/ \E to \in {"login", "onboarding", "home"} : accounts!Visit(d, to)
         \/ accounts!LogOut(d) \/ accounts!Reload(d)
         \/ \E f \in Flows : accounts!EnterPubHubs(f, d)
  PROVE  AccountInv'
<1>1. ASSUME NEW to \in {"login", "onboarding", "home"}, accounts!Visit(d, to) PROVE AccountInv'
  <2>1. page' \in [Devices -> {"login", "onboarding", "home", "error"}]
    BY <1>1 DEF accounts!Visit, AccountInv, AccountTypes
  <2>2. /\ UNCHANGED <<account, wallet, object, disk, mem, flow, existed, contents, secrets>>
        /\ account \in SUBSET accounts!Attrs /\ wallet \in SUBSET accounts!Attrs
    BY <1>1 DEF accounts!Visit, accounts!serverVars, AccountInv, AccountTypes
  <2> QED
    BY <2>1, <2>2, SameRuns, SameDevices, AccountKept
<1>2. CASE accounts!LogOut(d)
  <2>1. page' \in [Devices -> {"login", "onboarding", "home", "error"}]
    BY <1>2, AccountPages DEF accounts!LogOut
  <2>2. /\ UNCHANGED <<account, wallet, object, flow, existed, contents, secrets>> /\ accounts!Logout(d)
        /\ account \in SUBSET accounts!Attrs /\ wallet \in SUBSET accounts!Attrs
    BY <1>2 DEF accounts!LogOut, accounts!serverVars, AccountInv, AccountTypes
  <2> QED
    BY <2>1, <2>2, SameRuns, LogoutStep, AccountKept
<1>3. CASE accounts!Reload(d)
  <2> DEFINE m == [token |-> disk[d].token, secret |-> 0, hash |-> [h \in accounts!Handles |-> 0]]
  <2>1. /\ UNCHANGED <<account, wallet, object, disk, page, existed, contents, secrets>>
        /\ mem' = [mem EXCEPT ![d] = m]
        /\ flow' = [f \in Flows |-> IF flow[f].on = d THEN accounts!NoFlow ELSE flow[f]]
        /\ account \in SUBSET accounts!Attrs /\ wallet \in SUBSET accounts!Attrs
        /\ page \in [Devices -> {"login", "onboarding", "home", "error"}]
    BY <1>3 DEF accounts!Reload, accounts!serverVars, AccountInv, AccountTypes
  <2>2. /\ m \in [token : BOOLEAN, secret : 0 .. secrets, hash : [accounts!Handles -> 0 .. contents]]
        /\ m.token = disk[d].token /\ m.secret = 0
    <3>1. disk[d].token \in BOOLEAN /\ 0 \in 0 .. secrets /\ 0 \in 0 .. contents
      BY DEF AccountInv, AccountTypes
    <3> QED
      BY <3>1
  <2> HIDE DEF m
  <2>3. /\ mem' \in [Devices -> [token : BOOLEAN, secret : 0 .. secrets, hash : [accounts!Handles -> 0 .. contents]]]
        /\ \A e \in Devices : mem'[e] = IF e = d THEN m ELSE mem[e]
    BY <2>1, <2>2 DEF AccountInv, AccountTypes
  <2>4. \A e \in Devices : disk'[e].token => mem'[e].token
    BY <2>1, <2>2, <2>3 DEF AccountInv, AccountTypes
  <2>5. existed => \A e \in Devices : disk'[e].secret \in {0, 1} /\ mem'[e].secret \in {0, 1}
    BY <2>1, <2>2, <2>3 DEF AccountInv, SecretInv
  <2>6. (disk \in [Devices -> [token : BOOLEAN, secret : 0 .. secrets]])'
    BY <2>1 DEF AccountInv, AccountTypes
  <2>7. Run' = Run
    BY <2>1 DEF Run, Stored
  <2>8. /\ (flow \in [Flows -> Run])'
        /\ \A g \in Flows : RunOK(flow'[g]) /\ (existed' => RunOfFirst(flow'[g]))
    BY <2>1, <2>7, NoRun DEF AccountInv, AccountTypes, SecretInv
  <2> QED
    BY <2>1, <2>3, <2>4, <2>5, <2>6, <2>8, AccountKept
<1>4. ASSUME NEW f \in Flows, accounts!EnterPubHubs(f, d) PROVE AccountInv'
  <2> DEFINE x == [accounts!NoFlow EXCEPT !.at = "start", !.on = d,
                     !.mode = IF page[d] = "login" THEN "Login" ELSE "LoginOrRegister"]
  <2>1. /\ UNCHANGED <<account, wallet, object, disk, mem, page, existed, contents, secrets>>
        /\ flow' = [flow EXCEPT ![f] = x]
        /\ account \in SUBSET accounts!Attrs /\ wallet \in SUBSET accounts!Attrs
        /\ page \in [Devices -> {"login", "onboarding", "home", "error"}]
    BY <1>4 DEF accounts!EnterPubHubs, accounts!serverVars, accounts!deviceVars, AccountInv, AccountTypes
  <2>2. x \in Run /\ x.at = "start"
    BY NoRun DEF AccountInv, Run, Places, accounts!Steps
  <2> HIDE DEF x
  <2>3. RunOK(x) /\ RunOfFirst(x)
    BY <2>2 DEF RunOK, RunOfFirst, Writing
  <2> QED
    BY <2>1, <2>2, <2>3, RunStep, SameDevices, AccountKept
<1> QED
  BY <1>1, <1>2, <1>3, <1>4

\* What is known of the run that takes a step.
LEMMA RunKnown ==
  ASSUME AccountInv, NEW f \in Flows
  PROVE  /\ flow[f] \in Run /\ RunOK(flow[f]) /\ (existed => RunOfFirst(flow[f]))
         /\ flow[f].attrs \in SUBSET accounts!Attrs
         /\ account \in SUBSET accounts!Attrs /\ wallet \in SUBSET accounts!Attrs
         /\ page \in [Devices -> {"login", "onboarding", "home", "error"}]
  BY DEF AccountInv, AccountTypes, SecretInv, Run

\* The steps of a run up to the user secret.
LEMMA AccountEnterStep ==
  ASSUME AccountInv, NEW f \in Flows,
         \/ accounts!AuthStart(f) \/ accounts!Disclose(f) \/ accounts!Enter(f)
         \/ accounts!IssueCard(f) \/ accounts!ReissueCard(f)
         \/ accounts!Route(f) \/ accounts!Throw(f)
  PROVE  AccountInv'
<1>0. /\ flow[f] \in Run /\ RunOK(flow[f]) /\ (existed => RunOfFirst(flow[f]))
      /\ flow[f].attrs \in SUBSET accounts!Attrs
      /\ account \in SUBSET accounts!Attrs /\ wallet \in SUBSET accounts!Attrs
      /\ page \in [Devices -> {"login", "onboarding", "home", "error"}]
  BY RunKnown
<1>1. CASE accounts!AuthStart(f)
  <2>1. UNCHANGED <<account, wallet, object, disk, mem, page, existed, contents, secrets>>
    BY <1>1 DEF accounts!AuthStart, accounts!serverVars
  <2>2. accounts!Go(f, "disclose") /\ "disclose" \in accounts!Steps /\ "disclose" \notin Writing
    BY <1>1 DEF accounts!AuthStart, accounts!Steps, Writing
  <2> QED
    BY <1>0, <2>1, <2>2, GoStep, SameDevices, AccountKept
<1>2. CASE accounts!Disclose(f)
  <2> DEFINE a == IF flow[f].mode = "Login" THEN {"card"} ELSE {"email"}
             x == [flow[f] EXCEPT !.at = "enter", !.attrs = a]
  <2>1. UNCHANGED <<account, wallet, object, disk, mem, existed, contents, secrets>>
    BY <1>2 DEF accounts!Disclose, accounts!serverVars
  <2>2. page' \in [Devices -> {"login", "onboarding", "home", "error"}]
    BY <1>2, AccountPages DEF accounts!Disclose
  <2>3. flow' = [flow EXCEPT ![f] = x] \/ accounts!End(f)
    BY <1>2 DEF accounts!Disclose
  <2>4. x \in Run /\ x.at = "enter" /\ x.attrs # {}
    BY <1>0 DEF Run, accounts!Attrs, accounts!Steps
  <2> HIDE DEF x
  <2>5. RunOK(x) /\ RunOfFirst(x)
    BY <2>4 DEF RunOK, RunOfFirst, Writing
  <2> QED
    BY <1>0, <2>1, <2>2, <2>3, <2>4, <2>5, RunStep, EndStep, SameDevices, AccountKept
<1>3. CASE accounts!Enter(f)
  <2>1. UNCHANGED <<wallet, object, page, existed, contents, secrets>> /\ flow[f].at = "enter"
    BY <1>3 DEF accounts!Enter, accounts!At
  <2>2. CASE account' = account \cup flow[f].attrs /\ accounts!SetAuthToken(flow[f].on)
    <3>1. PICK step \in {"state", "card"} : accounts!Go(f, step)
      BY <1>3, <2>2 DEF accounts!Enter, accounts!Go, accounts!End
    <3>2. step \in accounts!Steps /\ step \notin Writing /\ flow[f].attrs # {}
      BY <1>0, <2>1 DEF accounts!Steps, Writing, RunOK
    <3>3. account' \in SUBSET accounts!Attrs
      BY SMTT(30), <1>0, <2>2
    <3>4. /\ (disk \in [Devices -> [token : BOOLEAN, secret : 0 .. secrets]])'
          /\ (mem \in [Devices -> [token : BOOLEAN, secret : 0 .. secrets,
                                   hash : [accounts!Handles -> 0 .. contents]]])'
          /\ \A e \in Devices : disk'[e].token => mem'[e].token
          /\ existed => \A e \in Devices : disk'[e].secret \in {0, 1} /\ mem'[e].secret \in {0, 1}
      BY <2>1, <2>2, TokenStep DEF accounts!SetAuthToken
    <3> QED
      BY <1>0, <2>1, <3>1, <3>2, <3>3, <3>4, GoStep, AccountKept
  <2>3. CASE accounts!End(f) /\ UNCHANGED <<account, disk, mem>>
    BY <1>0, <2>1, <2>3, EndStep, SameDevices, AccountKept
  <2> QED
    BY <1>3, <2>2, <2>3 DEF accounts!Enter
<1>4. CASE accounts!IssueCard(f)
  <2> DEFINE x == [flow[f] EXCEPT !.at = "state", !.attrs = flow[f].attrs \cup {"card"}]
             y == [flow[f] EXCEPT !.at = "state", !.warned = TRUE]
  <2>1. UNCHANGED <<object, disk, mem, page, existed, contents, secrets>> /\ flow[f].at = "card"
    BY <1>4 DEF accounts!IssueCard, accounts!deviceVars, accounts!At
  <2>2. account' \in SUBSET accounts!Attrs /\ wallet' \in SUBSET accounts!Attrs
    BY <1>0, <1>4 DEF accounts!IssueCard, accounts!Attrs
  <2>3. flow' = [flow EXCEPT ![f] = x] \/ flow' = [flow EXCEPT ![f] = y]
    BY <1>4 DEF accounts!IssueCard
  <2>4. /\ x \in Run /\ x.at = "state" /\ x.attrs # {}
        /\ y \in Run /\ y.at = "state" /\ y.attrs = flow[f].attrs
    BY <1>0 DEF Run, accounts!Attrs, accounts!Steps
  <2> HIDE DEF x, y
  <2>5. RunOK(x) /\ RunOfFirst(x) /\ RunOK(y) /\ RunOfFirst(y)
    BY <1>0, <2>1, <2>4 DEF RunOK, RunOfFirst, Writing
  <2> QED
    BY <1>0, <2>1, <2>2, <2>3, <2>4, <2>5, RunStep, SameDevices, AccountKept
<1>5. CASE accounts!ReissueCard(f)
  <2>1. UNCHANGED <<object, disk, mem, page, existed, contents, secrets>>
    BY <1>5 DEF accounts!ReissueCard, accounts!deviceVars
  <2>2. account' \in SUBSET accounts!Attrs /\ wallet' \in SUBSET accounts!Attrs
    BY <1>0, <1>5 DEF accounts!ReissueCard, accounts!Attrs
  <2>3. accounts!Go(f, "route") /\ "route" \in accounts!Steps /\ "route" \notin Writing
    BY <1>5 DEF accounts!ReissueCard, accounts!Steps, Writing
  <2> QED
    BY <1>0, <2>1, <2>2, <2>3, GoStep, SameDevices, AccountKept
<1>6. CASE accounts!Route(f)
  <2>1. UNCHANGED <<account, wallet, object, disk, mem, existed, contents, secrets>> /\ accounts!End(f)
    BY <1>6 DEF accounts!Route, accounts!serverVars
  <2>2. page' \in [Devices -> {"login", "onboarding", "home", "error"}]
    BY <1>0, <1>6 DEF accounts!Route
  <2> QED
    BY <1>0, <2>1, <2>2, EndStep, SameDevices, AccountKept
<1>7. CASE accounts!Throw(f)
  <2>1. UNCHANGED <<account, wallet, object, existed, contents, secrets>> /\ accounts!End(f)
    BY <1>7 DEF accounts!Throw, accounts!serverVars
  <2>2. page' \in [Devices -> {"login", "onboarding", "home", "error"}]
    BY <1>7, AccountPages DEF accounts!Throw
  <2>3. UNCHANGED <<disk, mem>> \/ accounts!Logout(flow[f].on)
    BY <1>7 DEF accounts!Throw
  <2> QED
    BY <1>0, <2>1, <2>2, <2>3, EndStep, SameDevices, LogoutStep, AccountKept
<1> QED
  BY <1>1, <1>2, <1>3, <1>4, <1>5, <1>6, <1>7

\* The two Cardinality are one.
LEMMA SameCardinality == \A S : accounts!Cardinality(S) = Cardinality(S)
  BY DEF Cardinality, accounts!Cardinality

\* Reading the user secret: what a run knows is what Central has.
LEMMA AccountReadStep ==
  ASSUME AccountInv, NEW f \in Flows,
         accounts!GetUserSecretObject(f) \/ accounts!GetBackup(f)
  PROVE  AccountInv'
<1>0. /\ flow[f] \in Run /\ RunOK(flow[f]) /\ (existed => RunOfFirst(flow[f]))
      /\ account \in SUBSET accounts!Attrs /\ wallet \in SUBSET accounts!Attrs
      /\ page \in [Devices -> {"login", "onboarding", "home", "error"}]
  BY RunKnown
<1>1. \A h \in accounts!Handles :
        object[h] \in Stored /\ object[h].id \in 0 .. contents /\ (existed => HoldsFirst(object[h]))
  BY DEF AccountInv, AccountTypes, SecretInv, Stored
<1>2. accounts!Hashes \in [accounts!Handles -> 0 .. contents]
  BY HashesType DEF AccountInv
<1>5. flow \in [Flows -> Run]
  BY SMTT(30) DEF AccountInv, AccountTypes
<1>3. CASE accounts!GetUserSecretObject(f)
  <2> DEFINE o == object["usersecret"]
             next == IF o.id = 0 THEN "keys" ELSE "backup"
             x == [flow[f] EXCEPT !.base = o, !.hash = [flow[f].hash EXCEPT !["usersecret"] = o.id],
                                  !.at = next]
  <2>1. /\ UNCHANGED <<account, wallet, object, disk, page, existed, contents, secrets>>
        /\ mem' = [mem EXCEPT ![flow[f].on].hash = accounts!Hashes]
        /\ flow' = [flow EXCEPT ![f] = x]
        /\ flow[f].at = "state"
    BY <1>3 DEF accounts!GetUserSecretObject, accounts!serverVars, accounts!At
  <2>2. "usersecret" \in accounts!Handles /\ next \in accounts!Steps
    BY DEF accounts!Handles, accounts!Steps
  <2>3. /\ x \in Run /\ x.at = next /\ x.base = o /\ x.attrs = flow[f].attrs
        /\ o.id = 0 \/ x.at = "backup"
    BY <1>0, <1>1, <2>2 DEF Run
  <2>4. next \notin Writing /\ flow[f].attrs # {}
    BY <1>0, <2>1 DEF Writing, RunOK
  <2> HIDE DEF x
  <2>5. RunOK(x) /\ (existed => RunOfFirst(x))
    BY <1>1, <2>2, <2>3, <2>4 DEF RunOK, RunOfFirst
  <2> QED
    BY <1>0, <1>2, <2>1, <2>3, <2>5, RunStep, HashStep, AccountKept
<1>4. CASE accounts!GetBackup(f)
  <2> DEFINE d == flow[f].on
             x == [flow[f] EXCEPT !.at = "keys",
                     !.hash = [flow[f].hash EXCEPT !["usersecretbackup"] = flow[f].base.id]]
  <2>1. UNCHANGED <<account, wallet, object, existed, contents, secrets>> /\ flow[f].at = "backup"
    BY <1>4 DEF accounts!GetBackup, accounts!serverVars, accounts!At
  <2>2. page' \in [Devices -> {"login", "onboarding", "home", "error"}]
    BY <1>4, AccountPages DEF accounts!GetBackup
  <2>3. \/ flow' = [flow EXCEPT ![f] = x]
        \/ accounts!End(f)
    BY <1>0, <1>4, <1>5 DEF accounts!GetBackup, Run
  <2>4. \/ accounts!Logout(d)
        \/ mem' = [mem EXCEPT ![d].hash = accounts!Hashes] /\ UNCHANGED disk
    BY <1>4 DEF accounts!GetBackup
  <2>5. x \in Run /\ x.at = "keys" /\ x.base = flow[f].base /\ x.attrs = flow[f].attrs
    <3>1. flow[f].base.id \in 0 .. contents /\ "keys" \in accounts!Steps
      BY <1>0 DEF Run, Stored, accounts!Steps
    <3> QED
      BY <1>0, <3>1 DEF Run
  <2> HIDE DEF x
  <2>6. RunOK(x) /\ (existed => RunOfFirst(x))
    BY <1>0, <2>1, <2>5 DEF RunOK, RunOfFirst, Writing
  <2>7. /\ (flow \in [Flows -> Run])'
        /\ \A g \in Flows : RunOK(flow'[g]) /\ (existed' => RunOfFirst(flow'[g]))
    BY <2>1, <2>3, <2>5, <2>6, RunStep, EndStep
  <2> QED
    BY <1>0, <1>2, <2>1, <2>2, <2>4, <2>7, LogoutStep, HashStep, AccountKept
<1> QED
  BY <1>3, <1>4

\* The secret that is opened with the attributes of an account that has one.
LEMMA OpensFirst ==
  ASSUME AccountInv, existed, NEW f \in Flows, flow[f].at = "keys",
         accounts!Opened(f) # {}
  PROVE  /\ ~accounts!MakesSecret(f)
         /\ \A s \in accounts!Opened(f) : s = 1
         /\ \E a \in flow[f].attrs : flow[f].base.data[a] = 1
<1>1. HoldsFirst(flow[f].base) /\ flow[f].attrs \in SUBSET accounts!Attrs
  BY RunKnown DEF RunOfFirst
<1> QED
  BY <1>1 DEF HoldsFirst, accounts!Opened, accounts!MakesSecret

\* Sealing the secret anew: for an account that has one it is that one.
LEMMA AccountComputeStep ==
  ASSUME AccountInv, NEW f \in Flows, accounts!ComputeNewUserSecretObject(f)
  PROVE  AccountInv'
<1>0. /\ flow[f] \in Run /\ RunOK(flow[f]) /\ (existed => RunOfFirst(flow[f]))
      /\ flow[f].attrs \in SUBSET accounts!Attrs
      /\ account \in SUBSET accounts!Attrs /\ wallet \in SUBSET accounts!Attrs
      /\ page \in [Devices -> {"login", "onboarding", "home", "error"}]
  BY RunKnown
<1>1. flow[f].at = "keys" /\ contents \in Nat /\ secrets \in Nat
  BY DEF accounts!ComputeNewUserSecretObject, accounts!At, AccountInv, AccountTypes
<1>2. UNCHANGED <<account, wallet, object, existed>>
  BY DEF accounts!ComputeNewUserSecretObject, accounts!serverVars
<1> DEFINE fits == accounts!MakesSecret(f) \/ accounts!Cardinality(accounts!Opened(f)) = 1
           secret == IF accounts!MakesSecret(f) THEN secrets + 1 ELSE CHOOSE s \in accounts!Opened(f) : TRUE
           n == [id |-> contents + 1,
                 data |-> [a \in accounts!Attrs |->
                             IF a \in flow[f].attrs THEN secret ELSE flow[f].base.data[a]]]
           x == [flow[f] EXCEPT !.at = "store", !.new = n]
<1>5. flow \in [Flows -> Run]
  BY DEF AccountInv, AccountTypes
<1>3. CASE ~fits
  <2>1. /\ accounts!Logout(flow[f].on) /\ accounts!End(f) /\ UNCHANGED <<contents, secrets>>
        /\ page' = [page EXCEPT ![flow[f].on] = "error"]
    BY <1>3 DEF accounts!ComputeNewUserSecretObject
  <2>2. page' \in [Devices -> {"login", "onboarding", "home", "error"}]
    BY <2>1, AccountPages
  <2> QED
    BY <1>0, <1>2, <2>1, <2>2, EndStep, LogoutStep, AccountKept
<1>4. CASE fits
  <2>1. /\ contents' = contents + 1
        /\ secrets' = IF accounts!MakesSecret(f) THEN secrets + 1 ELSE secrets
        /\ UNCHANGED <<disk, mem, page>>
        /\ flow' = [flow EXCEPT ![f] = x]
    BY <1>0, <1>4, <1>5 DEF accounts!ComputeNewUserSecretObject, Run
  <2>2. /\ contents' \in Nat /\ secrets' \in Nat
        /\ 0 .. contents \subseteq 0 .. contents' /\ 0 .. secrets \subseteq 0 .. secrets'
    BY <1>1, <2>1
  <2>3. ~accounts!MakesSecret(f) => accounts!Opened(f) # {}
    BY <1>4, FS_EmptySet, SameCardinality
  <2>4. secret \in 0 .. secrets'
    <3>1. CASE accounts!MakesSecret(f)
      BY <1>1, <2>1, <3>1
    <3>2. CASE ~accounts!MakesSecret(f)
      <4>1. secret \in accounts!Opened(f)
        BY <2>3, <3>2
      <4>2. accounts!Opened(f) \subseteq 0 .. secrets
        BY <1>0 DEF accounts!Opened, Run, Stored
      <4> QED
        BY <2>2, <4>1, <4>2
    <3> QED
      BY <3>1, <3>2
  <2>5. Stored \subseteq Stored' /\ Run \subseteq Run'
    <3>1. Stored \subseteq Stored'
      BY <2>2 DEF Stored
    <3> QED
      BY <2>2, <3>1 DEF Run
  <2>6. n \in Stored'
    <3> HIDE DEF secret
    <3>1. flow[f].base.data \in [accounts!Attrs -> 0 .. secrets]
      BY <1>0 DEF Run, Stored
    <3>2. n.data \in [accounts!Attrs -> 0 .. secrets']
      BY <2>2, <2>4, <3>1
    <3> QED
      BY <1>1, <2>1, <3>2 DEF Stored
  <2>7. x \in Run' /\ x.at = "store" /\ x.new = n /\ x.base = flow[f].base
    <3> HIDE DEF n
    <3>1. flow[f] \in Run' /\ "store" \in accounts!Steps
      BY <1>0, <2>5 DEF accounts!Steps
    <3> QED
      BY <2>6, <3>1 DEF Run
  <2>8. RunOK(x)
    <3>1. flow[f].base.id \in 0 .. contents /\ n.id = contents + 1
      BY <1>0 DEF Run, Stored
    <3>2. n.id > flow[f].base.id
      BY <1>1, <3>1
    <3>3. secret # 0
      BY <1>1, <2>3 DEF accounts!Opened
    <3>4. PICK a \in flow[f].attrs : TRUE
      BY <1>0, <1>1 DEF RunOK
    <3> HIDE DEF secret
    <3>5. a \in accounts!Attrs /\ n.data[a] # 0
      BY <1>0, <3>3, <3>4
    <3> HIDE DEF x, n
    <3> QED
      BY <2>7, <3>2, <3>5 DEF RunOK, Writing
  <2>9. existed => RunOfFirst(x)
    <3> SUFFICES ASSUME existed PROVE RunOfFirst(x)
      OBVIOUS
    <3>1. HoldsFirst(flow[f].base)
      BY <1>0, <1>1 DEF RunOfFirst
    <3>2. /\ ~accounts!MakesSecret(f)
          /\ \A s \in accounts!Opened(f) : s = 1
          /\ \E a \in flow[f].attrs : flow[f].base.data[a] = 1
      BY <1>1, <2>3, <3>1, OpensFirst DEF HoldsFirst, accounts!MakesSecret
    <3>3. secret = 1
      BY <2>3, <3>2
    <3> HIDE DEF secret
    <3>4. HoldsFirst(n)
      BY <1>0, <1>1, <3>1, <3>2, <3>3 DEF HoldsFirst
    <3> HIDE DEF n, x
    <3> QED
      BY <2>7, <3>1, <3>4 DEF RunOfFirst
  <2> HIDE DEF x
  <2>10. /\ flow' \in [Flows -> Run']
         /\ \A g \in Flows : RunOK(flow'[g]) /\ (existed' => RunOfFirst(flow'[g]))
    BY <1>2, <2>1, <2>5, <2>7, <2>8, <2>9 DEF AccountInv, AccountTypes, SecretInv
  <2>11. /\ object' \in [accounts!Handles -> Stored']
         /\ \A e \in Devices : disk'[e].token => mem'[e].token
         /\ page' \in [Devices -> {"login", "onboarding", "home", "error"}]
         /\ existed' \in BOOLEAN
         /\ account' \in SUBSET accounts!Attrs /\ wallet' \in SUBSET accounts!Attrs
    BY <1>2, <2>1, <2>5 DEF AccountInv, AccountTypes
  <2>12. disk' \in [Devices -> [token : BOOLEAN, secret : 0 .. secrets']]
    <3>1. \A e \in Devices : disk[e] \in [token : BOOLEAN, secret : 0 .. secrets']
      BY <2>2 DEF AccountInv, AccountTypes
    <3> QED
      BY <2>1, <3>1 DEF AccountInv, AccountTypes
  <2>13. mem' \in [Devices -> [token : BOOLEAN, secret : 0 .. secrets',
                               hash : [accounts!Handles -> 0 .. contents']]]
    <3>1. \A e \in Devices : mem[e] \in [token : BOOLEAN, secret : 0 .. secrets',
                                         hash : [accounts!Handles -> 0 .. contents']]
      BY ZenonT(60), <2>2 DEF AccountInv, AccountTypes
    <3> QED
      BY <2>1, <3>1 DEF AccountInv, AccountTypes
  <2>14. AccountTypes'
    BY <2>2, <2>10, <2>11, <2>12, <2>13 DEF AccountTypes, RunOK
  <2>15. SecretInv'
    BY <1>2, <2>1, <2>10 DEF AccountInv, SecretInv, RunOfFirst, HoldsFirst
  <2> QED
    BY <2>14, <2>15 DEF AccountInv
<1> QED
  BY <1>3, <1>4

\* One of the two objects is written, or a wrong hash is put right.
LEMMA AccountStoreStep ==
  ASSUME AccountInv, NEW f \in Flows, NEW h \in accounts!Handles, NEW next \in Writing,
         flow[f].at \in Writing, accounts!StoreObject(f, h, next)
  PROVE  AccountInv'
<1>0. /\ flow[f] \in Run /\ RunOK(flow[f]) /\ (existed => RunOfFirst(flow[f]))
      /\ flow \in [Flows -> Run] /\ contents \in Nat
      /\ account \in SUBSET accounts!Attrs /\ wallet \in SUBSET accounts!Attrs
      /\ page \in [Devices -> {"login", "onboarding", "home", "error"}]
      /\ object \in [accounts!Handles -> Stored]
  BY RunKnown DEF AccountInv, AccountTypes
<1>1. accounts!Hashes \in [accounts!Handles -> 0 .. contents]
  BY HashesType DEF AccountInv
<1>2. UNCHANGED <<account, wallet, disk, page, existed, contents, secrets>>
  BY DEF accounts!StoreObject
<1>3. CASE flow[f].hash[h] = object[h].id
  <2> DEFINE n == flow[f].new  k == [accounts!Hashes EXCEPT ![h] = n.id]
  <2>1. /\ object' = [object EXCEPT ![h] = n]
        /\ mem' = [mem EXCEPT ![flow[f].on].hash = k]
        /\ accounts!Go(f, next)
    BY <1>3 DEF accounts!StoreObject
  <2>2. n \in Stored /\ n.id \in 0 .. contents /\ (existed => HoldsFirst(n))
    BY <1>0 DEF Run, Stored, RunOfFirst
  <2>3. k \in [accounts!Handles -> 0 .. contents]
    BY <1>1, <2>2
  <2> HIDE DEF n, k
  <2>4. /\ (flow \in [Flows -> Run])'
        /\ \A g \in Flows : RunOK(flow'[g]) /\ (existed' => RunOfFirst(flow'[g]))
    BY <1>0, <1>2, <2>1, GoStep DEF Writing, accounts!Steps
  <2>5. Stored' = Stored
    BY <1>2 DEF Stored
  <2>6. (object \in [accounts!Handles -> Stored])'
    BY <1>0, <2>1, <2>2, <2>5
  <2>7. existed => \A i \in accounts!Handles : HoldsFirst(object'[i])
    BY SMTT(30), <1>0, <2>1, <2>2 DEF AccountInv, SecretInv
  <2>8. /\ (disk \in [Devices -> [token : BOOLEAN, secret : 0 .. secrets]])'
        /\ (mem \in [Devices -> [token : BOOLEAN, secret : 0 .. secrets,
                                 hash : [accounts!Handles -> 0 .. contents]]])'
        /\ \A e \in Devices : disk'[e].token => mem'[e].token
        /\ existed => \A e \in Devices : disk'[e].secret \in {0, 1} /\ mem'[e].secret \in {0, 1}
    BY <1>2, <2>1, <2>3, HashStep
  <2>9. AccountTypes'
    BY <1>0, <1>2, <2>4, <2>6, <2>8 DEF AccountInv, AccountTypes, RunOK
  <2>10. SecretInv'
    BY SMTT(30), <1>2, <2>4, <2>7, <2>8 DEF SecretInv, RunOfFirst, HoldsFirst
  <2> QED
    BY <2>9, <2>10 DEF AccountInv
<1>4. CASE flow[f].hash[h] # object[h].id
  <2> DEFINE x == [flow[f] EXCEPT !.hash = [flow[f].hash EXCEPT ![h] = object[h].id]]
  <2>1. /\ flow' = [flow EXCEPT ![f] = x]
        /\ mem' = [mem EXCEPT ![flow[f].on].hash = accounts!Hashes]
        /\ UNCHANGED object
    BY <1>4 DEF accounts!StoreObject
  <2>2. x \in Run /\ x.at = flow[f].at /\ x.attrs = flow[f].attrs /\ x.new = flow[f].new /\ x.base = flow[f].base
    <3>1. object[h].id \in 0 .. contents
      BY <1>0 DEF Stored
    <3> QED
      BY <1>0, <3>1 DEF Run
  <2> HIDE DEF x
  <2>3. RunOK(x) /\ (existed => RunOfFirst(x))
    BY <1>0, <2>2 DEF RunOK, RunOfFirst
  <2> QED
    BY <1>0, <1>1, <1>2, <2>1, <2>2, <2>3, RunStep, HashStep, AccountKept
<1> QED
  BY <1>3, <1>4

\* A device is given a secret.
LEMMA SecretStep ==
  ASSUME AccountInv, NEW d, NEW s \in 0 .. secrets, existed => s = 1,
         disk' = [disk EXCEPT ![d].secret = s], mem' = [mem EXCEPT ![d].secret = s],
         UNCHANGED <<existed, contents, secrets>>
  PROVE  /\ (disk \in [Devices -> [token : BOOLEAN, secret : 0 .. secrets]])'
         /\ (mem \in [Devices -> [token : BOOLEAN, secret : 0 .. secrets,
                                  hash : [accounts!Handles -> 0 .. contents]]])'
         /\ \A e \in Devices : disk'[e].token => mem'[e].token
         /\ existed => \A e \in Devices : disk'[e].secret \in {0, 1} /\ mem'[e].secret \in {0, 1}
<1>1. CASE d \in Devices
  <2> DEFINE m == [mem[d] EXCEPT !.secret = s]
             k == [disk[d] EXCEPT !.secret = s]
  <2>1. disk' = [disk EXCEPT ![d] = k] /\ mem' = [mem EXCEPT ![d] = m]
    BY <1>1 DEF AccountInv, AccountTypes
  <2>2. /\ m \in [token : BOOLEAN, secret : 0 .. secrets, hash : [accounts!Handles -> 0 .. contents]]
        /\ m.secret = s /\ m.token = mem[d].token
    <3>1. mem[d] \in [token : BOOLEAN, secret : 0 .. secrets, hash : [accounts!Handles -> 0 .. contents]]
      BY <1>1 DEF AccountInv, AccountTypes
    <3> QED
      BY <3>1
  <2>3. k \in [token : BOOLEAN, secret : 0 .. secrets] /\ k.secret = s /\ k.token = disk[d].token
    <3>1. disk[d] \in [token : BOOLEAN, secret : 0 .. secrets]
      BY <1>1 DEF AccountInv, AccountTypes
    <3> QED
      BY <3>1
  <2> HIDE DEF m, k
  <2>4. \A e \in Devices : mem'[e] = (IF e = d THEN m ELSE mem[e]) /\ disk'[e] = (IF e = d THEN k ELSE disk[e])
    BY <1>1, <2>1 DEF AccountInv, AccountTypes
  <2>5. /\ (disk \in [Devices -> [token : BOOLEAN, secret : 0 .. secrets]])'
        /\ (mem \in [Devices -> [token : BOOLEAN, secret : 0 .. secrets,
                                  hash : [accounts!Handles -> 0 .. contents]]])'
    <3>1. disk \in [Devices -> [token : BOOLEAN, secret : 0 .. secrets]]
      BY DEF AccountInv, AccountTypes
    <3>2. disk' \in [Devices -> [token : BOOLEAN, secret : 0 .. secrets]]
      BY <2>1, <2>3, <3>1
    <3>3. mem \in [Devices -> [token : BOOLEAN, secret : 0 .. secrets,
                              hash : [accounts!Handles -> 0 .. contents]]]
      BY DEF AccountInv, AccountTypes
    <3>4. mem' \in [Devices -> [token : BOOLEAN, secret : 0 .. secrets,
                               hash : [accounts!Handles -> 0 .. contents]]]
      BY <2>1, <2>2, <3>3
    <3> QED
      BY <3>2, <3>4
  <2>6. \A e \in Devices : disk'[e].token => mem'[e].token
    BY <1>1, <2>2, <2>3, <2>4 DEF AccountInv, AccountTypes
  <2>7. existed => \A e \in Devices : disk'[e].secret \in {0, 1} /\ mem'[e].secret \in {0, 1}
    BY <1>1, <2>2, <2>3, <2>4 DEF AccountInv, SecretInv
  <2> QED
    BY <2>5, <2>6, <2>7
<1>2. CASE d \notin Devices
  BY <1>2 DEF AccountInv, AccountTypes, SecretInv
<1> QED
  BY <1>1, <1>2

\* The secret that a run puts on its device.
LEMMA SecretOfRun ==
  ASSUME AccountInv, NEW f \in Flows, flow[f].at \in Writing, NEW s,
         s = CHOOSE t \in accounts!SecretsIn(flow[f].new) : TRUE
  PROVE  s \in 0 .. secrets /\ (existed => s = 1)
<1>1. /\ flow[f].new.data \in [accounts!Attrs -> 0 .. secrets]
      /\ \E a \in accounts!Attrs : flow[f].new.data[a] # 0
      /\ existed => HoldsFirst(flow[f].new)
  BY RunKnown DEF Run, Stored, RunOK, RunOfFirst
<1>2. accounts!SecretsIn(flow[f].new) # {}
  BY <1>1 DEF accounts!SecretsIn
<1>3. s \in accounts!SecretsIn(flow[f].new)
  BY <1>2
<1> QED
  BY <1>1, <1>3 DEF accounts!SecretsIn, HoldsFirst

\* A secret reaches a device when both objects hold it.
LEMMA AccountVerifyStep ==
  ASSUME AccountInv, NEW f \in Flows, accounts!Verify(f)
  PROVE  AccountInv'
<1>0. /\ flow[f] \in Run /\ RunOK(flow[f]) /\ (existed => RunOfFirst(flow[f]))
      /\ account \in SUBSET accounts!Attrs /\ wallet \in SUBSET accounts!Attrs
      /\ page \in [Devices -> {"login", "onboarding", "home", "error"}]
      /\ secrets \in Nat
  BY RunKnown DEF AccountInv, AccountTypes
<1>1. UNCHANGED <<account, wallet, object, existed, contents, secrets>> /\ flow[f].at \in Writing
  BY DEF accounts!Verify, accounts!serverVars, Writing
<1> DEFINE d == flow[f].on  n == flow[f].new
           secret == CHOOSE s \in accounts!SecretsIn(n) : TRUE
<1>2. \/ accounts!Go(f, "storebackup") /\ UNCHANGED <<disk, mem, page>>
      \/ /\ mem' = [mem EXCEPT ![d].secret = secret] /\ disk' = [disk EXCEPT ![d].secret = secret]
         /\ accounts!Go(f, "route") \/ accounts!Go(f, "reissue")
         /\ UNCHANGED page
      \/ accounts!Logout(d) /\ accounts!End(f) /\ page' = [page EXCEPT ![d] = "error"]
  BY DEF accounts!Verify
<1>3. CASE accounts!Go(f, "storebackup") /\ UNCHANGED <<disk, mem, page>>
  <2>1. /\ (flow \in [Flows -> Run])'
        /\ \A g \in Flows : RunOK(flow'[g]) /\ (existed' => RunOfFirst(flow'[g]))
    BY SMTT(30), <1>1, <1>3, GoStep DEF accounts!Steps
  <2> QED
    BY <1>0, <1>1, <1>3, <2>1, SameDevices, AccountKept
<1>4. CASE /\ mem' = [mem EXCEPT ![d].secret = secret] /\ disk' = [disk EXCEPT ![d].secret = secret]
           /\ accounts!Go(f, "route") \/ accounts!Go(f, "reissue")
           /\ UNCHANGED page
  <2>1. /\ (flow \in [Flows -> Run])'
        /\ \A g \in Flows : RunOK(flow'[g]) /\ (existed' => RunOfFirst(flow'[g]))
    BY <1>1, <1>4, GoStep DEF accounts!Steps, Writing
  <2>2. PICK s : s = secret
    OBVIOUS
  <2>3. s \in 0 .. secrets /\ (existed => s = 1)
    BY <1>1, <2>2, SecretOfRun
  <2>4. mem' = [mem EXCEPT ![d].secret = s] /\ disk' = [disk EXCEPT ![d].secret = s]
    BY <1>4, <2>2
  <2> HIDE DEF secret
  <2> QED
    BY <1>0, <1>1, <1>4, <2>1, <2>3, <2>4, SecretStep, AccountKept
<1>5. CASE accounts!Logout(d) /\ accounts!End(f) /\ page' = [page EXCEPT ![d] = "error"]
  <2>1. page' \in [Devices -> {"login", "onboarding", "home", "error"}]
    BY <1>5, AccountPages
  <2> QED
    BY <1>0, <1>1, <1>5, <2>1, EndStep, LogoutStep, AccountKept
<1> QED
  BY <1>2, <1>3, <1>4, <1>5

\* Every step of the clients keeps what is known of the accounts.
LEMMA AccountStep == AccountInv /\ (accounts!Next \/ UNCHANGED accountsVars) => AccountInv'
<1> SUFFICES ASSUME AccountInv, (accounts!Next \/ UNCHANGED accountsVars) PROVE AccountInv'
  OBVIOUS
<1>1. ASSUME NEW d \in Devices,
             \/ \E to \in {"login", "onboarding", "home"} : accounts!Visit(d, to)
             \/ accounts!LogOut(d) \/ accounts!Reload(d)
             \/ \E f \in Flows : accounts!EnterPubHubs(f, d)
      PROVE  AccountInv'
  BY <1>1, AccountDeviceStep
<1>2. ASSUME NEW f \in Flows,
             \/ accounts!AuthStart(f) \/ accounts!Disclose(f) \/ accounts!Enter(f)
             \/ accounts!IssueCard(f) \/ accounts!ReissueCard(f)
             \/ accounts!Route(f) \/ accounts!Throw(f)
      PROVE  AccountInv'
  BY <1>2, AccountEnterStep
<1>3. ASSUME NEW f \in Flows, accounts!GetUserSecretObject(f) \/ accounts!GetBackup(f)
      PROVE  AccountInv'
  BY <1>3, AccountReadStep
<1>4. ASSUME NEW f \in Flows, accounts!ComputeNewUserSecretObject(f) PROVE AccountInv'
  BY <1>4, AccountComputeStep
<1>5. ASSUME NEW f \in Flows, accounts!StoreUserSecret(f) PROVE AccountInv'
  BY <1>5, AccountStoreStep DEF accounts!StoreUserSecret, accounts!At, accounts!Handles, Writing
<1>6. ASSUME NEW f \in Flows, accounts!StoreBackup(f) PROVE AccountInv'
  BY <1>6, AccountStoreStep DEF accounts!StoreBackup, accounts!At, accounts!Handles, Writing
<1>7. ASSUME NEW f \in Flows, accounts!Verify(f) PROVE AccountInv'
  BY <1>7, AccountVerifyStep
<1>8. CASE UNCHANGED accountsVars
  <2>1. UNCHANGED <<account, wallet, object, disk, mem, page, flow, existed, contents, secrets>>
    BY <1>8 DEF accountsVars
  <2>2. /\ account \in SUBSET accounts!Attrs /\ wallet \in SUBSET accounts!Attrs
        /\ page \in [Devices -> {"login", "onboarding", "home", "error"}]
    BY DEF AccountInv, AccountTypes
  <2> QED
    BY <2>1, <2>2, SameRuns, SameDevices, AccountKept
<1> QED
  BY <1>1, <1>2, <1>3, <1>4, <1>5, <1>6, <1>7, <1>8 DEF accounts!Next

LEMMA AccountInit == accounts!Init => AccountInv
<1> SUFFICES ASSUME accounts!Init PROVE AccountInv
  OBVIOUS
<1>1. /\ existed \in BOOLEAN /\ contents \in Nat /\ secrets = contents
      /\ contents = (IF existed THEN 1 ELSE 0)
  BY DEF accounts!Init
<1>2. account \in SUBSET accounts!Attrs /\ wallet \in SUBSET accounts!Attrs
  BY DEF accounts!Init, accounts!Attrs
<1>3. /\ object \in [accounts!Handles -> Stored]
      /\ existed => \A h \in accounts!Handles : HoldsFirst(object[h])
  <2>1. PICK known \in {{"email"}, accounts!Attrs} :
          object = [h \in accounts!Handles |-> IF existed
            THEN [id |-> 1, data |-> [a \in accounts!Attrs |-> IF a \in known THEN 1 ELSE 0]]
            ELSE accounts!Empty]
    BY DEF accounts!Init
  <2> DEFINE o == [id |-> 1, data |-> [a \in accounts!Attrs |-> IF a \in known THEN 1 ELSE 0]]
  <2>2. accounts!Empty \in Stored
    BY <1>1 DEF accounts!Empty, Stored
  <2>3. existed => o \in Stored
    BY <1>1 DEF Stored
  <2>4. HoldsFirst(o)
    BY DEF HoldsFirst, accounts!Attrs
  <2> HIDE DEF o
  <2>5. object = [h \in accounts!Handles |-> IF existed THEN o ELSE accounts!Empty]
    BY <2>1 DEF o
  <2> QED
    BY <2>2, <2>3, <2>4, <2>5
<1>4. /\ disk = [d \in Devices |-> [token |-> FALSE, secret |-> 0]]
      /\ mem = [d \in Devices |-> [token |-> FALSE, secret |-> 0, hash |-> [h \in accounts!Handles |-> 0]]]
      /\ page = [d \in Devices |-> "login"]
      /\ flow = [f \in Flows |-> accounts!NoFlow]
  BY DEF accounts!Init
<1>5. disk \in [Devices -> [token : BOOLEAN, secret : 0 .. secrets]]
  BY <1>1, <1>4
<1>6. mem \in [Devices -> [token : BOOLEAN, secret : 0 .. secrets, hash : [accounts!Handles -> 0 .. contents]]]
  BY <1>1, <1>4
<1>7. /\ \A d \in Devices : ~disk[d].token /\ disk[d].secret = 0 /\ mem[d].secret = 0
      /\ page \in [Devices -> {"login", "onboarding", "home", "error"}]
  BY <1>4
<1>8. accounts!NoFlow \in Run /\ RunOK(accounts!NoFlow) /\ RunOfFirst(accounts!NoFlow)
  BY <1>1 DEF RunOK, RunOfFirst, Run, Places, Stored, Writing, accounts!NoFlow, accounts!Empty,
     accounts!Attrs, accounts!Handles, accounts!Steps
<1>9. flow \in [Flows -> Run] /\ \A f \in Flows : RunOK(flow[f]) /\ RunOfFirst(flow[f])
  BY <1>4, <1>8
<1>10. AccountTypes
  BY <1>1, <1>2, <1>3, <1>5, <1>6, <1>7, <1>9 DEF AccountTypes
<1>11. SecretInv
  BY <1>3, <1>7, <1>9 DEF SecretInv
<1> QED
  BY <1>10, <1>11 DEF AccountInv

\* The invariant says that the secret stays.
LEMMA AccountSecret == AccountInv => accounts!SecretStays /\ accounts!TypeOK
<1> SUFFICES ASSUME AccountInv PROVE accounts!SecretStays /\ accounts!TypeOK
  OBVIOUS
<1>1. ASSUME NEW o, HoldsFirst(o) PROVE accounts!SecretsIn(o) = {1}
  BY <1>1 DEF HoldsFirst, accounts!SecretsIn
<1>2. accounts!SecretStays
  BY <1>1 DEF AccountInv, SecretInv, accounts!SecretStays
<1>3. /\ account \subseteq accounts!Attrs /\ wallet \subseteq accounts!Attrs
      /\ \A h \in accounts!Handles :
           object[h].id \in 0 .. contents /\ object[h].data \in [accounts!Attrs -> 0 .. secrets]
      /\ disk \in [Devices -> [token : BOOLEAN, secret : 0 .. secrets]]
      /\ page \in [Devices -> {"login", "onboarding", "home", "error"}]
  BY DEF AccountInv, AccountTypes, Stored
<1>4. \A d \in Devices :
        /\ mem[d].token \in BOOLEAN /\ mem[d].secret \in 0 .. secrets
        /\ mem[d].hash \in [accounts!Handles -> 0 .. contents]
        /\ disk[d].token => mem[d].token
  BY DEF AccountInv, AccountTypes
<1>5. \A f \in Flows :
        /\ flow[f].at \in accounts!Steps \cup {"none"}
        /\ flow[f].at \in {"card", "state", "backup"} => flow[f].attrs # {}
        /\ flow[f].at \in Writing => flow[f].new.id > flow[f].base.id
  BY DEF AccountInv, AccountTypes, Run, RunOK
<1>6. accounts!TypeOK
  BY <1>3, <1>4, <1>5 DEF accounts!TypeOK, Writing
<1> QED
  BY <1>2, <1>6

\* While others log in, fail, or lose their place between the two writes, the
\* secret of an account that has one stays the same: what Central stores is
\* that secret, and a device that is given one is given that one
\* (_computeNewUserSecretObject and _storeObject of mss.ts).
THEOREM SecretsStay == Spec => []SecretStays
<1> DEFINE I == part = "accounts" => AccountInv
<1>1. Init => I
  BY AccountInit, Parts
<1>2. I /\ [Next]_vars => I'
  BY AccountStep, Parts
<1>3. I => SecretStays
  BY AccountSecret DEF SecretStays
<1> QED
  BY <1>1, <1>2, <1>3, PTL DEF Spec

-----------------------------------------------------------------------------
(* HouseRules: who was let in has a version on record.                     *)

Texts == Rules \cup {"unset"}
TextAndVersion == [text : Texts, version : Nat \ {0}]
DeskState ==
  [open : BOOLEAN, known : BOOLEAN, loading : BOOLEAN, got : TextAndVersion, changed : BOOLEAN,
   text : Texts, original : Texts, version : Nat, media : SUBSET {"icon", "banner"}]
SaveCall == [desk : Desks, n : Nat, at : {"icon", "banner", "stored", "refused"}, ok : BOOLEAN]
FormState == [version : Nat \ {0}, text : Texts, agreed : BOOLEAN, step : 1 .. 2]
Ask == [op : {"needs", "json", "post"}, form : Nat, failed : BOOLEAN, text : Texts, version : Nat,
        consent : BOOLEAN, onboarding : BOOLEAN]
Needs == [consent : BOOLEAN, onboarding : BOOLEAN]

\* The page of the settings.
DesksInv ==
  /\ rules \in TextAndVersion /\ saved \in Nat /\ saves \in SUBSET SaveCall
  /\ desk \in [Desks -> DeskState]
  /\ \A d \in Desks : desk[d].open => d \in Admins \/ ~desk[d].known

\* The user: what is under way is for a page of the onboarding that there is.
AskOK(a, n) ==
  /\ a.form <= n /\ (a.op # "needs" => a.form # 0)
  /\ a.op = "json" => a.version # 0

UserInv ==
  /\ consented \in Nat /\ version \in Nat \ {0} /\ needs \in Needs
  /\ houserulesPage \in {"away", "home", "onboarding"} /\ kind \in {"full", "consent"}
  /\ forms \in Seq(FormState) /\ asks \in SUBSET Ask
  /\ houserulesPage = "onboarding" => forms # <<>>
  /\ \A a \in asks : AskOK(a, Len(forms))

\* Without a version on record the user is in the onboarding, or on the way
\* there: the question that is open will be answered that he has to consent, and
\* no version was stored.
Unrecorded ==
  /\ \A a \in asks : /\ a.op = "needs" => a.failed \/ a.consent
                     /\ a.op = "post" => a.failed
  /\ houserulesPage = "home" => \E a \in asks : a.op = "needs"
  /\ houserulesPage = "onboarding" \/ (\E a \in asks : a.op = "post") => needs.consent \/ needs.onboarding
RecordInv == consented = 0 => Unrecorded

HouseInv == DesksInv /\ UserInv /\ RecordInv

UserSame == UNCHANGED <<consented, version, needs, houserulesPage, kind, forms, asks>>

\* A step at the desks leaves the user alone.
LEMMA DeskOnly ==
  ASSUME HouseInv, DesksInv', UserSame
  PROVE  HouseInv'
  BY DEF HouseInv, UserInv, RecordInv, Unrecorded, AskOK, UserSame

LEMMA DeskStep ==
  ASSUME HouseInv, NEW d \in Desks, NEW x \in DeskState, x.open => d \in Admins \/ ~x.known,
         desk' = [desk EXCEPT ![d] = x]
  PROVE  /\ desk' \in [Desks -> DeskState]
         /\ \A e \in Desks : desk'[e].open => e \in Admins \/ ~desk'[e].known
  BY DEF HouseInv, DesksInv

\* Opening the settings, the administrator's rights, what arrives and is typed.
LEMMA HouseDeskStep ==
  ASSUME HouseInv, NEW d \in Desks,
         \/ houserules!OpenSettings(d) \/ houserules!FetchIsAdministrator(d)
         \/ houserules!DisplayHubJSON(d)
         \/ \E t \in houserules!Texts : houserules!EnterText(d, t)
         \/ \E m \in houserules!Media : houserules!EnterMedia(d, m)
  PROVE  HouseInv'
<1>0. /\ desk \in [Desks -> DeskState] /\ desk[d] \in DeskState /\ rules \in TextAndVersion
      /\ saved \in Nat /\ saves \in SUBSET SaveCall
      /\ desk[d].open => d \in Admins \/ ~desk[d].known
  BY DEF HouseInv, DesksInv
<1> SUFFICES \E x \in DeskState : /\ x.open => d \in Admins \/ ~x.known
                                  /\ desk' = [desk EXCEPT ![d] = x]
                                  /\ UNCHANGED <<rules, saves, saved>> /\ UserSame
  BY <1>0, DeskStep, DeskOnly DEF DesksInv
<1>1. CASE houserules!OpenSettings(d)
  <2> DEFINE x == [houserules!Closed EXCEPT !.open = TRUE, !.known = desk[d].known, !.loading = TRUE, !.got = rules]
  <2>1. desk' = [desk EXCEPT ![d] = x] /\ UNCHANGED <<rules, saves, saved>> /\ UserSame
    BY <1>1 DEF houserules!OpenSettings, houserules!userVars, UserSame
  <2>2. d \in Admins \/ ~desk[d].known
    BY <1>1 DEF houserules!OpenSettings
  <2>3. x \in DeskState /\ x.known = desk[d].known
    BY ZenonT(60), <1>0 DEF houserules!Closed, houserules!Blank, DeskState, TextAndVersion, Texts
  <2> HIDE DEF x
  <2> QED
    BY <2>1, <2>2, <2>3
<1>2. CASE houserules!FetchIsAdministrator(d)
  <2> DEFINE x == [desk[d] EXCEPT !.known = TRUE, !.open = desk[d].open /\ d \in Admins]
  <2>1. desk' = [desk EXCEPT ![d] = x] /\ UNCHANGED <<rules, saves, saved>> /\ UserSame
    BY <1>0, <1>2 DEF houserules!FetchIsAdministrator, houserules!userVars, UserSame, DeskState
  <2>2. x \in DeskState /\ x.open = (desk[d].open /\ d \in Admins)
    BY <1>0 DEF DeskState
  <2> HIDE DEF x
  <2> QED
    BY <2>1, <2>2
<1>3. CASE houserules!DisplayHubJSON(d)
  <2> DEFINE x == [desk[d] EXCEPT !.loading = FALSE, !.text = desk[d].got.text, !.original = desk[d].got.text,
                     !.version = desk[d].got.version, !.changed = desk[d].changed \/ desk[d].got.text # desk[d].text]
  <2>1. desk' = [desk EXCEPT ![d] = x] /\ UNCHANGED <<rules, saves, saved>> /\ UserSame
    BY <1>0, <1>3 DEF houserules!DisplayHubJSON, houserules!userVars, UserSame, DeskState
  <2>2. x \in DeskState /\ x.open = desk[d].open /\ x.known = desk[d].known
    <3>1. desk[d].got.text \in Texts /\ desk[d].got.version \in Nat
      BY <1>0 DEF DeskState, TextAndVersion
    <3>2. (desk[d].changed \/ desk[d].got.text # desk[d].text) \in BOOLEAN
      BY <1>0 DEF DeskState
    <3> QED
      BY <1>0, <3>1, <3>2 DEF DeskState
  <2> HIDE DEF x
  <2> QED
    BY <1>0, <2>1, <2>2
<1>4. ASSUME NEW t \in houserules!Texts, houserules!EnterText(d, t)
      PROVE  \E x \in DeskState : /\ x.open => d \in Admins \/ ~x.known
                                  /\ desk' = [desk EXCEPT ![d] = x]
                                  /\ UNCHANGED <<rules, saves, saved>> /\ UserSame
  <2> DEFINE x == [desk[d] EXCEPT !.text = t, !.changed = TRUE]
  <2>1. desk' = [desk EXCEPT ![d] = x] /\ UNCHANGED <<rules, saves, saved>> /\ UserSame
    BY <1>0, <1>4 DEF houserules!EnterText, houserules!userVars, UserSame, DeskState
  <2>2. x \in DeskState /\ x.open = desk[d].open /\ x.known = desk[d].known
    BY <1>0, <1>4 DEF DeskState, Texts, houserules!Texts
  <2> HIDE DEF x
  <2> QED
    BY <1>0, <2>1, <2>2
<1>5. ASSUME NEW m \in houserules!Media, houserules!EnterMedia(d, m)
      PROVE  \E x \in DeskState : /\ x.open => d \in Admins \/ ~x.known
                                  /\ desk' = [desk EXCEPT ![d] = x]
                                  /\ UNCHANGED <<rules, saves, saved>> /\ UserSame
  <2> DEFINE x == [desk[d] EXCEPT !.media = desk[d].media \cup {m}, !.changed = TRUE]
  <2>1. desk' = [desk EXCEPT ![d] = x] /\ UNCHANGED <<rules, saves, saved>> /\ UserSame
    BY <1>0, <1>5 DEF houserules!EnterMedia, houserules!userVars, UserSame, DeskState
  <2>2. x \in DeskState /\ x.open = desk[d].open /\ x.known = desk[d].known
    BY <1>0, <1>5 DEF DeskState, houserules!Media
  <2> HIDE DEF x
  <2> QED
    BY <1>0, <2>1, <2>2
<1> QED
  BY <1>1, <1>2, <1>3, <1>4, <1>5

\* A save goes on: over the icon and the banner to the rules.
LEMMA ProceedStep ==
  ASSUME HouseInv, NEW s \in [desk : Desks, n : Nat, at : {"start", "icon", "banner"}, ok : BOOLEAN],
         NEW after, houserules!Proceed(s, after)
  PROVE  /\ rules' \in TextAndVersion /\ saves' \in SUBSET SaveCall
         /\ desk' \in [Desks -> DeskState]
         /\ \A d \in Desks : desk'[d].open => d \in Admins \/ ~desk'[d].known
<1> DEFINE d == desk[s.desk]
<1>0. /\ desk \in [Desks -> DeskState] /\ d \in DeskState /\ rules \in TextAndVersion
      /\ saves \in SUBSET SaveCall /\ s.desk \in Desks /\ s.ok \in BOOLEAN
      /\ d.open => s.desk \in Admins \/ ~d.known
      /\ d.text \in Texts /\ d.version \in Nat /\ d.changed \in BOOLEAN
      /\ \A e \in Desks : desk[e].open => e \in Admins \/ ~desk[e].known
  BY DEF HouseInv, DesksInv, DeskState
<1>1. \/ houserules!SaveHubSettings(s, d)
      \/ \E next \in {"icon", "banner"} :
           saves' = (saves \ {s}) \cup {[s EXCEPT !.at = next]} /\ UNCHANGED <<rules, desk>>
  BY DEF houserules!Proceed
<1>2. \A step \in {"icon", "banner", "stored", "refused"} : [s EXCEPT !.at = step] \in SaveCall
  BY DEF SaveCall
<1>3. ASSUME NEW next \in {"icon", "banner"},
             saves' = (saves \ {s}) \cup {[s EXCEPT !.at = next]}, UNCHANGED <<rules, desk>>
      PROVE  /\ rules' \in TextAndVersion /\ saves' \in SUBSET SaveCall
             /\ desk' \in [Desks -> DeskState]
             /\ \A e \in Desks : desk'[e].open => e \in Admins \/ ~desk'[e].known
  BY <1>0, <1>2, <1>3
<1>4. CASE houserules!SaveHubSettings(s, d) /\ d.text = d.original
  <2> DEFINE x == houserules!Finished(d, s.ok)
  <2>1. desk' = [desk EXCEPT ![s.desk] = x] /\ saves' = saves \ {s} /\ UNCHANGED rules
    BY <1>4 DEF houserules!SaveHubSettings
  <2>2. x \in DeskState /\ x.open = d.open /\ x.known = d.known
    BY <1>0 DEF houserules!Finished, DeskState
  <2> HIDE DEF x, d
  <2>3. d.open => s.desk \in Admins \/ ~d.known
    BY <1>0
  <2> QED
    BY <1>0, <2>1, <2>2, <2>3, DeskStep
<1>5. CASE houserules!SaveHubSettings(s, d) /\ d.text # d.original
  <2> DEFINE v == houserules!Bumped(d)  x == [d EXCEPT !.version = v]
  <2>1. /\ desk' = [desk EXCEPT ![s.desk] = x]
        /\ \/ rules' = [text |-> d.text, version |-> v] /\ saves' = (saves \ {s}) \cup {[s EXCEPT !.at = "stored"]}
           \/ UNCHANGED rules /\ saves' = (saves \ {s}) \cup {[s EXCEPT !.at = "refused"]}
    BY <1>0, <1>5 DEF houserules!SaveHubSettings
  <2>2. v \in Nat \ {0}
    BY <1>0, <1>5 DEF houserules!Bumped
  <2> HIDE DEF v
  <2>3. x \in DeskState /\ x.open = d.open /\ x.known = d.known
    BY <1>0, <2>2 DEF DeskState
  <2>4. rules' \in TextAndVersion
    BY <1>0, <2>1, <2>2 DEF TextAndVersion
  <2> HIDE DEF x, d
  <2> QED
    BY <1>0, <1>2, <2>1, <2>3, <2>4, DeskStep
<1> QED
  BY <1>1, <1>3, <1>4, <1>5

LEMMA HouseSaveStep ==
  ASSUME HouseInv,
         \/ \E d \in Desks : houserules!SaveChanges(d)
         \/ \E s \in saves : houserules!MediaSaved(s) \/ houserules!JsonSaved(s)
  PROVE  HouseInv'
<1>0. saves \in SUBSET SaveCall /\ saved \in Nat /\ rules \in TextAndVersion /\ desk \in [Desks -> DeskState]
  BY DEF HouseInv, DesksInv
<1>1. ASSUME NEW d \in Desks, houserules!SaveChanges(d) PROVE HouseInv'
  <2> DEFINE s == [desk |-> d, n |-> saved, at |-> "start", ok |-> TRUE]
  <2>1. s \in [desk : Desks, n : Nat, at : {"start", "icon", "banner"}, ok : BOOLEAN]
    BY <1>0
  <2>2. houserules!Proceed(s, "start") /\ saved' = saved + 1 /\ UserSame
    BY <1>1 DEF houserules!SaveChanges, houserules!userVars, UserSame
  <2> HIDE DEF s
  <2>3. DesksInv'
    BY <1>0, <2>1, <2>2, ProceedStep DEF DesksInv
  <2> QED
    BY <2>2, <2>3, DeskOnly
<1>2. ASSUME NEW s \in saves, houserules!MediaSaved(s) PROVE HouseInv'
  <2>1. UNCHANGED saved /\ UserSame /\ s.at \in {"icon", "banner"}
    BY <1>2 DEF houserules!MediaSaved, houserules!userVars, UserSame, houserules!Media
  <2>2. CASE houserules!Proceed(s, s.at)
    <3>1. s \in [desk : Desks, n : Nat, at : {"start", "icon", "banner"}, ok : BOOLEAN]
      BY <1>0, <2>1 DEF SaveCall
    <3>2. DesksInv'
      BY <1>0, <2>1, <2>2, <3>1, ProceedStep DEF DesksInv
    <3> QED
      BY <2>1, <3>2, DeskOnly
  <2>3. CASE saves' = (saves \ {s}) \cup {[s EXCEPT !.ok = FALSE]} /\ UNCHANGED <<rules, desk>>
    <3>1. [s EXCEPT !.ok = FALSE] \in SaveCall
      BY <1>0 DEF SaveCall
    <3>2. DesksInv'
      BY <1>0, <2>1, <2>3, <3>1 DEF HouseInv, DesksInv
    <3> QED
      BY <2>1, <3>2, DeskOnly
  <2> QED
    BY <1>2, <2>2, <2>3 DEF houserules!MediaSaved
<1>3. ASSUME NEW s \in saves, houserules!JsonSaved(s) PROVE HouseInv'
  <2> DEFINE x == houserules!Finished(desk[s.desk], s.ok /\ s.at = "stored")
  <2>1. /\ desk' = [desk EXCEPT ![s.desk] = x] /\ saves' = saves \ {s} /\ UNCHANGED <<rules, saved>> /\ UserSame
        /\ s.desk \in Desks /\ desk[s.desk] \in DeskState
    BY <1>0, <1>3 DEF houserules!JsonSaved, houserules!userVars, UserSame, SaveCall
  <2>2. x \in DeskState /\ x.open = desk[s.desk].open /\ x.known = desk[s.desk].known
    BY <2>1 DEF houserules!Finished, DeskState
  <2> HIDE DEF x
  <2>3. x.open => s.desk \in Admins \/ ~x.known
    BY <2>1, <2>2 DEF HouseInv, DesksInv
  <2>4. DesksInv'
    BY <1>0, <2>1, <2>2, <2>3, DeskStep DEF DesksInv
  <2> QED
    BY <2>1, <2>4, DeskOnly
<1> QED
  BY <1>1, <1>2, <1>3

\* What is known of the user's side, for use in the steps.
LEMMA UserKnown ==
  HouseInv =>
    /\ consented \in Nat /\ version \in Nat \ {0} /\ needs \in Needs
    /\ needs.consent \in BOOLEAN /\ needs.onboarding \in BOOLEAN
    /\ houserulesPage \in {"away", "home", "onboarding"} /\ kind \in {"full", "consent"}
    /\ forms \in Seq(FormState) /\ Len(forms) \in Nat /\ asks \in SUBSET Ask
    /\ \A a \in asks : AskOK(a, Len(forms))
    /\ rules \in TextAndVersion /\ rules.text \in Texts /\ rules.version \in Nat \ {0}
  BY DEF HouseInv, UserInv, DesksInv, Needs, TextAndVersion

\* The route of the onboarding: its page is there, and what was asked remains.
LEMMA ToRulesStep ==
  ASSUME HouseInv, NEW keep \in SUBSET asks, needs' \in Needs, houserules!ToRules(keep)
  PROVE  /\ houserulesPage' = "onboarding" /\ kind' \in {"full", "consent"}
         /\ forms' \in Seq(FormState) /\ forms' # <<>> /\ asks' \in SUBSET Ask
         /\ \A a \in asks' : AskOK(a, Len(forms')) /\ (a \in keep \/ a.op = "json")
<1>1. /\ houserulesPage' = "onboarding" /\ kind' \in {"full", "consent"}
  BY DEF houserules!ToRules
<1>2. CASE houserulesPage = "onboarding"
  BY <1>1, <1>2, UserKnown DEF houserules!ToRules, HouseInv, UserInv
<1>3. CASE houserulesPage # "onboarding"
  <2> DEFINE f == houserules!Form  n == Len(forms)  a0 == houserules!JsonAnswer(n + 1)
  <2>1. forms' = Append(forms, f) /\ asks' = keep \cup {a0}
    BY <1>3 DEF houserules!ToRules
  <2>2. f \in FormState
    BY UserKnown DEF houserules!Form, FormState, Texts
  <2> HIDE DEF f
  <2>3. forms' \in Seq(FormState) /\ Len(forms') = n + 1
    BY <2>1, <2>2, UserKnown
  <2>4. a0 \in Ask /\ a0.op = "json" /\ AskOK(a0, n + 1)
    <3>1. rules.version \in Nat /\ rules.version # 0 /\ rules.text \in Texts /\ n \in Nat
      BY UserKnown
    <3> HIDE DEF n
    <3> QED
      BY <3>1 DEF houserules!JsonAnswer, Ask, AskOK
  <2>5. \A a \in keep : AskOK(a, n + 1)
    BY UserKnown DEF AskOK, Ask
  <2> HIDE DEF a0, n
  <2>6. n \in Nat
    BY UserKnown DEF n
  <2> QED
    BY <1>1, <2>1, <2>3, <2>4, <2>5, <2>6, UserKnown
<1> QED
  BY <1>2, <1>3

\* Posting the version: what is stored is a version, or the request failed.
LEMMA PostStep ==
  ASSUME HouseInv, NEW n \in 1 .. Len(forms), NEW keep \in SUBSET asks, houserules!Post(n, keep)
  PROVE  /\ consented' \in Nat /\ asks' \in SUBSET Ask
         /\ consented' = 0 => consented = 0
         /\ \A a \in asks' : /\ AskOK(a, Len(forms))
                             /\ a \in keep \/ (a.op = "post" /\ (consented' = 0 => a.failed))
<1>1. PICK failed \in BOOLEAN :
        /\ asks' = keep \cup {houserules!PostAnswer(n, failed)}
        /\ IF failed THEN UNCHANGED consented ELSE consented' = forms[n].version
  BY DEF houserules!Post
<1> DEFINE a0 == houserules!PostAnswer(n, failed)
<1>2. a0 \in Ask /\ a0.op = "post" /\ a0.failed = failed /\ AskOK(a0, Len(forms))
  <2>1. n \in Nat \ {0} /\ n <= Len(forms)
    BY UserKnown
  <2> QED
    BY <2>1 DEF houserules!PostAnswer, Ask, Texts, AskOK
<1>4. asks' = keep \cup {a0} /\ (IF failed THEN consented' = consented ELSE consented' = forms[n].version)
  BY <1>1
<1> HIDE DEF a0
<1>3. forms[n].version \in Nat \ {0}
  <2>1. forms[n] \in FormState
    BY UserKnown
  <2> QED
    BY <2>1 DEF FormState
<1> QED
  BY <1>2, <1>3, <1>4, UserKnown

\* The question whether the user has to consent.
LEMMA NeedsStep ==
  ASSUME HouseInv, NEW n \in 0 .. Len(forms), NEW failed \in BOOLEAN
  PROVE  LET a == houserules!NeedsAnswer(n, failed) IN
         /\ a \in Ask /\ a.op = "needs" /\ AskOK(a, Len(forms))
         /\ consented = 0 => a.consent
<1>1. n \in Nat /\ n <= Len(forms)
  BY UserKnown
<1>2. (consented # rules.version) \in BOOLEAN /\ (consented = 0) \in BOOLEAN
      /\ (consented = 0 => consented # rules.version)
  BY UserKnown
<1> QED
  BY <1>1, <1>2 DEF houserules!NeedsAnswer, Ask, AskOK, Texts

DesksSame == UNCHANGED <<rules, desk, saves, saved>>

LEMMA UserOnly ==
  ASSUME HouseInv, DesksSame
  PROVE  DesksInv'
  BY DEF HouseInv, DesksInv, DesksSame

\* Coming in, reading, agreeing.
LEMMA HouseReadStep ==
  ASSUME HouseInv,
         \/ houserules!Login \/ houserules!Turn \/ houserules!GoHome
         \/ \E a \in asks : houserules!GetHubJSON(a)
  PROVE  HouseInv'
<1>1. CASE houserules!Login
  <2>1. PICK failed \in BOOLEAN : asks' = asks \cup {houserules!NeedsAnswer(0, failed)}
    BY <1>1 DEF houserules!Login
  <2>2. PICK a0 : a0 = houserules!NeedsAnswer(0, failed)
    OBVIOUS
  <2>3. a0 \in Ask /\ a0.op = "needs" /\ AskOK(a0, Len(forms)) /\ (consented = 0 => a0.consent)
    BY <2>2, NeedsStep, UserKnown
  <2>4. /\ houserulesPage = "away" /\ houserulesPage' = "home" /\ DesksSame
        /\ UNCHANGED <<consented, version, needs, kind, forms>> /\ asks' = asks \cup {a0}
    BY <1>1, <2>1, <2>2 DEF houserules!Login, houserules!deskVars, DesksSame
  <2>5. UserInv'
    BY <2>3, <2>4, UserKnown DEF UserInv
  <2>6. RecordInv'
    BY <2>3, <2>4 DEF HouseInv, RecordInv, Unrecorded
  <2> QED
    BY <2>4, <2>5, <2>6, UserOnly DEF HouseInv
<1>2. CASE houserules!Turn
  <2> DEFINE n == Len(forms)
             x == [forms[n] EXCEPT !.step = 3 - forms[n].step]
             y == [forms[n] EXCEPT !.agreed = ~forms[n].agreed]
  <2>1. /\ UNCHANGED <<consented, version, needs, houserulesPage, kind, asks>> /\ DesksSame
        /\ houserulesPage = "onboarding"
    BY <1>2 DEF houserules!Turn, houserules!deskVars, DesksSame, houserules!Onboarding
  <2>2. n \in 1 .. Len(forms) /\ forms[n] \in FormState /\ forms \in Seq(FormState)
    BY <2>1, UserKnown DEF HouseInv, UserInv
  <2>3. forms' = [forms EXCEPT ![n] = x] \/ forms' = [forms EXCEPT ![n] = y]
    BY <1>2, <2>2 DEF houserules!Turn
  <2>4. x \in FormState /\ y \in FormState
    <3>1. 3 - forms[n].step \in 1 .. 2
      BY <2>2 DEF FormState
    <3> QED
      BY <2>2, <3>1 DEF FormState
  <2> HIDE DEF x, y
  <2>5. forms' \in Seq(FormState) /\ Len(forms') = Len(forms)
    BY <2>2, <2>3, <2>4
  <2>6. UserInv'
    BY <2>1, <2>2, <2>5, UserKnown DEF UserInv
  <2>7. RecordInv'
    BY <2>1 DEF HouseInv, RecordInv, Unrecorded
  <2> QED
    BY <2>1, <2>6, <2>7, UserOnly DEF HouseInv
<1>3. CASE houserules!GoHome
  <2>1. /\ houserulesPage # "away" /\ UNCHANGED <<needs, consented, version>> /\ DesksSame
        /\ houserules!Go(asks)
    BY <1>3 DEF houserules!GoHome, houserules!deskVars, DesksSame
  <2>2. CASE houserules!ToRules(asks) /\ (needs.consent \/ needs.onboarding)
    <3>1. needs' \in Needs
      BY <2>1, UserKnown
    <3>2. UserInv'
      BY <2>1, <2>2, <3>1, ToRulesStep, UserKnown DEF UserInv
    <3>3. RecordInv'
      BY <2>1, <2>2, <3>1, ToRulesStep DEF HouseInv, RecordInv, Unrecorded
    <3> QED
      BY <2>1, <3>2, <3>3, UserOnly DEF HouseInv
  <2>3. CASE houserulesPage' = "home" /\ UNCHANGED <<asks, kind, forms>> /\ ~(needs.consent \/ needs.onboarding)
    <3>1. UserInv'
      BY <2>1, <2>3, UserKnown DEF UserInv
    <3>2. RecordInv'
      BY <2>1, <2>3, UserKnown DEF HouseInv, RecordInv, Unrecorded
    <3> QED
      BY <2>1, <3>1, <3>2, UserOnly DEF HouseInv
  <2> QED
    BY <2>1, <2>2, <2>3 DEF houserules!Go
<1>4. ASSUME NEW a \in asks, houserules!GetHubJSON(a) PROVE HouseInv'
  <2> DEFINE n == a.form
             x == [forms[n] EXCEPT !.text = a.text, !.version = a.version]
  <2>1. /\ UNCHANGED <<consented, needs, houserulesPage, kind>> /\ DesksSame
        /\ asks' = asks \ {a} /\ version' = a.version
        /\ a.op = "json"
    BY <1>4 DEF houserules!GetHubJSON, houserules!deskVars, DesksSame
  <2>2. a \in Ask /\ AskOK(a, Len(forms)) /\ a.version \in Nat \ {0}
    BY <2>1, UserKnown DEF AskOK, Ask
  <2>3. n \in 1 .. Len(forms) /\ forms[n] \in FormState /\ forms \in Seq(FormState)
    <3>1. n \in Nat /\ n # 0 /\ n <= Len(forms) /\ Len(forms) \in Nat
      BY <2>1, <2>2, UserKnown DEF AskOK, Ask
    <3> QED
      BY <3>1, UserKnown
  <2>4. forms' = [forms EXCEPT ![n] = x]
    BY ZenonT(60), <1>4, <2>2, <2>3 DEF houserules!GetHubJSON
  <2>5. x \in FormState
    BY <2>2, <2>3 DEF FormState, Ask
  <2> HIDE DEF x
  <2>6. forms' \in Seq(FormState) /\ Len(forms') = Len(forms) /\ forms' # <<>>
    BY <2>3, <2>4, <2>5
  <2>7. UserInv'
    BY <2>1, <2>2, <2>6, UserKnown DEF UserInv
  <2>8. RecordInv'
    BY <2>1 DEF HouseInv, RecordInv, Unrecorded
  <2> QED
    BY <2>1, <2>7, <2>8, UserOnly DEF HouseInv
<1> QED
  BY <1>1, <1>2, <1>3, <1>4

\* Asking, submitting and posting.
LEMMA HouseSubmitStep ==
  ASSUME HouseInv, houserules!Submit
  PROVE  HouseInv'
<1> DEFINE n == Len(forms)
<1>1. /\ houserulesPage = "onboarding" /\ DesksSame
      /\ UNCHANGED <<version, needs, houserulesPage, kind, forms>>
  BY DEF houserules!Submit, houserules!deskVars, DesksSame, houserules!Onboarding
<1>2. n \in 1 .. Len(forms)
  BY <1>1, UserKnown DEF HouseInv, UserInv
<1>3. DesksInv'
  BY <1>1, UserOnly
<1>4. CASE houserules!Post(n, asks)
  <2> HIDE DEF n
  <2>1. UserInv'
    BY <1>1, <1>2, <1>4, PostStep, UserKnown DEF HouseInv, UserInv
  <2>2. RecordInv'
    BY <1>1, <1>2, <1>4, PostStep DEF HouseInv, RecordInv, Unrecorded
  <2> QED
    BY <1>3, <2>1, <2>2 DEF HouseInv
<1>5. ASSUME NEW failed \in BOOLEAN, asks' = asks \cup {houserules!NeedsAnswer(n, failed)}, UNCHANGED consented
      PROVE  HouseInv'
  <2>1. PICK a0 : a0 = houserules!NeedsAnswer(n, failed)
    OBVIOUS
  <2>2. n \in 0 .. Len(forms)
    BY UserKnown
  <2> HIDE DEF n
  <2>3. a0 \in Ask /\ a0.op = "needs" /\ AskOK(a0, Len(forms)) /\ (consented = 0 => a0.consent)
    BY <2>1, <2>2, NeedsStep
  <2>4. UserInv'
    BY <1>1, <1>5, <2>1, <2>3, UserKnown DEF HouseInv, UserInv
  <2>5. RecordInv'
    BY <1>1, <1>5, <2>1, <2>3 DEF HouseInv, RecordInv, Unrecorded
  <2> QED
    BY <1>3, <2>4, <2>5 DEF HouseInv
<1>6. CASE UNCHANGED <<consented, asks>>
  <2>1. UserInv' /\ RecordInv'
    BY <1>1, <1>6 DEF HouseInv, UserInv, RecordInv, Unrecorded, AskOK
  <2> QED
    BY <1>3, <2>1 DEF HouseInv
<1> QED
  BY <1>4, <1>5, <1>6 DEF houserules!Submit

LEMMA HouseNeedsStep ==
  ASSUME HouseInv, NEW a \in asks, houserules!FetchIfUserNeedsConsent(a)
  PROVE  HouseInv'
<1> DEFINE rest == asks \ {a}
<1>1. DesksSame /\ UNCHANGED version /\ a.op = "needs"
  BY DEF houserules!FetchIfUserNeedsConsent, houserules!deskVars, DesksSame
<1>2. needs' = IF a.failed THEN [needs EXCEPT !.consent = TRUE]
               ELSE [consent |-> a.consent, onboarding |-> a.onboarding]
  BY DEF houserules!FetchIfUserNeedsConsent
<1>3. /\ needs' \in Needs
      /\ consented = 0 => needs'.consent
  <2>1. a \in Ask /\ needs \in Needs
    BY UserKnown
  <2>2. consented = 0 => a.failed \/ a.consent
    BY <1>1 DEF HouseInv, RecordInv, Unrecorded
  <2> QED
    BY <1>2, <2>1, <2>2 DEF Ask, Needs
<1>4. DesksInv'
  BY <1>1, UserOnly
<1>5. CASE a.form = 0
  <2>1. UNCHANGED consented
    BY <1>5 DEF houserules!FetchIfUserNeedsConsent
  <2>2. CASE houserules!ToRules(rest)
    <3>1. UserInv'
      BY <1>1, <1>3, <2>1, <2>2, ToRulesStep, UserKnown DEF UserInv
    <3>2. RecordInv'
      BY <1>3, <2>1, <2>2, ToRulesStep DEF HouseInv, RecordInv, Unrecorded
    <3> QED
      BY <1>4, <3>1, <3>2 DEF HouseInv
  <2>3. CASE ~(needs'.consent \/ needs'.onboarding) /\ asks' = rest /\ UNCHANGED <<houserulesPage, kind, forms>>
    <3>1. UserInv'
      BY <1>1, <1>3, <2>1, <2>3, UserKnown DEF HouseInv, UserInv
    <3>2. RecordInv'
      BY <1>3, <2>1, <2>3 DEF RecordInv
    <3> QED
      BY <1>4, <3>1, <3>2 DEF HouseInv
  <2> QED
    BY <1>5, <2>2, <2>3 DEF houserules!FetchIfUserNeedsConsent
<1>6. CASE a.form # 0
  <2>1. /\ houserules!Post(a.form, rest) /\ UNCHANGED forms
        /\ \/ (needs'.consent \/ needs'.onboarding) /\ houserulesPage' = "onboarding" /\ kind' \in {"full", "consent"}
           \/ ~(needs'.consent \/ needs'.onboarding) /\ UNCHANGED <<houserulesPage, kind>>
    BY <1>6 DEF houserules!FetchIfUserNeedsConsent
  <2>2. a.form \in 1 .. Len(forms)
    <3>1. a \in Ask /\ AskOK(a, Len(forms)) /\ Len(forms) \in Nat
      BY UserKnown
    <3> QED
      BY <1>6, <3>1 DEF Ask, AskOK
  <2>3. forms # <<>>
    BY <2>2, UserKnown
  <2>4. UserInv'
    BY <1>1, <1>3, <2>1, <2>2, <2>3, PostStep, UserKnown DEF UserInv
  <2>5. RecordInv'
    BY <1>3, <2>1, <2>2, PostStep DEF HouseInv, RecordInv, Unrecorded
  <2> QED
    BY <1>4, <2>4, <2>5 DEF HouseInv
<1> QED
  BY <1>5, <1>6

LEMMA HouseConsentStep ==
  ASSUME HouseInv, NEW a \in asks, houserules!SetUserConsentVersion(a)
  PROVE  HouseInv'
<1> DEFINE rest == asks \ {a}
<1>1. /\ DesksSame /\ UNCHANGED <<consented, version>> /\ a.op = "post"
      /\ needs' = houserules!Cleared(a) /\ houserules!Go(rest)
  BY DEF houserules!SetUserConsentVersion, houserules!deskVars, DesksSame
<1>2. /\ needs' \in Needs
      /\ consented = 0 => needs'.consent \/ needs'.onboarding
  <2>1. consented = 0 => a.failed /\ (needs.consent \/ needs.onboarding)
    BY <1>1 DEF HouseInv, RecordInv, Unrecorded
  <2> QED
    BY <1>1, <2>1, UserKnown DEF houserules!Cleared, Needs
<1>3. DesksInv'
  BY <1>1, UserOnly
<1>4. CASE houserules!ToRules(rest)
  <2>1. UserInv'
    BY <1>1, <1>2, <1>4, ToRulesStep, UserKnown DEF UserInv
  <2>2. RecordInv'
    BY <1>1, <1>2, <1>4, ToRulesStep DEF HouseInv, RecordInv, Unrecorded
  <2> QED
    BY <1>3, <2>1, <2>2 DEF HouseInv
<1>5. CASE houserulesPage' = "home" /\ asks' = rest /\ UNCHANGED <<kind, forms>> /\ ~(needs'.consent \/ needs'.onboarding)
  <2>1. UserInv'
    BY <1>1, <1>2, <1>5, UserKnown DEF UserInv
  <2>2. RecordInv'
    BY <1>1, <1>2, <1>5 DEF RecordInv
  <2> QED
    BY <1>3, <2>1, <2>2 DEF HouseInv
<1> QED
  BY <1>1, <1>4, <1>5 DEF houserules!Go

LEMMA HouseStep == HouseInv /\ (houserules!RulesNext \/ UNCHANGED houserulesVars) => HouseInv'
<1>1. CASE UNCHANGED houserulesVars
  <2>1. HouseInv => DesksInv'
    BY <1>1 DEF houserulesVars, HouseInv, DesksInv
  <2>2. UserSame
    BY <1>1 DEF houserulesVars, UserSame
  <2> QED
    BY <2>1, <2>2, DeskOnly
<1>2. CASE houserules!RulesNext
  BY <1>2, HouseDeskStep, HouseSaveStep, HouseReadStep, HouseSubmitStep, HouseNeedsStep, HouseConsentStep
     DEF houserules!RulesNext
<1> QED
  BY <1>1, <1>2

LEMMA HouseInit == houserules!RulesInit => HouseInv
<1> SUFFICES ASSUME houserules!RulesInit PROVE HouseInv
  OBVIOUS
<1>1. DesksInv
  BY DEF houserules!RulesInit, houserules!Blank, houserules!Closed, DesksInv, TextAndVersion, Texts, DeskState
<1>2. UserInv
  BY DEF houserules!RulesInit, UserInv, Needs
<1>3. RecordInv
  BY DEF houserules!RulesInit, RecordInv, Unrecorded
<1> QED
  BY <1>1, <1>2, <1>3 DEF HouseInv

\* Who is past the onboarding of a hub, and no longer being asked about, has a
\* version of the rules on record (Onboarding.vue, fetchIfUserNeedsConsent and
\* setUserConsentVersion of user.ts): without one, every question under way will
\* be answered that he has to consent, and every post under way has failed and
\* leads back to the onboarding.
THEOREM NobodyWithoutRecord == Spec => []LetInOnRecord
<1> DEFINE I == part = "houserules" => HouseInv
<1>1. Init => I
  BY HouseInit, Parts
<1>2. I /\ [Next]_vars => I'
  BY HouseStep, Parts
<1>3. I => LetInOnRecord
  BY DEF HouseInv, RecordInv, Unrecorded, LetInOnRecord, houserules!LetInOnRecord
<1> QED
  BY <1>1, <1>2, <1>3, PTL DEF Spec

-----------------------------------------------------------------------------
(* Dialogs: types, and one session for an answer.                          *)

PrefsInv ==
  /\ prefs \in dialogs!Prefs /\ dialogsAccount \in dialogs!Prefs /\ dialogsTold \in dialogs!Prefs
  /\ form \in [data : dialogs!Prefs, original : dialogs!Prefs]
ScreenInv ==
  screen \in {"login", "onboarding", "home", "hub"} /\ (screen = "hub" => signedIn)
ShownInv ==
  /\ asked \in {"nothing", "taken", "logout", "construction"}
  /\ buttons \in {"none", "ok", "okcancel", "yesno", "submit"}
  /\ asked # "nothing" =>
       buttons = IF asked = "logout" THEN "yesno" ELSE IF asked = "taken" THEN "okcancel" ELSE "ok"
  /\ onOk \in {"none", "settings", "register"} /\ onCancel \in {"none", "register"}
BegunInv == yivi \in Seq(BOOLEAN) /\ begun \in 0 .. MaxSessions
NoticeInv ==
  knocks \in 0 .. 1 /\ prompts \in 0 .. 1 /\ (notify = "allow" => permission = "granted")

DialogsInv == PrefsInv /\ ScreenInv /\ ShownInv /\ BegunInv /\ NoticeInv

\* What the parts of a step can do to the preferences.
LEMMA SetStep ==
  ASSUME PrefsInv, NEW p \in dialogs!Prefs, dialogs!Set(p)
  PROVE  prefs' \in dialogs!Prefs /\ dialogsAccount' \in dialogs!Prefs /\ dialogsTold' \in dialogs!Prefs
  BY DEF dialogs!Set, PrefsInv

LEMMA AppliedType == PrefsInv => dialogs!Applied \in dialogs!Prefs
  BY DEF PrefsInv, dialogs!Applied, dialogs!Prefs

\* A session more at most, however the callbacks are called.
LEMMA CleanupStep ==
  ASSUME BegunInv, NEW ok, NEW cancel, NEW twice, dialogs!Cleanup(ok, cancel, twice)
  PROVE  BegunInv' /\ begun' <= begun + 1 /\ onOk' = "none" /\ onCancel' = "none"
<1>1. (cancel = "register") \in BOOLEAN /\ yivi \in Seq(BOOLEAN) /\ MaxSessions \in Nat
  BY BoundsAssumption DEF BegunInv, BoundsAssumption
<1>2. yivi' = dialogs!Start(yivi, cancel = "register") /\ begun' = dialogs!Begun
      /\ onOk' = "none" /\ onCancel' = "none"
  BY DEF dialogs!Cleanup
<1>3. yivi' \in Seq(BOOLEAN)
  <2> DEFINE b == cancel = "register"
  <2>1. Append(yivi, b) \in Seq(BOOLEAN)
    BY <1>1
  <2> QED
    BY <1>1, <1>2, <2>1 DEF dialogs!Start
<1> QED
  BY <1>1, <1>2, <1>3 DEF BegunInv, dialogs!Begun

LEMMA CloseStep ==
  ASSUME DialogsInv, NEW answer \in {0, 1}, NEW twice, dialogs!Close(answer, twice)
  PROVE  PrefsInv' /\ ScreenInv' /\ ShownInv' /\ BegunInv' /\ begun' <= begun + 1
<1>1. /\ asked' = "nothing" /\ buttons' = "none" /\ UNCHANGED form
      /\ \/ dialogs!Set(dialogs!Applied) /\ UNCHANGED <<onOk, onCancel, yivi, begun>>
         \/ /\ \E ok, cancel : dialogs!Cleanup(ok, cancel, twice)
            /\ UNCHANGED <<prefs, dialogsTold, dialogsAccount>>
         \/ UNCHANGED <<prefs, dialogsTold, dialogsAccount, onOk, onCancel, yivi, begun>>
  <2>1. CASE answer = 1 /\ onOk = "settings"
    BY <2>1 DEF dialogs!Close
  <2>2. CASE answer = 1 /\ onOk = "register"
    BY <2>2 DEF dialogs!Close
  <2>3. CASE answer = 0 /\ onCancel = "register"
    BY <2>3 DEF dialogs!Close
  <2>4. CASE /\ ~(answer = 1 /\ onOk = "settings") /\ ~(answer = 1 /\ onOk = "register")
             /\ ~(answer = 0 /\ onCancel = "register")
    BY <2>4 DEF dialogs!Close
  <2> QED
    BY <2>1, <2>2, <2>3, <2>4
<1>2. ScreenInv'
  BY DEF dialogs!Close, DialogsInv, ScreenInv
<1>3. begun \in Nat
  BY BoundsAssumption DEF DialogsInv, BegunInv, BoundsAssumption
<1>4. CASE dialogs!Set(dialogs!Applied) /\ UNCHANGED <<onOk, onCancel, yivi, begun>>
  BY <1>1, <1>2, <1>3, <1>4, SetStep, AppliedType DEF DialogsInv, PrefsInv, ShownInv, BegunInv
<1>5. ASSUME NEW ok, NEW cancel, dialogs!Cleanup(ok, cancel, twice),
             UNCHANGED <<prefs, dialogsTold, dialogsAccount>>
      PROVE  PrefsInv' /\ ShownInv' /\ BegunInv' /\ begun' <= begun + 1
  BY <1>1, <1>5, CleanupStep DEF DialogsInv, PrefsInv, ShownInv
<1>6. CASE UNCHANGED <<prefs, dialogsTold, dialogsAccount, onOk, onCancel, yivi, begun>>
  BY <1>1, <1>2, <1>3, <1>6 DEF DialogsInv, PrefsInv, ShownInv, BegunInv
<1> QED
  BY <1>1, <1>2, <1>4, <1>5, <1>6

\* Removing a session of the list.
LEMMA WithoutType ==
  ASSUME BegunInv, NEW i \in DOMAIN yivi
  PROVE  dialogs!Without(i) \in Seq(BOOLEAN)
<1>1. yivi \in Seq(BOOLEAN) /\ Len(yivi) \in Nat /\ DOMAIN yivi = 1 .. Len(yivi)
  BY DEF BegunInv
<1>2. Len(yivi) - 1 \in Nat
  BY <1>1
<1>3. \A k \in 1 .. Len(yivi) - 1 : (IF k < i THEN yivi[k] ELSE yivi[k + 1]) \in BOOLEAN
  BY <1>1
<1> QED
  BY <1>2, <1>3 DEF dialogs!Without

\* Every step keeps the types, and starts one session at most.
LEMMA DialogsStep ==
  ASSUME DialogsInv, dialogs!DialogsNext \/ UNCHANGED dialogsVars
  PROVE  DialogsInv' /\ begun' <= begun + 1
<1>0. begun \in Nat
  BY BoundsAssumption DEF DialogsInv, BegunInv, BoundsAssumption
<1> USE DEF dialogs!prefVars, dialogs!dialogVars, dialogs!noticeVars
<1>1. CASE UNCHANGED dialogsVars
  BY <1>0, <1>1 DEF dialogsVars, DialogsInv, PrefsInv, ScreenInv, ShownInv, BegunInv, NoticeInv
<1>2. ASSUME NEW answer \in {0, 1}, dialogs!Answer(answer) \/ dialogs!Leave(answer)
      PROVE  DialogsInv' /\ begun' <= begun + 1
  <2>1. NoticeInv' /\ \E twice : dialogs!Close(answer, twice)
    BY <1>2 DEF dialogs!Answer, dialogs!Leave, DialogsInv, NoticeInv
  <2> QED
    BY <2>1, CloseStep DEF DialogsInv
<1>3. CASE dialogs!Escape
  <2>1. NoticeInv' /\ dialogs!Close(0, TRUE)
    BY <1>3 DEF dialogs!Escape, DialogsInv, NoticeInv
  <2> QED
    BY <2>1, CloseStep DEF DialogsInv
<1>4. CASE dialogs!OpenSettings
  BY <1>0, <1>4 DEF dialogs!OpenSettings, dialogs!Free, DialogsInv, PrefsInv, ScreenInv, ShownInv, BegunInv, NoticeInv
<1>5. ASSUME NEW f \in Fields, NEW v \in Values, dialogs!UpdateData(f, v)
      PROVE  DialogsInv' /\ begun' <= begun + 1
  <2> DEFINE x == [form.data EXCEPT ![f] = v]
  <2>1. form' = [form EXCEPT !.data = x]
    BY <1>5 DEF dialogs!UpdateData, DialogsInv, PrefsInv
  <2>2. x \in dialogs!Prefs
    BY DEF DialogsInv, PrefsInv, dialogs!Prefs
  <2> HIDE DEF x
  <2>3. form' \in [data : dialogs!Prefs, original : dialogs!Prefs]
    BY <2>1, <2>2 DEF DialogsInv, PrefsInv
  <2> QED
    BY <1>0, <1>5, <2>3 DEF dialogs!UpdateData, DialogsInv, PrefsInv, ScreenInv, ShownInv, BegunInv, NoticeInv
<1>6. CASE \/ dialogs!AllowNotifications \/ dialogs!EnterHub
           \/ \E p \in {"default", "granted", "denied"} : dialogs!BrowserAnswers(p) \/ dialogs!PermissionChanges(p)
  <2>1. UNCHANGED <<screen, signedIn, prefs, dialogsAccount, dialogsTold, form, asked, buttons, onOk, onCancel, yivi, begun>>
    BY <1>6 DEF dialogs!AllowNotifications, dialogs!EnterHub, dialogs!BrowserAnswers, dialogs!PermissionChanges
  <2>2. NoticeInv'
    BY <1>6 DEF dialogs!AllowNotifications, dialogs!EnterHub, dialogs!BrowserAnswers, dialogs!PermissionChanges, DialogsInv, NoticeInv
  <2> QED
    BY <1>0, <2>1, <2>2 DEF DialogsInv, PrefsInv, ScreenInv, ShownInv, BegunInv
<1>7. CASE dialogs!Logout
  BY <1>0, <1>7 DEF dialogs!Logout, dialogs!Show, DialogsInv, PrefsInv, ScreenInv, ShownInv, BegunInv, NoticeInv
<1>8. ASSUME NEW there \in BOOLEAN, dialogs!HubAnswers(there)
      PROVE  DialogsInv' /\ begun' <= begun + 1
  BY <1>0, <1>8 DEF dialogs!HubAnswers, dialogs!Load, dialogs!Show, DialogsInv, PrefsInv, ScreenInv, ShownInv, BegunInv, NoticeInv
<1>9. CASE dialogs!GoHome
  BY <1>0, <1>9 DEF dialogs!GoHome, dialogs!Load, DialogsInv, PrefsInv, ScreenInv, ShownInv, BegunInv, NoticeInv
<1>10. CASE dialogs!Register
  <2>1. BegunInv' /\ begun' <= begun + 1
    BY <1>10, BoundsAssumption DEF dialogs!Register, dialogs!Start, dialogs!Begun, DialogsInv, BegunInv, BoundsAssumption
  <2> QED
    BY <1>10, <2>1 DEF dialogs!Register, DialogsInv, PrefsInv, ScreenInv, ShownInv, NoticeInv
<1>11. ASSUME NEW i \in DOMAIN yivi, dialogs!Taken(i) \/ dialogs!Entered(i) \/ dialogs!SessionFails(i)
       PROVE  DialogsInv' /\ begun' <= begun + 1
  <2>1. yivi' = dialogs!Without(i) /\ UNCHANGED begun
    BY <1>11 DEF dialogs!Taken, dialogs!Entered, dialogs!SessionFails
  <2>2. BegunInv' /\ begun' <= begun + 1
    BY <1>0, <2>1, WithoutType DEF DialogsInv, BegunInv
  <2> QED
    BY <1>11, <2>2 DEF dialogs!Taken, dialogs!Entered, dialogs!SessionFails, dialogs!Show, dialogs!Load,
       DialogsInv, PrefsInv, ScreenInv, ShownInv, NoticeInv
<1>12. ASSUME NEW v \in Values, dialogs!ChangeLanguage(v)
       PROVE  DialogsInv' /\ begun' <= begun + 1
  <2> DEFINE p == [prefs EXCEPT ![Language] = v]
  <2>1. p \in dialogs!Prefs
    BY DEF DialogsInv, PrefsInv, dialogs!Prefs
  <2>2. dialogs!Set(p)
    BY <1>12 DEF dialogs!ChangeLanguage
  <2> HIDE DEF p
  <2>3. prefs' \in dialogs!Prefs /\ dialogsAccount' \in dialogs!Prefs /\ dialogsTold' \in dialogs!Prefs
    BY <2>1, <2>2, SetStep DEF DialogsInv
  <2> QED
    BY <1>0, <1>12, <2>3 DEF dialogs!ChangeLanguage, DialogsInv, PrefsInv, ScreenInv, ShownInv, BegunInv, NoticeInv
<1> QED
  BY <1>1, <1>2, <1>3, <1>4, <1>5, <1>6, <1>7, <1>8, <1>9, <1>10, <1>11, <1>12 DEF dialogs!DialogsNext

LEMMA DialogsStart == dialogs!DialogsInit => DialogsInv
<1> SUFFICES ASSUME dialogs!DialogsInit PROVE DialogsInv
  OBVIOUS
<1>1. /\ dialogsAccount \in [Fields -> Values] /\ prefs = [f \in Fields |-> CHOOSE v \in Values : TRUE]
      /\ dialogsTold = prefs /\ form = dialogs!NoForm
  BY DEF dialogs!DialogsInit, dialogs!Prefs
<1>2. \A f \in Fields : (CHOOSE v \in Values : TRUE) \in Values
  <2>1. \A f \in Fields : dialogsAccount[f] \in Values
    BY <1>1
  <2> QED
    BY <2>1
<1>3. PrefsInv
  BY <1>1, <1>2 DEF PrefsInv, dialogs!Prefs, dialogs!NoForm
<1>4. ScreenInv /\ ShownInv /\ NoticeInv
  BY DEF dialogs!DialogsInit, ScreenInv, ShownInv, NoticeInv
<1>5. BegunInv
  BY BoundsAssumption DEF dialogs!DialogsInit, BegunInv, BoundsAssumption
<1> QED
  BY <1>3, <1>4, <1>5 DEF DialogsInv

\* However the two places where a dialog is rendered close it, an answer starts
\* one session at most: both callbacks of the question about an attribute that
\* is taken are removed before the session is started (handleOk and
\* handleCancel of Onboarding.vue, close of dialog.ts).
THEOREM OneSessionAtMost == Spec => OneSessionPerAnswer
<1> DEFINE I == part = "dialogs" => DialogsInv
<1>1. Init => I
  BY DialogsStart, Parts
<1>2. I /\ [Next]_vars => I' /\ (part = "dialogs" => begun' <= begun + 1)
  BY DialogsStep, Parts
<1>3. I /\ [Next]_vars => [part = "dialogs" => begun' <= begun + 1]_vars
  BY <1>2
<1> QED
  BY <1>1, <1>2, <1>3, PTL DEF Spec, OneSessionPerAnswer

-----------------------------------------------------------------------------
(* Menus: the two clients agree on the menu that is open.                  *)

UpMessage == [kind : {"open", "show", "hide"}, on : Targets \cup {"none"}]
DownMessage == [kind : {"select", "close", "narrow", "wide"}, on : Targets \cup {"none"}]

MenusTypes ==
  /\ isOpen \in BOOLEAN /\ target \in Targets \cup {"none"} /\ (target # "none" <=> isOpen)
  /\ press \in Targets \cup {"none"} /\ globalMenu \in Targets \cup {"none", "bar"}
  /\ narrowHub \in BOOLEAN /\ dimmed \in BOOLEAN /\ narrow \in BOOLEAN
  /\ muddled \in BOOLEAN /\ mistaken \in BOOLEAN
  /\ subscriptions \in Nat /\ opened \in 0 .. MaxOpens
  /\ wheel \in Nat /\ wheel <= opened /\ (isOpen => wheel # 0)
  /\ up \in Seq(UpMessage) /\ down \in Seq(DownMessage)

\* What the bar will be when the messages u have arrived.
EndsDimmed(u) == IF u = <<>> THEN dimmed ELSE u[Len(u)].kind = "show"
OnlyDims(u) == \A i \in 1 .. Len(u) : u[i].kind # "open"
OnlyLayout(d) == \A i \in 1 .. Len(d) : d[i].kind \in {"narrow", "wide"}

\* The hub client is told that its menu closed, by message g of d; it may be
\* told before what was chosen.
Closing(d, g) ==
  /\ d[g].kind = "close"
  /\ \A i \in 1 .. Len(d) : i # g => d[i].kind \in {"narrow", "wide"}
Choosing(d, g) ==
  /\ g < Len(d) /\ d[g].kind = "select" /\ d[g].on = target /\ d[g + 1].kind = "close"
  /\ \A i \in 1 .. Len(d) : i # g /\ i # g + 1 => d[i].kind \in {"narrow", "wide"}

\* What a menu goes through: none; one that the hub client shows; one that the
\* global client is asked to show, shows, and closes.
NoMenu ==
  /\ ~isOpen /\ wheel = 0 /\ globalMenu \in {"none", "bar"} /\ subscriptions = 0
  /\ OnlyDims(up) /\ ~EndsDimmed(up)
  /\ OnlyLayout(down) \/ (narrowHub /\ Len(down) # 0 /\ Closing(down, 1))
HubShows ==
  /\ isOpen /\ ~narrowHub /\ wheel = 1 /\ globalMenu \in {"none", "bar"} /\ subscriptions = 0
  /\ OnlyDims(up) /\ EndsDimmed(up) /\ OnlyLayout(down)
AsksToShow ==
  /\ isOpen /\ narrowHub /\ wheel = 1 /\ globalMenu \in {"none", "bar"} /\ subscriptions = 0
  /\ up # <<>> /\ up[Len(up)] = menus!Message("open", target)
  /\ \A i \in 1 .. Len(up) - 1 : up[i].kind # "open"
  /\ IF Len(up) = 1 THEN ~dimmed ELSE up[Len(up) - 1].kind # "show"
  /\ OnlyLayout(down)
GlobalShows ==
  /\ isOpen /\ narrowHub /\ wheel = 1 /\ globalMenu = target /\ subscriptions = 1
  /\ up = <<>> /\ ~dimmed /\ OnlyLayout(down)
GlobalClosed ==
  /\ isOpen /\ narrowHub /\ wheel = 1 /\ globalMenu \in {"none", "bar"} /\ subscriptions = 0
  /\ up = <<>> /\ ~dimmed
  /\ \E g \in 1 .. Len(down) : Closing(down, g) \/ Choosing(down, g)

MenusInv ==
  /\ MenusTypes
  /\ ~muddled => ~mistaken /\ (NoMenu \/ HubShows \/ AsksToShow \/ GlobalShows \/ GlobalClosed)

LEMMA MenusNames == "none" \notin Targets /\ "bar" \notin Targets /\ MaxOpens \in Nat
  BY NamesAssumption, BoundsAssumption DEF NamesAssumption, BoundsAssumption

\* The types stay what they are.
LEMMA MenusOpenTypes ==
  ASSUME MenusTypes, NEW t \in Targets, menus!Open(t), press' \in Targets \cup {"none"}
  PROVE  MenusTypes'
<1> DEFINE m == menus!Message(IF narrowHub THEN "open" ELSE "show", t)
<1>1. m \in UpMessage
  BY DEF menus!Message, UpMessage
<1>2. up' = Append(up, m) /\ isOpen' = TRUE /\ target' = t /\ wheel' = wheel + 1
  BY DEF menus!Open, menus!DisableWheelScroll
<1> HIDE DEF m
<1>3. up' \in Seq(UpMessage)
  BY <1>1, <1>2 DEF MenusTypes
<1>4. opened' \in 0 .. MaxOpens /\ wheel' \in Nat /\ wheel' <= opened' /\ wheel' # 0
  BY <1>2, MenusNames DEF menus!Open, MenusTypes
<1>5. muddled' \in BOOLEAN
  BY DEF menus!Open, MenusTypes
<1>6. UNCHANGED <<narrowHub, globalMenu, subscriptions, dimmed, narrow, down, mistaken>>
  BY DEF menus!Open, menus!globalVars
<1> QED
  BY <1>2, <1>3, <1>4, <1>5, <1>6, MenusNames DEF MenusTypes

\* A menu is opened when none was: the two clients are about to agree.
LEMMA MenusOpenStep ==
  ASSUME MenusInv, NEW t \in Targets, menus!Open(t), press' \in Targets \cup {"none"}
  PROVE  MenusInv'
<1>1. MenusTypes'
  BY MenusOpenTypes DEF MenusInv
<1> SUFFICES ASSUME ~muddled' PROVE ~mistaken' /\ (HubShows' \/ AsksToShow')
  BY <1>1 DEF MenusInv
<1>2. /\ ~muddled /\ ~isOpen /\ globalMenu = "none" /\ down = <<>> /\ muddled \in BOOLEAN
      /\ up' = Append(up, menus!Message(IF narrowHub THEN "open" ELSE "show", t))
      /\ isOpen' = TRUE /\ target' = t /\ wheel' = wheel + 1
      /\ UNCHANGED <<narrowHub, globalMenu, subscriptions, dimmed, down, mistaken>>
  BY DEF menus!Open, menus!DisableWheelScroll, menus!globalVars, menus!NoTarget, MenusInv, MenusTypes
<1>3. NoMenu /\ ~mistaken
  BY <1>2 DEF MenusInv, HubShows, AsksToShow, GlobalShows, GlobalClosed
<1>4. up \in Seq(UpMessage) /\ Len(up) \in Nat /\ narrowHub \in BOOLEAN /\ wheel = 0
  BY <1>3 DEF MenusInv, MenusTypes, NoMenu
<1>5. Len(down') = 0 /\ OnlyLayout(down')
  BY <1>2 DEF OnlyLayout
<1>6. CASE narrowHub
  <2> DEFINE m == menus!Message("open", t)
  <2>1. up' = Append(up, m)
    BY <1>2, <1>6
  <2> HIDE DEF m
  <2>2. /\ Len(up') = Len(up) + 1 /\ up' # <<>> /\ up'[Len(up')] = m
        /\ \A i \in 1 .. Len(up) : up'[i] = up[i]
    BY <1>4, <2>1
  <2>3. \A i \in 1 .. Len(up') - 1 : up'[i].kind # "open"
    BY <1>3, <1>4, <2>2 DEF NoMenu, OnlyDims
  <2>4. IF Len(up') = 1 THEN ~dimmed ELSE up'[Len(up') - 1].kind # "show"
    BY <1>3, <1>4, <2>2 DEF NoMenu, EndsDimmed
  <2> QED
    BY <1>2, <1>3, <1>4, <1>5, <1>6, <2>2, <2>3, <2>4 DEF AsksToShow, NoMenu, m
<1>7. CASE ~narrowHub
  <2> DEFINE m == menus!Message("show", t)
  <2>1. up' = Append(up, m) /\ m.kind = "show"
    BY <1>2, <1>7 DEF menus!Message
  <2> HIDE DEF m
  <2>2. /\ Len(up') = Len(up) + 1 /\ up' # <<>> /\ up'[Len(up')] = m
        /\ \A i \in 1 .. Len(up) : up'[i] = up[i]
    BY <1>4, <2>1
  <2>3. OnlyDims(up)' /\ EndsDimmed(up)'
    BY <1>3, <1>4, <2>1, <2>2 DEF NoMenu, OnlyDims, EndsDimmed
  <2> QED
    BY <1>2, <1>3, <1>4, <1>5, <1>7, <2>2, <2>3 DEF HubShows, NoMenu, OnlyDims, EndsDimmed
<1> QED
  BY <1>2, <1>3, <1>4, <1>6, <1>7

\* A hub client that closes its menu lights up the bar that it dimmed.
LEMMA MenusCloseTypes ==
  ASSUME MenusTypes, menus!Close,
         press' \in Targets \cup {"none"}, narrowHub' \in BOOLEAN,
         globalMenu' \in Targets \cup {"none", "bar"}, dimmed' \in BOOLEAN, narrow' \in BOOLEAN,
         muddled' \in BOOLEAN, mistaken' \in BOOLEAN, subscriptions' \in Nat,
         UNCHANGED opened, down' \in Seq(DownMessage)
  PROVE  MenusTypes'
<1> DEFINE u == IF narrowHub THEN <<>> ELSE <<menus!Message("hide", "none")>>
<1>1. isOpen' = FALSE /\ target' = "none" /\ wheel' = (IF isOpen THEN wheel - 1 ELSE wheel) /\ up' = up \o u
  BY DEF menus!Close, menus!EnableWheelScroll, menus!Undim, menus!NoTarget
<1>2. u \in Seq(UpMessage)
  <2>1. menus!Message("hide", "none") \in UpMessage
    BY DEF menus!Message, UpMessage
  <2> QED
    BY <2>1
<1> HIDE DEF u
<1>3. up' \in Seq(UpMessage)
  BY <1>1, <1>2 DEF MenusTypes
<1>4. wheel' \in Nat /\ wheel' <= opened'
  BY <1>1, MenusNames DEF MenusTypes
<1> QED
  BY <1>1, <1>3, <1>4, MenusNames DEF MenusTypes

LEMMA MenusSelectStep ==
  ASSUME MenusInv, menus!SelectOrDismiss
  PROVE  MenusInv'
<1>1. /\ isOpen /\ ~narrowHub /\ menus!Close
      /\ UNCHANGED <<press, narrowHub, globalMenu, subscriptions, dimmed, narrow, down, muddled, mistaken, opened>>
  BY DEF menus!SelectOrDismiss, menus!globalVars
<1>2. MenusTypes'
  BY <1>1, MenusCloseTypes DEF MenusInv, MenusTypes
<1> SUFFICES ASSUME ~muddled PROVE ~mistaken' /\ NoMenu'
  BY <1>1, <1>2 DEF MenusInv
<1>3. HubShows /\ ~mistaken /\ up \in Seq(UpMessage) /\ Len(up) \in Nat
  BY <1>1 DEF MenusInv, MenusTypes, NoMenu, AsksToShow, GlobalShows, GlobalClosed
<1> DEFINE m == menus!Message("hide", "none")
<1>4. /\ isOpen' = FALSE /\ wheel' = wheel - 1 /\ up' = Append(up, m)
  <2>1. up' = up \o <<m>>
    BY <1>1 DEF menus!Close, menus!Undim, menus!NoTarget
  <2> HIDE DEF m
  <2>2. up \o <<m>> = Append(up, m)
    BY <1>3
  <2> QED
    BY <1>1, <2>1, <2>2 DEF menus!Close, menus!EnableWheelScroll
<1>5. m.kind = "hide"
  BY DEF menus!Message
<1> HIDE DEF m
<1>6. /\ Len(up') = Len(up) + 1 /\ up' # <<>> /\ up'[Len(up')] = m
      /\ \A i \in 1 .. Len(up) : up'[i] = up[i]
  BY <1>3, <1>4
<1>7. OnlyDims(up)' /\ ~EndsDimmed(up)'
  BY <1>3, <1>5, <1>6 DEF HubShows, OnlyDims, EndsDimmed
<1> QED
  BY <1>1, <1>3, <1>4, <1>7 DEF NoMenu, HubShows, OnlyLayout, Closing

\* The rest of a queue is of the same kind.
LEMMA DownTail ==
  ASSUME down \in Seq(DownMessage), down # <<>>, down' = Tail(down)
  PROVE  /\ down' \in Seq(DownMessage) /\ Len(down) \in Nat \ {0} /\ Len(down') = Len(down) - 1
         /\ \A i \in 1 .. Len(down') : down'[i] = down[i + 1]
         /\ Head(down) = down[1] /\ Head(down) \in DownMessage
  OBVIOUS

LEMMA UpTail ==
  ASSUME up \in Seq(UpMessage), up # <<>>, up' = Tail(up)
  PROVE  /\ up' \in Seq(UpMessage) /\ Len(up) \in Nat \ {0} /\ Len(up') = Len(up) - 1
         /\ \A i \in 1 .. Len(up') : up'[i] = up[i + 1]
         /\ (up' = <<>> <=> Len(up) = 1)
         /\ Head(up) = up[1] /\ Head(up) \in UpMessage
<1>1. /\ up' \in Seq(UpMessage) /\ Len(up) \in Nat \ {0} /\ Len(up') = Len(up) - 1
      /\ \A i \in 1 .. Len(up') : up'[i] = up[i + 1]
      /\ Head(up) = up[1] /\ Head(up) \in UpMessage
  OBVIOUS
<1>2. up' = <<>> <=> Len(up') = 0
  BY <1>1, EmptySeq
<1> QED
  BY <1>1, <1>2

\* What the global client says reaches the hub client.
LEMMA MenusHubStep ==
  ASSUME MenusInv, menus!HubReceives
  PROVE  MenusInv'
<1> DEFINE m == Head(down)
<1>1. /\ down # <<>> /\ down' = Tail(down)
      /\ UNCHANGED <<press, globalMenu, subscriptions, dimmed, narrow, opened>>
  BY DEF menus!HubReceives, menus!globalVars
<1>2. /\ down \in Seq(DownMessage) /\ up \in Seq(UpMessage)
      /\ down' \in Seq(DownMessage) /\ Len(down) \in Nat \ {0} /\ Len(down') = Len(down) - 1
      /\ \A i \in 1 .. Len(down') : down'[i] = down[i + 1]
      /\ m = down[1] /\ m \in DownMessage
  BY <1>1, DownTail DEF MenusInv, MenusTypes
<1> HIDE DEF m
<1>3. CASE menus!Close /\ UNCHANGED <<narrowHub, muddled>> /\ mistaken' \in BOOLEAN
           /\ \/ m.kind = "close" /\ mistaken' = mistaken
              \/ m.kind = "select" /\ isOpen /\ mistaken' = (mistaken \/ target # m.on)
  <2>1. MenusTypes'
    BY <1>1, <1>2, <1>3, MenusCloseTypes DEF MenusInv, MenusTypes
  <2> SUFFICES ASSUME ~muddled PROVE ~mistaken' /\ NoMenu'
    BY <1>3, <2>1 DEF MenusInv
  <2>2. isOpen' = FALSE /\ wheel' = (IF isOpen THEN wheel - 1 ELSE wheel)
    BY <1>3 DEF menus!Close, menus!EnableWheelScroll
  <2>3. (NoMenu \/ GlobalClosed) /\ narrowHub /\ ~mistaken
    <3>1. ~OnlyLayout(down)
      BY <1>2, <1>3 DEF OnlyLayout
    <3> QED
      BY <1>1, <3>1 DEF MenusInv, NoMenu, HubShows, AsksToShow, GlobalShows, GlobalClosed
  <2>4. up' = up
    <3>1. up' = up \o <<>>
      BY <1>3, <2>3 DEF menus!Close, menus!Undim
    <3> QED
      BY <1>2, <3>1
  <2>5. /\ OnlyLayout(down') \/ (narrowHub /\ Len(down') # 0 /\ Closing(down', 1))
        /\ ~mistaken'
    <3>1. CASE NoMenu
      <4>1. m.kind = "close" /\ mistaken' = mistaken /\ Closing(down, 1)
        BY <1>2, <1>3, <3>1 DEF NoMenu, OnlyLayout
      <4> QED
        BY SMTT(30), <1>2, <2>3, <4>1 DEF Closing, OnlyLayout
    <3>2. CASE GlobalClosed
      <4>1. PICK g \in 1 .. Len(down) : Closing(down, g) \/ Choosing(down, g)
        BY <3>2 DEF GlobalClosed
      <4>2. CASE Closing(down, g)
        <5>1. g = 1 /\ m.kind = "close"
          BY <1>2, <1>3, <4>2 DEF Closing
        <5> QED
          BY <1>2, <1>3, <2>3, <4>2, <5>1 DEF Closing, OnlyLayout
      <4>3. CASE Choosing(down, g)
        <5>1. g = 1 /\ m.kind = "select" /\ m.on = target /\ Len(down) > 1
          BY <1>2, <1>3, <4>3 DEF Choosing
        <5>2. Len(down') # 0 /\ down'[1].kind = "close"
          <6>1. down[1 + 1].kind = "close"
            BY <4>3, <5>1 DEF Choosing
          <6>2. Len(down') # 0 /\ down'[1] = down[1 + 1]
            BY <1>2, <5>1
          <6> QED
            BY <6>1, <6>2
        <5>3. ASSUME NEW i \in 1 .. Len(down'), i # 1 PROVE down'[i].kind \in {"narrow", "wide"}
          <6>1. /\ i + 1 \in 1 .. Len(down) /\ i + 1 # g /\ i + 1 # g + 1
                /\ down'[i] = down[i + 1]
            BY <1>2, <5>1, <5>3
          <6> QED
            BY <4>3, <6>1 DEF Choosing
        <5>4. Closing(down', 1)
          BY <5>2, <5>3 DEF Closing
        <5> QED
          BY <1>3, <2>3, <5>1, <5>2, <5>4
      <4> QED
        BY <4>1, <4>2, <4>3
    <3> QED
      BY <2>3, <3>1, <3>2
  <2>6. OnlyDims(up)' /\ ~EndsDimmed(up)'
    BY <1>1, <2>3, <2>4 DEF NoMenu, GlobalClosed, OnlyDims, EndsDimmed
  <2>7. wheel' = 0 /\ globalMenu' \in {"none", "bar"} /\ subscriptions' = 0
    BY <1>1, <2>2, <2>3 DEF NoMenu, GlobalClosed
  <2> QED
    BY <1>3, <2>2, <2>5, <2>6, <2>7 DEF NoMenu, OnlyLayout, Closing
<1>4. CASE m.kind = "select" /\ ~isOpen /\ UNCHANGED <<isOpen, target, wheel, up, narrowHub, muddled, mistaken>>
  <2>1. MenusTypes'
    BY <1>1, <1>2, <1>4 DEF MenusInv, MenusTypes
  <2>2. muddled
    BY <1>1, <1>2, <1>4 DEF MenusInv, NoMenu, HubShows, AsksToShow, GlobalShows, GlobalClosed, OnlyLayout, Closing
  <2> QED
    BY <1>4, <2>1, <2>2 DEF MenusInv
<1>5. CASE /\ m.kind \in {"narrow", "wide"} /\ narrowHub' = (m.kind = "narrow")
           /\ muddled' = (muddled \/ isOpen) /\ UNCHANGED <<isOpen, target, wheel, up, mistaken>>
  <2>1. MenusTypes'
    BY <1>1, <1>2, <1>5 DEF MenusInv, MenusTypes
  <2> SUFFICES ASSUME ~muddled' PROVE ~mistaken' /\ NoMenu'
    BY <2>1 DEF MenusInv
  <2>2. ~muddled /\ ~isOpen
    BY <1>5 DEF MenusInv, MenusTypes
  <2>3. NoMenu /\ ~mistaken
    BY <2>2 DEF MenusInv, HubShows, AsksToShow, GlobalShows, GlobalClosed
  <2>4. OnlyLayout(down')
    BY <1>2, <1>5, <2>3 DEF NoMenu, OnlyLayout, Closing
  <2> QED
    BY <1>1, <1>5, <2>3, <2>4 DEF NoMenu, OnlyDims, EndsDimmed, OnlyLayout
<1>6. mistaken \in BOOLEAN
  BY DEF MenusInv, MenusTypes
<1> QED
  BY <1>3, <1>4, <1>5, <1>6 DEF menus!HubReceives, m

\* What the hub client says reaches the global client.
LEMMA MenusGlobalStep ==
  ASSUME MenusInv, menus!GlobalReceives
  PROVE  MenusInv'
<1> DEFINE m == Head(up)
<1>1. /\ up # <<>> /\ up' = Tail(up)
      /\ UNCHANGED <<isOpen, target, press, wheel, narrowHub, narrow, down, mistaken, opened>>
  BY DEF menus!GlobalReceives, menus!hubVars
<1>2. /\ up \in Seq(UpMessage)
      /\ up' \in Seq(UpMessage) /\ Len(up) \in Nat \ {0} /\ Len(up') = Len(up) - 1
      /\ \A i \in 1 .. Len(up') : up'[i] = up[i + 1]
      /\ (up' = <<>> <=> Len(up) = 1)
      /\ m = up[1] /\ m \in UpMessage
  BY <1>1, UpTail DEF MenusInv, MenusTypes
<1>3. \/ /\ m.kind = "open" /\ globalMenu' = m.on /\ subscriptions' = subscriptions + 1
         /\ muddled' = (muddled \/ globalMenu # "none") /\ UNCHANGED dimmed
      \/ /\ m.kind \in {"show", "hide"} /\ dimmed' = (m.kind = "show")
         /\ UNCHANGED <<globalMenu, subscriptions, muddled>>
  BY DEF menus!GlobalReceives, menus!NoTarget
<1> HIDE DEF m
<1>4. MenusTypes'
  <2>1. m.on \in Targets \cup {"none"}
    BY <1>2 DEF UpMessage
  <2>2. subscriptions' \in Nat /\ globalMenu' \in Targets \cup {"none", "bar"}
    BY <1>3, <2>1 DEF MenusInv, MenusTypes
  <2>3. muddled' \in BOOLEAN
    BY <1>3 DEF MenusInv, MenusTypes
  <2>4. dimmed' \in BOOLEAN
    BY <1>3 DEF MenusInv, MenusTypes
  <2> QED
    BY <1>1, <1>2, <2>2, <2>3, <2>4 DEF MenusInv, MenusTypes
<1> SUFFICES ASSUME ~muddled'
             PROVE  ~mistaken' /\ (NoMenu \/ HubShows \/ AsksToShow \/ GlobalShows \/ GlobalClosed)'
  BY <1>4 DEF MenusInv
<1>5. ~muddled /\ ~mistaken
  BY <1>1, <1>3 DEF MenusInv, MenusTypes
<1>6. NoMenu \/ HubShows \/ AsksToShow
  BY <1>1, <1>5 DEF MenusInv, GlobalShows, GlobalClosed
<1>7. CASE m.kind = "open"
  <2>1. AsksToShow /\ Len(up) = 1
    BY <1>2, <1>6, <1>7 DEF NoMenu, HubShows, AsksToShow, OnlyDims
  <2>2. m.on = target
    BY <1>2, <2>1 DEF AsksToShow, menus!Message
  <2>3. up' = <<>> /\ globalMenu' = target /\ subscriptions' = 1 /\ ~dimmed'
    BY <1>2, <1>3, <1>7, <2>1, <2>2 DEF AsksToShow
  <2> QED
    BY <1>1, <1>5, <2>1, <2>3 DEF AsksToShow, GlobalShows, OnlyLayout
<1>8. CASE m.kind # "open"
  <2>1. dimmed' = (m.kind = "show") /\ UNCHANGED <<globalMenu, subscriptions, muddled>>
    BY <1>3, <1>8
  <2>2. ASSUME OnlyDims(up) PROVE OnlyDims(up)' /\ (EndsDimmed(up)' <=> EndsDimmed(up))
    <3>1. OnlyDims(up)'
      BY <1>2, <2>2 DEF OnlyDims
    <3>2. EndsDimmed(up) = (up[Len(up)].kind = "show")
      BY <1>1 DEF EndsDimmed
    <3>3. CASE Len(up) = 1
      BY <1>2, <2>1, <3>1, <3>2, <3>3 DEF EndsDimmed
    <3>4. CASE Len(up) # 1
      <4>1. up' # <<>> /\ up'[Len(up')] = up[Len(up)]
        BY <1>2, <3>4
      <4> QED
        BY <3>1, <3>2, <4>1 DEF EndsDimmed
    <3> QED
      BY <3>3, <3>4
  <2>3. CASE NoMenu
    BY <1>1, <1>5, <2>1, <2>2, <2>3 DEF NoMenu, OnlyLayout, Closing
  <2>4. CASE HubShows
    BY <1>1, <1>5, <2>1, <2>2, <2>4 DEF HubShows, OnlyLayout
  <2>5. CASE AsksToShow
    <3>1. Len(up) > 1
      BY <1>1, <1>2, <1>8, <2>5 DEF AsksToShow, menus!Message
    <3>2. up' # <<>> /\ up'[Len(up')] = up[Len(up)]
      BY <1>2, <3>1
    <3>4. \A i \in 1 .. Len(up') - 1 : up'[i].kind # "open"
      <4> SUFFICES ASSUME NEW i \in 1 .. Len(up') - 1 PROVE up'[i].kind # "open"
        OBVIOUS
      <4>1. up'[i] = up[i + 1] /\ i + 1 \in 1 .. Len(up) - 1
        BY <1>2, <3>1
      <4> QED
        BY <2>5, <4>1 DEF AsksToShow
    <3>3. IF Len(up') = 1 THEN ~dimmed' ELSE up'[Len(up') - 1].kind # "show"
      <4>1. CASE Len(up) = 2
        <5>1. up[1].kind # "show" /\ Len(up') = 1
          BY <1>2, <2>5, <4>1 DEF AsksToShow
        <5> QED
          BY <1>2, <2>1, <5>1
      <4>2. CASE Len(up) # 2
        <5>1. Len(up') # 1 /\ up'[Len(up') - 1] = up[Len(up) - 1]
          BY <1>2, <3>1, <4>2
        <5> QED
          BY <2>5, <3>1, <5>1 DEF AsksToShow
      <4> QED
        BY <4>1, <4>2
    <3> QED
      BY <1>1, <1>5, <2>1, <2>5, <3>2, <3>3, <3>4 DEF AsksToShow, OnlyLayout, menus!Message
  <2> QED
    BY <1>6, <2>3, <2>4, <2>5
<1> QED
  BY <1>7, <1>8

\* One message more.
LEMMA OneMore ==
  ASSUME NEW S, NEW s \in Seq(S), NEW t \in Seq(S), Len(t) = 1
  PROVE  /\ Len(s \o t) = Len(s) + 1
         /\ (s \o t)[Len(s) + 1] = t[1]
         /\ \A i \in 1 .. Len(s) : (s \o t)[i] = s[i]
<1>1. /\ Len(s) \in Nat /\ Len(s \o t) = Len(s) + Len(t)
      /\ \A i \in 1 .. Len(s) + Len(t) : (s \o t)[i] = IF i <= Len(s) THEN s[i] ELSE t[i - Len(s)]
  BY ConcatProperties, LenProperties
<1> QED
  BY <1>1

\* The global client closes a menu and tells the hub client, if it is its menu.
LEMMA MenusGlobalClose ==
  ASSUME MenusInv, menus!Select \/ menus!Dismiss
  PROVE  MenusInv'
<1>2. down \in Seq(DownMessage) /\ Len(down) \in Nat /\ subscriptions \in Nat
  BY DEF MenusInv, MenusTypes
<1>11. PICK select, close : /\ select = menus!Message("select", globalMenu)
                            /\ close = menus!Message("close", "none")
  OBVIOUS
<1>12. PICK closes : closes = [i \in 1 .. subscriptions |-> close]
  OBVIOUS
<1>1. PICK chosen_ :
        /\ chosen_ = <<>> \/ (chosen_ = <<select>> /\ globalMenu # "bar")
        /\ globalMenu # "none" /\ globalMenu' = "none" /\ subscriptions' = 0
        /\ down' = down \o chosen_ \o closes
        /\ UNCHANGED <<isOpen, target, press, wheel, narrowHub, dimmed, narrow, up, muddled, mistaken, opened>>
  BY <1>11, <1>12
     DEF menus!Select, menus!Dismiss, menus!GlobalClose, menus!hubVars, menus!NoTarget, menus!Bar
<1>3. close \in DownMessage /\ (globalMenu # "bar" => select \in DownMessage)
      /\ close.kind = "close" /\ select.kind = "select" /\ select.on = globalMenu
  BY <1>1, <1>11 DEF menus!Message, DownMessage, MenusInv, MenusTypes
<1>4. closes \in Seq(DownMessage) /\ Len(closes) = subscriptions /\ \A i \in 1 .. subscriptions : closes[i] = close
  BY <1>2, <1>3, <1>12
<1>5. chosen_ \in Seq(DownMessage) /\ Len(chosen_) \in Nat
  <2>1. CASE chosen_ = <<>>
    BY <2>1
  <2>2. CASE chosen_ = <<select>> /\ globalMenu # "bar"
    BY <1>3, <2>2
  <2> QED
    BY <1>1, <2>1, <2>2
<1>6. down' \in Seq(DownMessage)
  BY <1>1, <1>2, <1>4, <1>5
<1>7. MenusTypes'
  BY <1>1, <1>6 DEF MenusInv, MenusTypes
<1> SUFFICES ASSUME ~muddled
             PROVE  ~mistaken' /\ (NoMenu \/ HubShows \/ AsksToShow \/ GlobalShows \/ GlobalClosed)'
  BY <1>1, <1>7 DEF MenusInv
<1>8. ~mistaken'
  BY <1>1 DEF MenusInv
<1>9. CASE GlobalShows
  <2>1. globalMenu = target /\ subscriptions = 1 /\ OnlyLayout(down)
    BY <1>9 DEF GlobalShows
  <2>4. PICK n \in Nat : n = Len(down)
    BY <1>2
  <2>2. CASE chosen_ = <<>>
    <3>1. Len(down') = n + 1 /\ down'[n + 1] = close /\ \A i \in 1 .. n : down'[i] = down[i]
      <4>1. down \o chosen_ = down
        BY <1>2, <2>2
      <4>2. down' = down \o closes
        BY <1>1, <4>1
      <4>3. Len(closes) = 1 /\ closes[1] = close
        BY <1>4, <2>1
      <4> QED
        BY <1>2, <1>4, <2>4, <4>2, <4>3, OneMore
    <3>2. Closing(down, n + 1)'
      <4>1. \A i \in 1 .. Len(down') : i # n + 1 => down'[i].kind \in {"narrow", "wide"}
        BY <2>1, <2>4, <3>1 DEF OnlyLayout
      <4> QED
        BY <1>3, <2>4, <3>1, <4>1 DEF Closing
    <3> QED
      BY <1>1, <1>8, <1>9, <2>4, <3>1, <3>2 DEF GlobalShows, GlobalClosed
  <2>3. CASE chosen_ = <<select>>
    <3>1. /\ Len(down') = n + 2 /\ down'[n + 1] = select /\ down'[n + 2] = close
          /\ \A i \in 1 .. n : down'[i] = down[i]
      <4>1. PICK said : said = down \o chosen_
        OBVIOUS
      <4>2. /\ said \in Seq(DownMessage) /\ Len(said) = n + 1 /\ said[n + 1] = select
            /\ \A i \in 1 .. n : said[i] = down[i]
        BY <1>2, <1>5, <2>3, <2>4, <4>1
      <4>3. down' = said \o closes
        BY <1>1, <4>1
      <4>4. Len(closes) = 1 /\ closes[1] = close
        BY <1>4, <2>1
      <4>5. /\ Len(down') = n + 2 /\ down'[n + 2] = close
            /\ \A i \in 1 .. n + 1 : down'[i] = said[i]
        BY <1>4, <2>4, <4>2, <4>3, <4>4, OneMore
      <4> QED
        BY <2>4, <4>2, <4>5
    <3>2. Choosing(down, n + 1)'
      <4>1. \A i \in 1 .. Len(down') :
              i # n + 1 /\ i # n + 2 => down'[i].kind \in {"narrow", "wide"}
        BY <2>1, <2>4, <3>1 DEF OnlyLayout
      <4> QED
        BY <1>1, <1>3, <2>1, <2>4, <3>1, <4>1 DEF Choosing
    <3> QED
      BY <1>1, <1>8, <1>9, <2>4, <3>1, <3>2 DEF GlobalShows, GlobalClosed
  <2> QED
    BY <1>1, <2>2, <2>3
<1>10. CASE NoMenu \/ HubShows \/ AsksToShow \/ GlobalClosed
  <2>1. globalMenu = "bar" /\ subscriptions = 0
    BY <1>1, <1>10 DEF NoMenu, HubShows, AsksToShow, GlobalClosed
  <2>2. UNCHANGED <<down, subscriptions>>
    <3>1. chosen_ = <<>> /\ closes = <<>>
      BY <1>1, <1>4, <2>1, EmptySeq
    <3> QED
      BY <1>1, <1>2, <2>1, <3>1
  <2> QED
    BY <1>1, <1>8, <1>10, <2>2
       DEF NoMenu, HubShows, AsksToShow, GlobalClosed, OnlyDims, EndsDimmed, OnlyLayout, Closing, Choosing
<1> QED
  BY <1>9, <1>10 DEF MenusInv

\* A change of the layout is told to the hub client.
LEMMA MenusResizeStep ==
  ASSUME MenusInv, menus!UpdateIsMobile
  PROVE  MenusInv'
<1>1. PICK m : m = menus!Message(IF narrow' THEN "narrow" ELSE "wide", "none")
  OBVIOUS
<1>2. /\ narrow' = ~narrow /\ down' = Append(down, m)
      /\ UNCHANGED <<isOpen, target, press, wheel, narrowHub, globalMenu, subscriptions, dimmed, up,
                     muddled, mistaken, opened>>
  BY <1>1 DEF menus!UpdateIsMobile, menus!hubVars, menus!NoTarget
<1>3. m \in DownMessage /\ m.kind \in {"narrow", "wide"}
  BY <1>1 DEF menus!Message, DownMessage
<1>4. down \in Seq(DownMessage) /\ narrow \in BOOLEAN
  BY DEF MenusInv, MenusTypes
<1>5. PICK n \in Nat : n = Len(down)
  BY <1>4
<1>6. /\ down' \in Seq(DownMessage) /\ Len(down') = n + 1 /\ down'[n + 1] = m
      /\ \A i \in 1 .. n : down'[i] = down[i]
  BY <1>2, <1>3, <1>4, <1>5
<1>7. MenusTypes'
  BY <1>2, <1>4, <1>6 DEF MenusInv, MenusTypes
<1> SUFFICES ASSUME ~muddled
             PROVE  ~mistaken' /\ (NoMenu \/ HubShows \/ AsksToShow \/ GlobalShows \/ GlobalClosed)'
  BY <1>2, <1>7 DEF MenusInv
<1>8. ~mistaken'
  BY <1>2 DEF MenusInv
<1>9. ASSUME OnlyLayout(down) PROVE OnlyLayout(down)'
  BY <1>3, <1>5, <1>6, <1>9 DEF OnlyLayout
<1>10. ASSUME NEW g \in 1 .. n, Closing(down, g) PROVE Closing(down', g)
  BY <1>3, <1>5, <1>6, <1>10 DEF Closing
<1>11. ASSUME NEW g \in 1 .. n, Choosing(down, g) PROVE Choosing(down, g)'
  <2>1. /\ g < n /\ down[g].kind = "select" /\ down[g].on = target /\ down[g + 1].kind = "close"
        /\ \A i \in 1 .. n : i # g /\ i # g + 1 => down[i].kind \in {"narrow", "wide"}
    BY <1>5, <1>11 DEF Choosing
  <2>2. /\ g < Len(down') /\ down'[g] = down[g] /\ down'[g + 1] = down[g + 1] /\ target' = target
    BY <1>2, <1>5, <1>6, <2>1
  <2>3. ASSUME NEW i \in 1 .. Len(down'), i # g, i # g + 1 PROVE down'[i].kind \in {"narrow", "wide"}
    <3>1. CASE i \in 1 .. n
      BY <1>6, <2>1, <2>3, <3>1
    <3>2. CASE i \notin 1 .. n
      BY <1>3, <1>5, <1>6, <2>3, <3>2
    <3> QED
      BY <3>1, <3>2
  <2> QED
    BY <2>1, <2>2, <2>3 DEF Choosing
<1>12. OnlyDims(up)' = OnlyDims(up) /\ EndsDimmed(up)' = EndsDimmed(up)
  BY <1>2 DEF OnlyDims, EndsDimmed
<1>13. CASE NoMenu
  <2>1. OnlyLayout(down)' \/ (narrowHub /\ Len(down') # 0 /\ Closing(down', 1))
    <3>1. CASE OnlyLayout(down)
      BY <1>9, <3>1
    <3>2. CASE narrowHub /\ Len(down) # 0 /\ Closing(down, 1)
      <4>1. 1 \in 1 .. n
        BY <1>5, <3>2
      <4> QED
        BY <1>6, <1>10, <3>2, <4>1
    <3> QED
      BY <1>13, <3>1, <3>2 DEF NoMenu
  <2>2. Closing(down, 1)' = Closing(down', 1)
    BY DEF Closing
  <2> QED
    BY <1>2, <1>8, <1>12, <1>13, <2>1, <2>2 DEF NoMenu
<1>14. CASE HubShows
  BY <1>2, <1>8, <1>9, <1>12, <1>14 DEF HubShows
<1>15. CASE AsksToShow
  <2>1. OnlyLayout(down)'
    BY <1>9, <1>15 DEF AsksToShow
  <2> QED
    BY <1>2, <1>8, <1>15, <2>1 DEF AsksToShow, menus!Message
<1>16. CASE GlobalShows
  <2>1. OnlyLayout(down)'
    BY <1>9, <1>16 DEF GlobalShows
  <2> QED
    BY <1>2, <1>8, <1>16, <2>1 DEF GlobalShows
<1>17. CASE GlobalClosed
  <2>1. PICK g \in 1 .. n : Closing(down, g) \/ Choosing(down, g)
    BY <1>5, <1>17 DEF GlobalClosed
  <2>2. g \in 1 .. Len(down') /\ (Closing(down', g) \/ Choosing(down, g)')
    BY <1>5, <1>6, <1>10, <1>11, <2>1
  <2>3. (\E h \in 1 .. Len(down) : Closing(down, h) \/ Choosing(down, h))'
    <3>1. Choosing(down, g)' <=> /\ g < Len(down') /\ down'[g].kind = "select" /\ down'[g].on = target'
                                /\ down'[g + 1].kind = "close"
                                /\ \A i \in 1 .. Len(down') : i # g /\ i # g + 1 => down'[i].kind \in {"narrow", "wide"}
      BY DEF Choosing
    <3> QED
      BY <2>2, <3>1 DEF Closing, Choosing
  <2> QED
    BY <1>2, <1>8, <1>17, <2>3 DEF GlobalClosed
<1> QED
  BY <1>13, <1>14, <1>15, <1>16, <1>17 DEF MenusInv

\* What leaves the messages and the menus alone.
LEMMA MenusQuiet ==
  ASSUME MenusInv, UNCHANGED <<isOpen, target, wheel, narrowHub, subscriptions, dimmed, narrow, up, down,
                               muddled, mistaken>>,
         press' \in Targets \cup {"none"}, opened' \in 0 .. MaxOpens, opened' >= opened,
         globalMenu' = globalMenu \/ (globalMenu = "none" /\ globalMenu' = "bar")
  PROVE  MenusInv'
<1>1. MenusTypes'
  BY MenusNames DEF MenusInv, MenusTypes
<1> SUFFICES ASSUME ~muddled
             PROVE  ~mistaken' /\ (NoMenu \/ HubShows \/ AsksToShow \/ GlobalShows \/ GlobalClosed)'
  BY <1>1 DEF MenusInv
<1>2. ~mistaken'
  BY DEF MenusInv
<1>3. OnlyDims(up)' = OnlyDims(up) /\ EndsDimmed(up)' = EndsDimmed(up) /\ OnlyLayout(down)' = OnlyLayout(down)
  BY DEF OnlyDims, EndsDimmed, OnlyLayout
<1>4. CASE NoMenu
  BY <1>2, <1>3, <1>4 DEF NoMenu, Closing
<1>5. CASE HubShows
  BY <1>2, <1>3, <1>5 DEF HubShows
<1>6. CASE AsksToShow
  BY <1>2, <1>3, <1>6 DEF AsksToShow, menus!Message
<1>7. CASE GlobalShows
  BY <1>2, <1>3, <1>7, MenusNames DEF GlobalShows, MenusInv, MenusTypes
<1>8. CASE GlobalClosed
  BY <1>2, <1>3, <1>8 DEF GlobalClosed, Closing, Choosing
<1> QED
  BY <1>4, <1>5, <1>6, <1>7, <1>8 DEF MenusInv

LEMMA MenusStep ==
  ASSUME MenusInv, menus!MenusNext \/ UNCHANGED menusVars
  PROVE  MenusInv'
<1>1. press \in Targets \cup {"none"} /\ opened \in 0 .. MaxOpens /\ globalMenu \in Targets \cup {"none", "bar"}
  BY DEF MenusInv, MenusTypes
<1>2. ASSUME NEW t \in Targets, menus!OpenMenu(t) PROVE MenusInv'
  BY <1>1, <1>2, MenusOpenStep DEF menus!OpenMenu
<1>3. ASSUME NEW t \in Targets, menus!TouchStart(t) PROVE MenusInv'
  BY <1>1, <1>3, MenusQuiet DEF menus!TouchStart, menus!globalVars
<1>4. CASE menus!TouchEnd
  BY <1>1, <1>4, MenusQuiet DEF menus!TouchEnd, menus!globalVars, menus!NoTarget
<1>5. CASE menus!LongPress
  <2>1. press \in Targets /\ press' = "none" /\ menus!Open(press)
    BY <1>1, <1>5 DEF menus!LongPress, menus!NoTarget
  <2> QED
    BY <2>1, MenusOpenStep
<1>6. CASE menus!OpenHubContextMenu
  <2>1. opened' \in 0 .. MaxOpens /\ opened' >= opened
    BY <1>1, <1>6, MenusNames DEF menus!OpenHubContextMenu
  <2> QED
    BY <1>1, <1>6, <2>1, MenusQuiet DEF menus!OpenHubContextMenu, menus!hubVars, menus!NoTarget, menus!Bar
<1>7. CASE UNCHANGED menusVars
  BY <1>1, <1>7, MenusQuiet DEF menusVars
<1> QED
  BY <1>2, <1>3, <1>4, <1>5, <1>6, <1>7, MenusSelectStep, MenusHubStep, MenusGlobalStep, MenusGlobalClose,
     MenusResizeStep DEF menus!MenusNext

LEMMA MenusStart ==
  ASSUME menus!MenusInit
  PROVE  MenusInv
<1>1. MenusTypes
  <2>1. up \in Seq(UpMessage) /\ down \in Seq(DownMessage)
    <3>1. <<>> \in Seq(UpMessage) /\ <<>> \in Seq(DownMessage)
      OBVIOUS
    <3> QED
      BY <3>1 DEF menus!MenusInit
  <2>2. opened = 0 /\ wheel = 0 /\ subscriptions = 0 /\ opened \in 0 .. MaxOpens
    BY MenusNames DEF menus!MenusInit
  <2>3. /\ isOpen = FALSE /\ target = "none" /\ press = "none" /\ globalMenu = "none" /\ dimmed = FALSE
        /\ muddled = FALSE /\ mistaken = FALSE /\ narrow \in BOOLEAN /\ narrowHub \in BOOLEAN
    BY DEF menus!MenusInit, menus!NoTarget
  <2>4. isOpen \in BOOLEAN /\ dimmed \in BOOLEAN /\ muddled \in BOOLEAN /\ mistaken \in BOOLEAN
    BY <2>3
  <2>5. wheel \in Nat /\ wheel <= opened /\ subscriptions \in Nat
    BY <2>2
  <2>6. isOpen => wheel # 0
    BY <2>3
  <2>7. target # "none" <=> isOpen
    BY <2>3
  <2> QED
    BY <2>1, <2>2, <2>3, <2>4, <2>5, <2>6, <2>7 DEF MenusTypes
<1>2. NoMenu
  <2>1. Len(up) = 0 /\ Len(down) = 0
    BY DEF menus!MenusInit
  <2> QED
    BY <2>1 DEF menus!MenusInit, menus!NoTarget, NoMenu, OnlyDims, EndsDimmed, OnlyLayout
<1> QED
  BY <1>1, <1>2 DEF MenusInv, menus!MenusInit

LEMMA MenusInvAgrees == MenusInv => menus!MenusAgree /\ menus!MenusTypeOK
<1> SUFFICES ASSUME MenusInv PROVE menus!MenusAgree /\ menus!MenusTypeOK
  OBVIOUS
<1>1. menus!MenusAgree
  <2> SUFFICES ASSUME ~muddled, up = <<>>, down = <<>>
               PROVE  /\ isOpen => IF narrowHub THEN globalMenu = target ELSE dimmed
                      /\ ~isOpen => ~dimmed /\ wheel = 0 /\ globalMenu \in {"none", "bar"}
    BY DEF menus!MenusAgree, menus!NoTarget, menus!Bar, MenusInv
  <2>1. Len(down) = 0
    OBVIOUS
  <2>2. ~AsksToShow
    BY DEF AsksToShow
  <2>3. ~GlobalClosed
    BY <2>1 DEF GlobalClosed
  <2> QED
    BY <2>1, <2>2, <2>3 DEF MenusInv, NoMenu, HubShows, GlobalShows, EndsDimmed
<1>2. menus!MenusTypeOK
  <2>1. \A i \in DOMAIN up : up[i].kind \in {"open", "show", "hide"}
    <3>1. up \in Seq(UpMessage)
      BY DEF MenusInv, MenusTypes
    <3>2. \A i \in DOMAIN up : up[i] \in UpMessage
      BY <3>1
    <3> QED
      BY <3>2 DEF UpMessage
  <2>2. \A i \in DOMAIN down : down[i].kind \in {"select", "close", "narrow", "wide"}
    <3>1. down \in Seq(DownMessage)
      BY DEF MenusInv, MenusTypes
    <3>2. \A i \in DOMAIN down : down[i] \in DownMessage
      BY <3>1
    <3> QED
      BY <3>2 DEF DownMessage
  <2>3. {narrowHub, dimmed, narrow, muddled, mistaken} \subseteq BOOLEAN
    BY DEF MenusInv, MenusTypes
  <2>4. wheel \in 0 .. MaxOpens
    BY MenusNames DEF MenusInv, MenusTypes
  <2> QED
    BY <2>1, <2>2, <2>3, <2>4 DEF menus!MenusTypeOK, MenusInv, MenusTypes, menus!NoTarget, menus!Bar
<1> QED
  BY <1>1, <1>2

\* The menus of the two clients agree, whatever the layout and however long the
\* messages between them take, as long as menus are opened one after another and
\* the layout changes under none; and all who met in a chained session saw the
\* same disclosure, and one client was told that it released it.
THEOREM SidesStayTogether == Spec => []SidesAgree
<1> DEFINE I == (part = "menus" => MenusInv) /\ (part = "chains" => ChainInv)
<1>1. Init => I
  BY Parts, MenusStart, ChainStart
<1>2. I /\ [Next]_vars => I'
  <2> SUFFICES ASSUME I, [Next]_vars PROVE I'
    OBVIOUS
  <2>1. part = "menus" => MenusInv'
    BY Parts, MenusStep
  <2>2. part = "chains" => ChainInv'
    BY Parts, ChainStep
  <2> QED
    BY <2>1, <2>2, Parts
<1>3. I => SidesAgree
  BY MenusInvAgrees DEF ChainInv, SidesAgree
<1> QED
  BY <1>1, <1>2, <1>3, PTL DEF Spec

-----------------------------------------------------------------------------
(* Library: the list of files, and what is signed.                         *)

News == [kind : {"file", "redaction", "seal"}, file : Files \cup {"nothing"}, of : Files]
Deletion ==
  [file : Files \cup {"nothing"}, seals : SUBSET shelf!Seals, at : {"idle", "media", "redact", "clean"}]
Batch == [array : Seq(Files), own : BOOLEAN, i : Nat]
Load == [asked : BOOLEAN, files : SUBSET Files, seals : SUBSET shelf!Seals]

ServerTypes ==
  /\ sent \subseteq Files /\ redacted \subseteq sent /\ lost \subseteq sent
  /\ sealed \subseteq shelf!Seals /\ shelfNews \in Seq(News) /\ opens \in Nat
ListTypes ==
  /\ library \subseteq sent /\ seals \subseteq shelf!Seals
  /\ load \in Load /\ load.files \subseteq sent
DoingTypes ==
  /\ doing \in [shelf!Asked -> Deletion]
  /\ \A a \in shelf!Asked : IF doing[a].at = "idle" THEN doing[a] = shelf!Idle ELSE doing[a].file \in sent
BatchTypes ==
  /\ selection \in Seq(Files) /\ \A i \in 1 .. Len(selection) : selection[i] \in sent
  /\ batch \in Batch /\ \A i \in 1 .. Len(batch.array) : batch.array[i] \in sent
SignTypes ==
  /\ active \in Files \cup {"nothing"} /\ hash \in Files \cup {"nothing"}
  /\ hashing \subseteq Files /\ sessions \subseteq Files

\* What the client knows of redactions, or is still to be told; a file that is
\* shown for all that was brought back by an answer.
KnownInv ==
  /\ redactions \subseteq redacted /\ flagged \subseteq redactions /\ flagged \subseteq library
  /\ \A i \in 1 .. Len(shelfNews) : /\ shelfNews[i].kind = "file" => shelfNews[i].file \in sent
                                    /\ shelfNews[i].kind = "redaction" => shelfNews[i].file \in redacted
  /\ \A f \in redacted \ redactions :
       \E i \in 1 .. Len(shelfNews) : shelfNews[i].kind = "redaction" /\ shelfNews[i].file = f
  /\ (library \ flagged) \cap redactions \subseteq late

\* Where a file of the room is, once the library was opened.
InDeletion(f) == \E a \in shelf!Asked : doing[a].at # "idle" /\ doing[a].file = f
InNews(f) == \E i \in 1 .. Len(shelfNews) : shelfNews[i].kind = "file" /\ shelfNews[i].file = f
InAnswer(f) == load.asked /\ f \in load.files
FoundInv ==
  opens > 0 => \A f \in sent \ redacted :
                 f \in library \/ f \in spoilt \/ InAnswer(f) \/ InDeletion(f) \/ InNews(f)

\* What is signed is the file the dialog is of.
SealsInv ==
  ~mixed => /\ \A f \in hashing \cup sessions : active \in {f, "nothing"}
            /\ \A s \in sealed : s.on \in {s.of, "nothing"}

ShelfInv ==
  /\ ServerTypes /\ ListTypes /\ DoingTypes /\ BatchTypes /\ SignTypes
  /\ KnownInv /\ FoundInv /\ SealsInv

\* The sequence of a finite set.
LEMMA ShelfCardinality == \A S : shelf!Cardinality(S) = Cardinality(S)
  BY DEF Cardinality, shelf!Cardinality

LEMMA SequenceOfSet ==
  ASSUME NEW S, IsFiniteSet(S)
  PROVE  shelf!SetToSeq(S) \in Seq(S)
<1>1. Cardinality(S) \in Nat /\ ExistsBijection(1 .. Cardinality(S), S)
  BY FS_CardinalityType
<1>2. PICK g \in [1 .. Cardinality(S) -> S] : \A a, b \in 1 .. Cardinality(S) : g[a] = g[b] => a = b
  BY <1>1 DEF ExistsBijection, Bijection, Injection, IsInjective
<1>3. shelf!IsInjective(g)
  BY <1>2 DEF shelf!IsInjective
<1>4. shelf!SetToSeq(S) \in [1 .. shelf!Cardinality(S) -> S]
  BY <1>2, <1>3, ShelfCardinality DEF shelf!SetToSeq
<1> QED
  BY <1>1, <1>4, ShelfCardinality

LEMMA SequenceOfOne ==
  /\ shelf!SetToSeq({}) = <<>>
  /\ \A x : shelf!SetToSeq({x}) \in Seq({x}) /\ Len(shelf!SetToSeq({x})) = 1
<1>1. ASSUME NEW x PROVE shelf!SetToSeq({x}) \in Seq({x}) /\ Len(shelf!SetToSeq({x})) = 1
  <2>1. IsFiniteSet({x}) /\ Cardinality({x}) = 1
    BY FS_Singleton
  <2> DEFINE g == [i \in 1 .. 1 |-> x]
  <2>2. g \in [1 .. 1 -> {x}] /\ shelf!IsInjective(g)
    BY DEF shelf!IsInjective
  <2>3. shelf!SetToSeq({x}) \in [1 .. 1 -> {x}]
    BY <2>1, <2>2, ShelfCardinality DEF shelf!SetToSeq
  <2> DEFINE t == shelf!SetToSeq({x})
  <2>4. t \in [1 .. 1 -> {x}]
    BY <2>3
  <2> HIDE DEF t
  <2>5. t \in Seq({x})
    <3>1. [1 .. 1 -> {x}] \in {[1 .. n -> {x}] : n \in Nat}
      OBVIOUS
    <3> QED
      BY <2>4, <3>1, SeqDef
  <2>6. Len(t) = 1
    BY <2>4, <2>5, LenProperties
  <2> QED
    BY <2>5, <2>6 DEF t
<1>2. shelf!SetToSeq({}) = <<>>
  <2>1. shelf!SetToSeq({}) \in Seq({})
    BY SequenceOfSet, FS_EmptySet
  <2> QED
    BY <2>1, EmptySeq
<1> QED
  BY <1>1, <1>2

\* One file of the selection less.
LEMMA OneLess ==
  ASSUME NEW S, NEW s \in Seq(S), NEW i \in 1 .. Len(s)
  PROVE  /\ shelf!RemoveAt(s, i) \in Seq(S)
         /\ \A j \in 1 .. Len(shelf!RemoveAt(s, i)) : \E k \in 1 .. Len(s) : shelf!RemoveAt(s, i)[j] = s[k]
<1> DEFINE l == SubSeq(s, 1, i - 1)
           r == SubSeq(s, i + 1, Len(s))
<1>0. PICK n \in Nat : n = Len(s)
  OBVIOUS
<1>00. i \in Int /\ 1 <= i /\ i <= n
  BY <1>0
<1>1. l \in Seq(S) /\ Len(l) = i - 1 /\ \A j \in 1 .. i - 1 : l[j] = s[j]
  BY SubSeqProperties
<1>2. r \in Seq(S) /\ Len(r) = Len(s) - i /\ \A j \in 1 .. Len(s) - i : r[j] = s[i + j]
  BY SubSeqProperties
<1>3. shelf!RemoveAt(s, i) = l \o r
  BY DEF shelf!RemoveAt
<1> HIDE DEF l, r
<1>4. l \o r \in Seq(S) /\ Len(l \o r) = Len(s) - 1
  <2>1. l \o r \in Seq(S) /\ Len(l \o r) = Len(l) + Len(r)
    BY <1>1, <1>2, ConcatProperties
  <2> QED
    BY <1>0, <1>00, <1>1, <1>2, <2>1
<1>5. ASSUME NEW j \in 1 .. Len(s) - 1 PROVE \E k \in 1 .. Len(s) : (l \o r)[j] = s[k]
  <2>0. j \in Int
    BY <1>0
  <2>1. CASE j <= i - 1
    <3>1. (l \o r)[j] = l[j] /\ l[j] = s[j]
      BY <1>1, <1>2, <2>1
    <3> QED
      BY <3>1
  <2>2. CASE j > i - 1
    <3>1. (l \o r)[j] = r[j - (i - 1)]
      BY <1>1, <1>2, <2>2
    <3>2. r[j - (i - 1)] = s[i + (j - (i - 1))]
      BY <1>2, <2>2
    <3>3. i + (j - (i - 1)) \in 1 .. Len(s)
      BY <2>2
    <3> QED
      BY <3>1, <3>2, <3>3
  <2> QED
    <3>1. j <= i - 1 \/ j > i - 1
      BY <1>00, <2>0
    <3> QED
      BY <2>1, <2>2, <3>1, Zenon
<1> QED
  BY <1>3, <1>4, <1>5

\* What is asked for in the two ways to delete.
LEMMA ShelfNames ==
  /\ shelf!Idle = [file |-> "nothing", seals |-> {}, at |-> "idle"]
  /\ shelf!Idle \in Deletion /\ "one" \in shelf!Asked /\ "all" \in shelf!Asked
  /\ "nothing" \notin Files
  BY NamesAssumption DEF shelf!Idle, shelf!NoFile, Deletion, shelf!Asked, NamesAssumption

\* What is ticked changes, not the files.
LEMMA ShelfTickStep ==
  ASSUME ShelfInv,
         UNCHANGED <<sent, redacted, lost, sealed, shelfNews, library, flagged, seals, redactions, load,
                     late, doing, spoilt, active, hash, hashing, sessions, mixed, opens>>,
         BatchTypes'
  PROVE  ShelfInv'
<1>1. ServerTypes' /\ ListTypes' /\ DoingTypes' /\ SignTypes'
  BY DEF ShelfInv, ServerTypes, ListTypes, DoingTypes, SignTypes
<1>2. KnownInv' /\ SealsInv'
  BY DEF ShelfInv, KnownInv, SealsInv
<1>3. FoundInv'
  BY DEF ShelfInv, FoundInv, InAnswer, InDeletion, InNews
<1> QED
  BY <1>1, <1>2, <1>3 DEF ShelfInv

LEMMA ShelfBatch ==
  ASSUME ShelfInv, selection' \in Seq(Files), \A i \in 1 .. Len(selection') : selection'[i] \in sent,
         \/ batch' = batch
         \/ batch' = [batch EXCEPT !.array = selection']
         \/ batch' = [batch EXCEPT !.own = FALSE],
         sent' = sent
  PROVE  BatchTypes'
<1>1. batch \in Batch /\ \A i \in 1 .. Len(batch.array) : batch.array[i] \in sent
  BY DEF ShelfInv, BatchTypes
<1>2. batch' \in Batch
  BY <1>1 DEF Batch
<1>3. batch'.array = batch.array \/ batch'.array = selection'
  BY <1>1 DEF Batch
<1> QED
  BY <1>1, <1>2, <1>3 DEF BatchTypes

LEMMA ShelfSelectStep ==
  ASSUME ShelfInv,
         \/ \E f \in Files : shelf!AddToSelection(f) \/ shelf!RemoveFromSelection(f)
         \/ shelf!SelectAll \/ shelf!UnselectAll \/ shelf!SetFilter
  PROVE  ShelfInv'
<1> USE DEF shelf!serverVars, shelf!listVars, shelf!deletionVars, shelf!signVars
<1>0. /\ selection \in Seq(Files) /\ \A i \in 1 .. Len(selection) : selection[i] \in sent
      /\ library \subseteq sent /\ sent \subseteq Files /\ shelf!Shown \subseteq sent
  BY DEF ShelfInv, BatchTypes, ListTypes, ServerTypes, shelf!Shown, shelf!RoomTimeLine
<1>1. ASSUME NEW f \in Files, shelf!AddToSelection(f) PROVE ShelfInv'
  <2>1. f \in sent /\ selection' = Append(selection, f)
    BY <1>0, <1>1 DEF shelf!AddToSelection
  <2>2. selection' \in Seq(Files) /\ \A i \in 1 .. Len(selection') : selection'[i] \in sent
    BY <1>0, <2>1, AppendProperties
  <2>3. BatchTypes'
    BY <1>1, <2>2, ShelfBatch DEF shelf!AddToSelection
  <2> QED
    BY <1>1, <2>3, ShelfTickStep DEF shelf!AddToSelection
<1>2. ASSUME NEW f \in Files, shelf!RemoveFromSelection(f) PROVE ShelfInv'
  <2>1. PICK i \in 1 .. Len(selection) : selection' = shelf!RemoveAt(selection, i)
    BY <1>0, <1>2 DEF shelf!RemoveFromSelection
  <2>2. selection' \in Seq(Files) /\ \A j \in 1 .. Len(selection') : selection'[j] \in sent
    BY <1>0, <2>1, OneLess
  <2>3. BatchTypes'
    BY <1>2, <2>2, ShelfBatch DEF shelf!RemoveFromSelection
  <2> QED
    BY <1>2, <2>3, ShelfTickStep DEF shelf!RemoveFromSelection
<1>3. CASE shelf!SelectAll
  <2>1. PICK t : t = shelf!SetToSeq(shelf!Shown \ shelf!ToSet(selection))
    OBVIOUS
  <2>2. IsFiniteSet(shelf!Shown \ shelf!ToSet(selection))
    BY <1>0, FilesAssumption, FS_Subset DEF FilesAssumption
  <2>3. t \in Seq(shelf!Shown \ shelf!ToSet(selection))
    BY <2>1, <2>2, SequenceOfSet
  <2>4. t \in Seq(sent) /\ selection \in Seq(sent)
    <3>1. shelf!Shown \ shelf!ToSet(selection) \subseteq sent
      BY <1>0
    <3>2. t \in Seq(sent)
      BY <2>3, <3>1, SeqMonotonic
    <3>3. selection \in [1 .. Len(selection) -> sent] /\ Len(selection) \in Nat
      BY <1>0, LenProperties
    <3> QED
      BY <3>2, <3>3, SeqDef
  <2>5. selection' = selection \o t
    BY <1>3, <2>1 DEF shelf!SelectAll
  <2>6. selection' \in Seq(sent)
    BY <2>4, <2>5, ConcatProperties
  <2>7. selection' \in Seq(Files) /\ \A i \in 1 .. Len(selection') : selection'[i] \in sent
    BY <1>0, <2>6, SeqMonotonic
  <2>8. BatchTypes'
    BY <1>3, <2>7, ShelfBatch DEF shelf!SelectAll
  <2> QED
    BY <1>3, <2>8, ShelfTickStep DEF shelf!SelectAll
<1>4. CASE shelf!UnselectAll
  <2>1. selection' \in Seq(Files) /\ Len(selection') = 0
    BY <1>4 DEF shelf!UnselectAll
  <2>2. BatchTypes'
    BY <1>4, <2>1, ShelfBatch DEF shelf!UnselectAll
  <2> QED
    BY <1>4, <2>2, ShelfTickStep DEF shelf!UnselectAll
<1>5. CASE shelf!SetFilter
  <2>1. BatchTypes'
    BY <1>5 DEF shelf!SetFilter, ShelfInv, BatchTypes
  <2> QED
    BY <1>5, <2>1, ShelfTickStep DEF shelf!SetFilter
<1> QED
  BY <1>1, <1>2, <1>3, <1>4, <1>5

\* Signing leaves the list alone.
LEMMA ShelfSignTypes ==
  ASSUME ShelfInv,
         UNCHANGED <<sent, redacted, lost, library, flagged, seals, redactions, load,
                     selection, batch, late, doing, spoilt, opens>>,
         SignTypes', SealsInv', sealed' \subseteq shelf!Seals,
         \/ shelfNews' = shelfNews
         \/ \E n \in News : n.kind = "seal" /\ shelfNews' = Append(shelfNews, n)
  PROVE  ShelfInv'
<1>0. shelfNews \in Seq(News)
  BY DEF ShelfInv, ServerTypes
<1>1. /\ shelfNews' \in Seq(News)
      /\ \A i \in 1 .. Len(shelfNews') :
           shelfNews'[i].kind = "seal" \/ (i \in 1 .. Len(shelfNews) /\ shelfNews'[i] = shelfNews[i])
      /\ \A i \in 1 .. Len(shelfNews) : i \in 1 .. Len(shelfNews') /\ shelfNews'[i] = shelfNews[i]
  <2>1. ASSUME NEW n \in News, n.kind = "seal", shelfNews' = Append(shelfNews, n)
        PROVE  /\ shelfNews' \in Seq(News)
               /\ \A i \in 1 .. Len(shelfNews') :
                    shelfNews'[i].kind = "seal" \/ (i \in 1 .. Len(shelfNews) /\ shelfNews'[i] = shelfNews[i])
               /\ \A i \in 1 .. Len(shelfNews) : i \in 1 .. Len(shelfNews') /\ shelfNews'[i] = shelfNews[i]
    <3>1. PICK m \in Nat : m = Len(shelfNews)
      BY <1>0
    <3>2. /\ shelfNews' \in Seq(News) /\ Len(shelfNews') = m + 1 /\ shelfNews'[m + 1] = n
          /\ \A i \in 1 .. m : shelfNews'[i] = shelfNews[i]
      BY <1>0, <2>1, <3>1, AppendProperties
    <3> QED
      BY <2>1, <3>1, <3>2
  <2> QED
    BY <1>0, <2>1
<1>2. ServerTypes' /\ ListTypes' /\ DoingTypes' /\ BatchTypes'
  BY <1>1 DEF ShelfInv, ServerTypes, ListTypes, DoingTypes, BatchTypes
<1>3. KnownInv'
  <2>1. \A i \in 1 .. Len(shelfNews') : /\ shelfNews'[i].kind = "file" => shelfNews'[i].file \in sent
                                        /\ shelfNews'[i].kind = "redaction" => shelfNews'[i].file \in redacted
    BY <1>1 DEF ShelfInv, KnownInv
  <2>2. \A f \in redacted \ redactions :
          \E i \in 1 .. Len(shelfNews') : shelfNews'[i].kind = "redaction" /\ shelfNews'[i].file = f
    <3> SUFFICES ASSUME NEW f \in redacted \ redactions
                 PROVE  \E i \in 1 .. Len(shelfNews') : shelfNews'[i].kind = "redaction" /\ shelfNews'[i].file = f
      OBVIOUS
    <3>1. PICK i \in 1 .. Len(shelfNews) : shelfNews[i].kind = "redaction" /\ shelfNews[i].file = f
      BY DEF ShelfInv, KnownInv
    <3> QED
      BY <1>1, <3>1
  <2> QED
    BY <2>1, <2>2 DEF ShelfInv, KnownInv
<1>4. FoundInv'
  <2>1. \A f : InNews(f) => InNews(f)'
    BY <1>1 DEF InNews
  <2>2. \A f : InDeletion(f) => InDeletion(f)'
    BY DEF InDeletion
  <2> QED
    BY <2>1, <2>2 DEF ShelfInv, FoundInv, InAnswer
<1> QED
  BY <1>2, <1>3, <1>4 DEF ShelfInv

LEMMA ShelfSignStep ==
  ASSUME ShelfInv, NEW f \in Files,
         \/ shelf!HandleSigning(f) \/ shelf!MakeHash(f) \/ shelf!FinishedSigningMessage(f)
         \/ shelf!YiviSessionError(f) \/ shelf!Cancel \/ shelf!HandleEsc
  PROVE  ShelfInv'
<1> USE DEF shelf!serverVars, shelf!listVars, shelf!deletionVars, shelf!NoFile
<1>1. CASE shelf!HandleSigning(f)
  <2>1. SignTypes' /\ SealsInv'
    BY <1>1 DEF shelf!HandleSigning, ShelfInv, SignTypes, SealsInv
  <2> QED
    BY <1>1, <2>1, ShelfSignTypes DEF shelf!HandleSigning, ShelfInv, ServerTypes
<1>2. CASE shelf!MakeHash(f)
  <2>1. SignTypes' /\ SealsInv'
    BY <1>2 DEF shelf!MakeHash, ShelfInv, SignTypes, SealsInv
  <2> QED
    BY <1>2, <2>1, ShelfSignTypes DEF shelf!MakeHash, ShelfInv, ServerTypes
<1>3. CASE shelf!FinishedSigningMessage(f)
  <2> DEFINE s == [on |-> active, of |-> f]
             n == [kind |-> "seal", file |-> active, of |-> f]
  <2>1. s \in shelf!Seals /\ n \in News /\ n.kind = "seal"
    BY DEF ShelfInv, SignTypes, shelf!Seals, News
  <2>2. sealed' = sealed \cup {s} /\ shelfNews' = Append(shelfNews, n)
    BY <1>3 DEF shelf!FinishedSigningMessage
  <2>3. SignTypes' /\ SealsInv'
    BY <1>3, <2>2 DEF shelf!FinishedSigningMessage, ShelfInv, SignTypes, SealsInv
  <2>4. sealed' \subseteq shelf!Seals
    BY <2>1, <2>2 DEF ShelfInv, ServerTypes
  <2> HIDE DEF n, s
  <2> QED
    BY <1>3, <2>1, <2>2, <2>3, <2>4, ShelfSignTypes DEF shelf!FinishedSigningMessage
<1>4. CASE shelf!YiviSessionError(f)
  <2>1. SignTypes' /\ SealsInv'
    BY <1>4 DEF shelf!YiviSessionError, ShelfInv, SignTypes, SealsInv
  <2> QED
    BY <1>4, <2>1, ShelfSignTypes DEF shelf!YiviSessionError, ShelfInv, ServerTypes
<1>5. CASE shelf!Cancel \/ shelf!HandleEsc
  <2>1. SignTypes' /\ SealsInv'
    BY <1>5 DEF shelf!Cancel, shelf!HandleEsc, ShelfInv, SignTypes, SealsInv
  <2> QED
    BY <1>5, <2>1, ShelfSignTypes DEF shelf!Cancel, shelf!HandleEsc, ShelfInv, ServerTypes
<1> QED
  BY <1>1, <1>2, <1>3, <1>4, <1>5

\* Opening the library asks for all the files the room has.
LEMMA ShelfOpenStep ==
  ASSUME ShelfInv, shelf!InitFileLibrary
  PROVE  ShelfInv'
<1> USE DEF shelf!serverVars, shelf!NoFile
<1> DEFINE answer == [asked |-> TRUE, files |-> sent \ redacted, seals |-> sealed]
<1>1. /\ load' = answer /\ opens' = opens + 1 /\ selection' = <<>> /\ batch' = shelf!NoBatch /\ active' = "nothing"
      /\ hashing \cup sessions = {}
      /\ UNCHANGED <<sent, redacted, lost, sealed, shelfNews, library, flagged, seals, redactions, late, doing,
                     spoilt, hash, hashing, sessions, mixed>>
  BY DEF shelf!InitFileLibrary
<1>2. answer \in Load /\ answer.asked = TRUE /\ answer.files = sent \ redacted
  BY DEF ShelfInv, ServerTypes, Load
<1> HIDE DEF answer
<1>3. ServerTypes' /\ ListTypes' /\ DoingTypes'
  BY <1>1, <1>2 DEF ShelfInv, ServerTypes, ListTypes, DoingTypes
<1>4. BatchTypes'
  <2>1. shelf!NoBatch \in Batch /\ shelf!NoBatch.array = <<>> /\ Len(<<>>) = 0 /\ <<>> \in Seq(Files)
    BY DEF shelf!NoBatch, Batch
  <2> QED
    BY <1>1, <2>1 DEF BatchTypes
<1>5. SignTypes' /\ SealsInv'
  BY <1>1 DEF ShelfInv, SignTypes, SealsInv
<1>6. KnownInv'
  BY <1>1 DEF ShelfInv, KnownInv
<1>7. FoundInv'
  BY <1>1, <1>2 DEF FoundInv, InAnswer
<1> QED
  BY <1>3, <1>4, <1>5, <1>6, <1>7 DEF ShelfInv

\* The answer comes in: what it brings is listed, redacted or not.
LEMMA ShelfLoadedStep ==
  ASSUME ShelfInv, shelf!LibraryLoaded
  PROVE  ShelfInv'
<1>1. /\ load.asked /\ load' = shelf!NoLoad /\ library' = library \cup load.files /\ seals' = seals \cup load.seals
      /\ late' = late \cup (load.files \cap redactions)
      /\ UNCHANGED <<sent, redacted, lost, sealed, shelfNews, flagged, redactions, selection, batch, doing,
                     spoilt, active, hash, hashing, sessions, mixed, opens>>
  BY DEF shelf!LibraryLoaded, shelf!FileLibraryAddEvents, shelf!serverVars, shelf!deletionVars, shelf!signVars
<1>2. load \in Load /\ shelf!NoLoad \in Load /\ shelf!NoLoad.files = {}
  BY DEF ShelfInv, ListTypes, shelf!NoLoad, Load
<1>3. ListTypes'
  BY <1>1, <1>2 DEF ShelfInv, ListTypes, Load
<1>4. ServerTypes' /\ DoingTypes' /\ BatchTypes' /\ SignTypes' /\ SealsInv'
  BY <1>1 DEF ShelfInv, ServerTypes, DoingTypes, BatchTypes, SignTypes, SealsInv
<1>5. KnownInv'
  BY <1>1 DEF ShelfInv, KnownInv
<1>6. FoundInv'
  <2>1. \A f : (InDeletion(f) => InDeletion(f)') /\ (InNews(f) => InNews(f)')
    BY <1>1 DEF InDeletion, InNews
  <2> QED
    BY <1>1, <2>1 DEF ShelfInv, FoundInv, InAnswer
<1> QED
  BY <1>3, <1>4, <1>5, <1>6 DEF ShelfInv

\* A file is sent to the room.
LEMMA ShelfUploadStep ==
  ASSUME ShelfInv, NEW f \in Files, shelf!Upload(f)
  PROVE  ShelfInv'
<1>1. PICK n : n = [kind |-> "file", file |-> f, of |-> f]
  OBVIOUS
<1>2. /\ f \notin sent /\ sent' = sent \cup {f} /\ shelfNews' = Append(shelfNews, n)
      /\ UNCHANGED <<redacted, lost, sealed, library, flagged, seals, redactions, load, late, selection, batch,
                     doing, spoilt, active, hash, hashing, sessions, mixed, opens>>
  BY <1>1 DEF shelf!Upload, shelf!listVars, shelf!deletionVars, shelf!signVars
<1>3. n \in News /\ n.kind = "file" /\ n.file = f
  BY <1>1 DEF News
<1>4. shelfNews \in Seq(News)
  BY DEF ShelfInv, ServerTypes
<1>5. PICK m \in Nat : m = Len(shelfNews)
  BY <1>4
<1>6. /\ shelfNews' \in Seq(News) /\ Len(shelfNews') = m + 1 /\ shelfNews'[m + 1] = n
      /\ \A i \in 1 .. m : shelfNews'[i] = shelfNews[i]
  BY <1>2, <1>3, <1>4, <1>5, AppendProperties
<1>7. ServerTypes' /\ ListTypes'
  BY <1>2, <1>6 DEF ShelfInv, ServerTypes, ListTypes
<1>8. DoingTypes' /\ BatchTypes' /\ SignTypes' /\ SealsInv'
  BY <1>2 DEF ShelfInv, DoingTypes, BatchTypes, SignTypes, SealsInv
<1>9. KnownInv'
  <2>1. \A i \in 1 .. Len(shelfNews') : /\ shelfNews'[i].kind = "file" => shelfNews'[i].file \in sent'
                                        /\ shelfNews'[i].kind = "redaction" => shelfNews'[i].file \in redacted
    <3> SUFFICES ASSUME NEW i \in 1 .. m + 1
                 PROVE  /\ shelfNews'[i].kind = "file" => shelfNews'[i].file \in sent'
                        /\ shelfNews'[i].kind = "redaction" => shelfNews'[i].file \in redacted
      BY <1>6
    <3>1. CASE i = m + 1
      BY <1>2, <1>3, <1>6, <3>1
    <3>2. CASE i \in 1 .. m
      BY <1>2, <1>5, <1>6, <3>2 DEF ShelfInv, KnownInv
    <3> QED
      BY <3>1, <3>2
  <2>2. \A g \in redacted \ redactions :
          \E i \in 1 .. Len(shelfNews') : shelfNews'[i].kind = "redaction" /\ shelfNews'[i].file = g
    <3> SUFFICES ASSUME NEW g \in redacted \ redactions
                 PROVE  \E i \in 1 .. Len(shelfNews') : shelfNews'[i].kind = "redaction" /\ shelfNews'[i].file = g
      OBVIOUS
    <3>1. PICK i \in 1 .. m : shelfNews[i].kind = "redaction" /\ shelfNews[i].file = g
      BY <1>5 DEF ShelfInv, KnownInv
    <3> QED
      BY <1>5, <1>6, <3>1
  <2> QED
    BY <1>2, <2>1, <2>2 DEF ShelfInv, KnownInv
<1>10. FoundInv'
  <2>1. InNews(f)'
    BY <1>3, <1>5, <1>6 DEF InNews
  <2>2. ASSUME NEW g, InNews(g) PROVE InNews(g)'
    BY <1>5, <1>6, <2>2 DEF InNews
  <2>3. \A g : InDeletion(g) => InDeletion(g)'
    BY <1>2 DEF InDeletion
  <2> QED
    BY <1>2, <2>1, <2>2, <2>3 DEF ShelfInv, FoundInv, InAnswer
<1> QED
  BY <1>7, <1>8, <1>9, <1>10 DEF ShelfInv

\* Sliding sync tells the client of a file, a redaction or a signature.
LEMMA ShelfSyncStep ==
  ASSUME ShelfInv, shelf!LoadFromSlidingSync
  PROVE  ShelfInv'
<1>1. PICK n : n = Head(shelfNews)
  OBVIOUS
<1>2. /\ shelfNews # <<>> /\ shelfNews' = Tail(shelfNews)
      /\ redactions' = IF n.kind = "redaction" THEN redactions \cup {n.file} ELSE redactions
      /\ library' = library \cup ({n.file : x \in {n.kind} \cap {"file"}} \ redacted)
      /\ seals' = seals \cup {[on |-> n.file, of |-> n.of] : x \in {n.kind} \cap {"seal"}}
      /\ flagged' = library' \cap redactions' /\ late' = {}
      /\ UNCHANGED <<sent, redacted, lost, sealed, load, selection, batch, doing, spoilt,
                     active, hash, hashing, sessions, mixed, opens>>
  BY <1>1 DEF shelf!LoadFromSlidingSync, shelf!FileLibraryAddEvents, shelf!ApplyIsDeleted,
     shelf!deletionVars, shelf!signVars
<1>3. shelfNews \in Seq(News)
  BY DEF ShelfInv, ServerTypes
<1>4. PICK m \in Nat \ {0} : m = Len(shelfNews)
  BY <1>2, <1>3
<1>5. /\ n = shelfNews[1] /\ n \in News
      /\ shelfNews' \in Seq(News) /\ Len(shelfNews') = m - 1
      /\ \A i \in 1 .. m - 1 : shelfNews'[i] = shelfNews[i + 1]
  BY <1>1, <1>2, <1>3, <1>4, HeadTailProperties
<1>6. /\ n.kind = "file" => n.file \in sent
      /\ n.kind = "redaction" => n.file \in redacted
  <2>1. 1 \in 1 .. Len(shelfNews)
    BY <1>4
  <2> QED
    BY <1>5, <2>1 DEF ShelfInv, KnownInv
<1>7. ServerTypes'
  BY <1>2, <1>5 DEF ShelfInv, ServerTypes
<1>8. ListTypes'
  <2>1. library' \subseteq sent
    BY <1>2, <1>6 DEF ShelfInv, ListTypes
  <2>2. seals' \subseteq shelf!Seals
    BY <1>2, <1>5 DEF ShelfInv, ListTypes, shelf!Seals, shelf!NoFile, News
  <2> QED
    BY <1>2, <2>1, <2>2 DEF ShelfInv, ListTypes
<1>9. DoingTypes' /\ BatchTypes' /\ SignTypes' /\ SealsInv'
  BY <1>2 DEF ShelfInv, DoingTypes, BatchTypes, SignTypes, SealsInv
<1>10. redactions' \subseteq redacted
  BY <1>2, <1>6 DEF ShelfInv, KnownInv
<1>11. KnownInv'
  <2>1. \A i \in 1 .. Len(shelfNews') : /\ shelfNews'[i].kind = "file" => shelfNews'[i].file \in sent
                                        /\ shelfNews'[i].kind = "redaction" => shelfNews'[i].file \in redacted
    <3> SUFFICES ASSUME NEW i \in 1 .. m - 1
                 PROVE  /\ shelfNews'[i].kind = "file" => shelfNews'[i].file \in sent
                        /\ shelfNews'[i].kind = "redaction" => shelfNews'[i].file \in redacted
      BY <1>5
    <3>1. i + 1 \in 1 .. Len(shelfNews) /\ shelfNews'[i] = shelfNews[i + 1]
      BY <1>4, <1>5
    <3> QED
      BY <3>1 DEF ShelfInv, KnownInv
  <2>2. \A g \in redacted \ redactions' :
          \E i \in 1 .. Len(shelfNews') : shelfNews'[i].kind = "redaction" /\ shelfNews'[i].file = g
    <3> SUFFICES ASSUME NEW g \in redacted \ redactions'
                 PROVE  \E i \in 1 .. m - 1 : shelfNews'[i].kind = "redaction" /\ shelfNews'[i].file = g
      BY <1>5
    <3>1. g \in redacted \ redactions
      BY <1>2
    <3>2. PICK i \in 1 .. m : shelfNews[i].kind = "redaction" /\ shelfNews[i].file = g
      BY <1>4, <3>1 DEF ShelfInv, KnownInv
    <3>3. i # 1
      BY <1>2, <1>5, <3>2
    <3>4. i - 1 \in 1 .. m - 1 /\ shelfNews'[i - 1] = shelfNews[i]
      BY <1>5, <3>3
    <3> QED
      BY <3>2, <3>4
  <2> QED
    BY <1>2, <1>10, <2>1, <2>2 DEF KnownInv
<1>12. FoundInv'
  <2>1. ASSUME NEW g \in sent \ redacted, InNews(g) PROVE InNews(g)' \/ g \in library'
    <3>1. PICK i \in 1 .. m : shelfNews[i].kind = "file" /\ shelfNews[i].file = g
      BY <1>4, <2>1 DEF InNews
    <3>2. CASE i = 1
      BY <1>2, <1>5, <2>1, <3>1, <3>2
    <3>3. CASE i # 1
      <4>1. i - 1 \in 1 .. Len(shelfNews') /\ shelfNews'[i - 1] = shelfNews[i]
        BY <1>5, <3>3
      <4> QED
        BY <3>1, <4>1 DEF InNews
    <3> QED
      BY <3>2, <3>3
  <2>2. \A g : InDeletion(g) => InDeletion(g)'
    BY <1>2 DEF InDeletion
  <2>3. library \subseteq library'
    BY <1>2
  <2> QED
    BY <1>2, <2>1, <2>2, <2>3 DEF ShelfInv, FoundInv, InAnswer
<1> QED
  BY <1>7, <1>8, <1>9, <1>11, <1>12 DEF ShelfInv

\* A deletion goes on, begins or ends.
LEMMA ShelfDoing ==
  ASSUME DoingTypes, NEW a \in shelf!Asked, NEW d \in Deletion, doing' = [doing EXCEPT ![a] = d],
         IF d.at = "idle" THEN d = shelf!Idle ELSE d.file \in sent, sent' = sent
  PROVE  /\ DoingTypes'
         /\ \A g : InDeletion(g) => InDeletion(g)' \/ g = doing[a].file
         /\ d.at # "idle" => InDeletion(d.file)'
<1>1. doing' \in [shelf!Asked -> Deletion] /\ doing'[a] = d /\ \A b \in shelf!Asked : b # a => doing'[b] = doing[b]
  BY DEF DoingTypes
<1>2. DoingTypes'
  BY <1>1 DEF DoingTypes
<1>3. ASSUME NEW g, InDeletion(g) PROVE InDeletion(g)' \/ g = doing[a].file
  BY <1>1, <1>3 DEF InDeletion
<1>4. ASSUME d.at # "idle" PROVE InDeletion(d.file)'
  BY <1>1, <1>4 DEF InDeletion
<1> QED
  BY <1>2, <1>3, <1>4

LEMMA ShelfDoingAt ==
  ASSUME DoingTypes, NEW a \in shelf!Asked, NEW next \in {"media", "redact", "clean"},
         doing[a].at # "idle", doing' = [doing EXCEPT ![a].at = next], sent' = sent
  PROVE  DoingTypes' /\ \A g : InDeletion(g) => InDeletion(g)'
<1>1. doing \in [shelf!Asked -> Deletion] /\ doing[a] \in Deletion /\ doing[a].file \in sent
  BY DEF DoingTypes
<1>0. PICK d : d = [doing[a] EXCEPT !.at = next]
  OBVIOUS
<1>2. d \in Deletion /\ d.at = next /\ d.file = doing[a].file
  BY <1>0, <1>1 DEF Deletion
<1>3. doing' = [doing EXCEPT ![a] = d]
  BY <1>0, <1>1
<1>4. /\ DoingTypes' /\ InDeletion(d.file)'
      /\ \A g : InDeletion(g) => InDeletion(g)' \/ g = doing[a].file
  BY <1>1, <1>2, <1>3, ShelfDoing
<1> QED
  BY <1>2, <1>4

\* What redacting a file f does to the news.
Redacts(f) ==
  /\ redacted' = redacted \cup {f} /\ sealed' \subseteq sealed /\ shelfNews' \in Seq(News)
  /\ \A i \in 1 .. Len(shelfNews') :
       \/ i \in 1 .. Len(shelfNews) /\ shelfNews'[i] = shelfNews[i]
       \/ shelfNews'[i].kind = "redaction" /\ shelfNews'[i].file = f
  /\ \A i \in 1 .. Len(shelfNews) : i \in 1 .. Len(shelfNews') /\ shelfNews'[i] = shelfNews[i]
  /\ f \notin redacted => \E i \in 1 .. Len(shelfNews') : shelfNews'[i].kind = "redaction" /\ shelfNews'[i].file = f

LEMMA ShelfRedact ==
  ASSUME ServerTypes, NEW f \in sent, NEW signatures, shelf!Redact({f}, signatures)
  PROVE  Redacts(f)
<1>1. PICK n : n = [kind |-> "redaction", file |-> f, of |-> f]
  OBVIOUS
<1>2. n \in News /\ n.kind = "redaction" /\ n.file = f
  BY <1>1 DEF News, ServerTypes
<1>3. PICK t : t = shelf!SetToSeq({[kind |-> "redaction", file |-> g, of |-> g] : g \in {f} \ redacted})
  OBVIOUS
<1>4. redacted' = redacted \cup {f} /\ sealed' \subseteq sealed /\ shelfNews' = shelfNews \o t
  BY <1>3 DEF shelf!Redact
<1>5. shelfNews \in Seq(News)
  BY DEF ServerTypes
<1>6. CASE f \in redacted
  <2>1. {[kind |-> "redaction", file |-> g, of |-> g] : g \in {f} \ redacted} = {}
    BY <1>6
  <2>2. t = <<>>
    BY <1>3, <2>1, SequenceOfOne
  <2>3. shelfNews' = shelfNews
    BY <1>4, <1>5, <2>2, ConcatEmptySeq
  <2> QED
    BY <1>4, <1>5, <1>6, <2>3 DEF Redacts
<1>7. CASE f \notin redacted
  <2>1. {[kind |-> "redaction", file |-> g, of |-> g] : g \in {f} \ redacted} = {n}
    BY <1>1, <1>7
  <2>2. t \in Seq({n}) /\ Len(t) = 1
    BY <1>3, <2>1, SequenceOfOne
  <2>3. t \in Seq(News) /\ t[1] = n
    BY SMTT(30), <1>2, <2>2, SeqMonotonic
  <2>4. PICK m \in Nat : m = Len(shelfNews)
    BY <1>5
  <2>5. /\ shelfNews' \in Seq(News) /\ Len(shelfNews') = m + 1 /\ shelfNews'[m + 1] = n
        /\ \A i \in 1 .. m : shelfNews'[i] = shelfNews[i]
    <3>1. Len(shelfNews \o t) = m + 1 /\ (shelfNews \o t)[m + 1] = t[1]
          /\ \A i \in 1 .. m : (shelfNews \o t)[i] = shelfNews[i]
      BY <1>5, <2>2, <2>3, <2>4, OneMore
    <3>2. shelfNews \o t \in Seq(News)
      BY <1>5, <2>3, ConcatProperties
    <3> QED
      BY <1>4, <2>3, <3>1, <3>2
  <2>6. \A i \in 1 .. Len(shelfNews') :
          \/ i \in 1 .. Len(shelfNews) /\ shelfNews'[i] = shelfNews[i]
          \/ shelfNews'[i].kind = "redaction" /\ shelfNews'[i].file = f
    BY <1>2, <2>4, <2>5
  <2>7. \E i \in 1 .. Len(shelfNews') : shelfNews'[i].kind = "redaction" /\ shelfNews'[i].file = f
    BY <1>2, <2>5
  <2>8. \A i \in 1 .. Len(shelfNews) : i \in 1 .. Len(shelfNews') /\ shelfNews'[i] = shelfNews[i]
    BY <2>4, <2>5
  <2> QED
    BY <1>4, <2>5, <2>6, <2>7, <2>8 DEF Redacts
<1> QED
  BY <1>6, <1>7

\* What a step of a deletion leaves true, of files it takes from the list, F.
LEMMA ShelfKnown ==
  ASSUME ShelfInv, NEW F, library' = library \ F, flagged' = flagged \ F, UNCHANGED <<sent, redactions, late>>,
         UNCHANGED <<redacted, shelfNews>> \/ \E f \in sent : Redacts(f)
  PROVE  KnownInv' /\ (\A g : InNews(g) => InNews(g)') /\ redacted \subseteq redacted'
<1>1. (library' \ flagged') \cap redactions' \subseteq late' /\ flagged' \subseteq redactions' /\ flagged' \subseteq library'
  BY DEF ShelfInv, KnownInv
<1>2. CASE UNCHANGED <<redacted, shelfNews>>
  BY <1>1, <1>2 DEF ShelfInv, KnownInv, InNews
<1>3. ASSUME NEW f \in sent, Redacts(f)
      PROVE  KnownInv' /\ (\A g : InNews(g) => InNews(g)') /\ redacted \subseteq redacted'
  <2>1. redacted' = redacted \cup {f} /\ redactions' \subseteq redacted'
    BY <1>3 DEF Redacts, ShelfInv, KnownInv
  <2>2. \A i \in 1 .. Len(shelfNews') : /\ shelfNews'[i].kind = "file" => shelfNews'[i].file \in sent
                                        /\ shelfNews'[i].kind = "redaction" => shelfNews'[i].file \in redacted'
    BY <1>3, <2>1 DEF Redacts, ShelfInv, KnownInv
  <2>3. \A g \in redacted' \ redactions :
          \E i \in 1 .. Len(shelfNews') : shelfNews'[i].kind = "redaction" /\ shelfNews'[i].file = g
    <3> SUFFICES ASSUME NEW g \in redacted' \ redactions
                 PROVE  \E i \in 1 .. Len(shelfNews') : shelfNews'[i].kind = "redaction" /\ shelfNews'[i].file = g
      OBVIOUS
    <3>1. CASE g \notin redacted
      BY <1>3, <2>1, <3>1 DEF Redacts
    <3>2. CASE g \in redacted
      <4>1. PICK i \in 1 .. Len(shelfNews) : shelfNews[i].kind = "redaction" /\ shelfNews[i].file = g
        BY <3>2 DEF ShelfInv, KnownInv
      <4> QED
        BY <1>3, <4>1 DEF Redacts
    <3> QED
      BY <3>1, <3>2
  <2>4. ASSUME NEW g, InNews(g) PROVE InNews(g)'
    <3>1. PICK i \in 1 .. Len(shelfNews) : shelfNews[i].kind = "file" /\ shelfNews[i].file = g
      BY <2>4 DEF InNews
    <3>2. i \in 1 .. Len(shelfNews') /\ shelfNews'[i] = shelfNews[i]
      BY <1>3 DEF Redacts
    <3> QED
      BY <3>1, <3>2 DEF InNews
  <2> QED
    BY <1>1, <2>1, <2>2, <2>3, <2>4 DEF KnownInv
<1> QED
  BY <1>2, <1>3

\* The types after a step of a deletion.
LEMMA ShelfDeletionTypes ==
  ASSUME ShelfInv, library' \subseteq library, seals' \subseteq seals,
         UNCHANGED <<sent, load, active, hash, hashing, sessions, mixed, opens>>,
         lost' \subseteq sent,
         UNCHANGED <<redacted, sealed, shelfNews>> \/ \E f \in sent : Redacts(f)
  PROVE  ServerTypes' /\ ListTypes' /\ SignTypes' /\ SealsInv'
<1>1. redacted' \subseteq sent /\ sealed' \subseteq sealed /\ shelfNews' \in Seq(News)
  BY DEF ShelfInv, ServerTypes, Redacts
<1>2. ServerTypes' /\ ListTypes'
  BY <1>1 DEF ShelfInv, ServerTypes, ListTypes
<1>3. SignTypes' /\ SealsInv'
  BY <1>1 DEF ShelfInv, SignTypes, SealsInv
<1> QED
  BY <1>2, <1>3

\* Files are still where they were, but for those of F that are being deleted.
LEMMA ShelfFound ==
  ASSUME FoundInv, KnownInv, NEW F, library' = library \ F, UNCHANGED <<sent, opens, load>>, redacted \subseteq redacted',
         spoilt \subseteq spoilt', \A g : InNews(g) => InNews(g)',
         \A g : g \in F \/ InDeletion(g) => InDeletion(g)' \/ g \in redacted' \/ g \in spoilt'
                                            \/ (g \in library /\ g \notin F) \/ g \notin sent
  PROVE  FoundInv'
  BY DEF FoundInv, InAnswer

LEMMA SealsOfType == ShelfInv => \A f : shelf!SealsOf(f) \subseteq shelf!Seals
  BY DEF ShelfInv, ListTypes, shelf!SealsOf, shelf!RoomTimeLine

\* A deletion begins, of a file f.
LEMMA ShelfDeleteStep ==
  ASSUME ShelfInv, NEW a \in shelf!Asked, NEW f \in sent, shelf!HandleDeletion(a, f), doing[a] = shelf!Idle,
         UNCHANGED <<sent, redacted, lost, sealed, shelfNews, redactions, load, late, spoilt,
                     active, hash, hashing, sessions, mixed, opens>>,
         BatchTypes'
  PROVE  ShelfInv'
<1>1. PICK d : d = [file |-> f, seals |-> shelf!SealsOf(f), at |-> "media"]
  OBVIOUS
<1>2. d \in Deletion /\ d.at = "media" /\ d.file = f
  BY <1>1, SealsOfType DEF Deletion, ShelfInv, ServerTypes
<1>3. /\ library' = library \ {f} /\ flagged' = flagged \ {f} /\ seals' \subseteq seals
      /\ doing' = [doing EXCEPT ![a] = d]
  BY <1>1 DEF shelf!HandleDeletion, shelf!RemoveLibraryEvents
<1>4. DoingTypes' /\ InDeletion(f)' /\ \A g : InDeletion(g) => InDeletion(g)' \/ g = "nothing"
  <2>1. doing[a].file = "nothing"
    BY ShelfNames
  <2>2. /\ DoingTypes' /\ \A g : InDeletion(g) => InDeletion(g)' \/ g = doing[a].file
        /\ d.at # "idle" => InDeletion(d.file)'
    BY <1>2, <1>3, ShelfDoing DEF ShelfInv
  <2> QED
    BY <1>2, <2>1, <2>2
<1>5. KnownInv' /\ (\A g : InNews(g) => InNews(g)') /\ redacted \subseteq redacted'
  BY <1>3, ShelfKnown
<1>6. ServerTypes' /\ ListTypes' /\ SignTypes' /\ SealsInv'
  BY <1>3, ShelfDeletionTypes DEF ShelfInv, ServerTypes
<1>7. FoundInv'
  <2>1. "nothing" \notin sent
    BY ShelfNames DEF ShelfInv, ServerTypes
  <2>2. \A g : g \in {f} \/ InDeletion(g) => InDeletion(g)' \/ g \notin sent
    BY <1>4, <2>1
  <2>3. FoundInv /\ KnownInv
    BY DEF ShelfInv
  <2> QED
    BY <1>3, <1>5, <2>2, <2>3, ShelfFound
<1> QED
  BY <1>4, <1>5, <1>6, <1>7 DEF ShelfInv

LEMMA ShelfConfirmStep ==
  ASSUME ShelfInv, NEW f \in Files, shelf!ConfirmDeletion(f)
  PROVE  ShelfInv'
<1>1. f \in sent
  BY DEF shelf!ConfirmDeletion, shelf!Shown, shelf!RoomTimeLine, ShelfInv, ListTypes
<1>2. BatchTypes'
  BY DEF shelf!ConfirmDeletion, shelf!serverVars, ShelfInv, BatchTypes
<1> QED
  BY <1>1, <1>2, ShelfNames, ShelfDeleteStep DEF shelf!ConfirmDeletion, shelf!serverVars, shelf!signVars

LEMMA ShelfDeleteSelectedStep ==
  ASSUME ShelfInv, shelf!DeleteSelected
  PROVE  ShelfInv'
<1>1. selection # <<>> /\ selection \in Seq(Files) /\ \A i \in 1 .. Len(selection) : selection[i] \in sent
  BY DEF shelf!DeleteSelected, ShelfInv, BatchTypes
<1>2. PICK f \in sent : f = selection[1]
  <2>1. Len(selection) # 0 /\ Len(selection) \in Nat
    BY <1>1, EmptySeq
  <2> QED
    BY <1>1, <2>1
<1>3. BatchTypes'
  <2>1. batch' = [array |-> selection, own |-> TRUE, i |-> 1] /\ selection' = selection /\ sent' = sent
    BY DEF shelf!DeleteSelected, shelf!serverVars
  <2>2. batch' \in Batch /\ batch'.array = selection
    BY <1>1, <2>1 DEF Batch
  <2> QED
    BY <1>1, <2>1, <2>2 DEF BatchTypes
<1> QED
  BY <1>2, <1>3, ShelfNames, ShelfDeleteStep DEF shelf!DeleteSelected, shelf!serverVars, shelf!signVars

\* The media are deleted, and the event is redacted.
LEMMA ShelfMediaStep ==
  ASSUME ShelfInv, NEW a \in shelf!Asked,
         shelf!DeleteMedia(a) \/ shelf!DeleteMediaFails(a) \/ shelf!DeleteMessage(a)
  PROVE  ShelfInv'
<1> USE DEF shelf!serverVars, shelf!listVars, shelf!signVars
<1>1. /\ doing[a].at # "idle"
      /\ \E next \in {"media", "redact", "clean"} : doing' = [doing EXCEPT ![a].at = next]
      /\ UNCHANGED <<sent, library, flagged, seals, redactions, load, late, selection, batch, spoilt,
                     active, hash, hashing, sessions, mixed, opens>>
  BY DEF shelf!DeleteMedia, shelf!DeleteMediaFails, shelf!DeleteMessage
<1>2. doing[a].file \in sent
  BY <1>1 DEF ShelfInv, DoingTypes
<1>3. PICK f \in sent : f = doing[a].file
  BY <1>2
<1>4. lost' \subseteq sent
  BY <1>2 DEF shelf!DeleteMedia, shelf!DeleteMediaFails, shelf!DeleteMessage, ShelfInv, ServerTypes
<1>5. UNCHANGED <<redacted, sealed, shelfNews>> \/ \E g \in sent : Redacts(g)
  <2>1. CASE shelf!DeleteMessage(a)
    <3>1. shelf!Redact({f}, {})
      BY <1>3, <2>1 DEF shelf!DeleteMessage
    <3> QED
      BY <3>1, ShelfRedact DEF ShelfInv
  <2>2. CASE shelf!DeleteMedia(a) \/ shelf!DeleteMediaFails(a)
    BY <2>2 DEF shelf!DeleteMedia, shelf!DeleteMediaFails
  <2> QED
    BY <2>1, <2>2
<1>6. DoingTypes' /\ \A g : InDeletion(g) => InDeletion(g)'
  BY <1>1, ShelfDoingAt DEF ShelfInv
<1>7. library' = library \ {} /\ flagged' = flagged \ {} /\ UNCHANGED <<sent, redactions, late>>
  BY <1>1
<1>8. KnownInv' /\ (\A g : InNews(g) => InNews(g)') /\ redacted \subseteq redacted'
  BY <1>5, <1>7, ShelfKnown
<1>9. ServerTypes' /\ ListTypes' /\ SignTypes' /\ SealsInv'
  BY <1>1, <1>4, <1>5, ShelfDeletionTypes
<1>10. FoundInv'
  <2>1. \A g : g \in {} \/ InDeletion(g) => InDeletion(g)'
    BY <1>6
  <2>2. FoundInv /\ KnownInv
    BY DEF ShelfInv
  <2> QED
    BY <1>1, <1>7, <1>8, <2>1, <2>2, ShelfFound
<1>11. BatchTypes'
  BY <1>1 DEF ShelfInv, BatchTypes
<1> QED
  BY <1>6, <1>8, <1>9, <1>10, <1>11 DEF ShelfInv

\* A redaction fails: the file is off the list, and stays in the room.
LEMMA ShelfFailStep ==
  ASSUME ShelfInv, NEW a \in shelf!Asked, shelf!DeleteMessageFails(a)
  PROVE  ShelfInv'
<1> USE DEF shelf!serverVars, shelf!listVars, shelf!signVars
<1>1. /\ doing[a].at # "idle" /\ doing' = [doing EXCEPT ![a] = shelf!Idle] /\ spoilt' = spoilt \cup {doing[a].file}
      /\ batch' = (IF a = "all" THEN shelf!NoBatch ELSE batch)
      /\ UNCHANGED <<sent, redacted, lost, sealed, shelfNews, library, flagged, seals, redactions, load, late,
                     selection, active, hash, hashing, sessions, mixed, opens>>
  BY DEF shelf!DeleteMessageFails
<1>2. DoingTypes' /\ \A g : InDeletion(g) => InDeletion(g)' \/ g = doing[a].file
  <2>1. shelf!Idle.at = "idle"
    BY ShelfNames
  <2> QED
    BY <1>1, <2>1, ShelfNames, ShelfDoing DEF ShelfInv
<1>3. library' = library \ {} /\ flagged' = flagged \ {} /\ UNCHANGED <<sent, redactions, late>>
  BY <1>1
<1>4. KnownInv' /\ (\A g : InNews(g) => InNews(g)') /\ redacted \subseteq redacted'
  BY <1>1, <1>3, ShelfKnown
<1>5. ServerTypes' /\ ListTypes' /\ SignTypes' /\ SealsInv'
  BY <1>1, ShelfDeletionTypes DEF ShelfInv, ServerTypes
<1>6. FoundInv'
  <2>1. \A g : g \in {} \/ InDeletion(g) => InDeletion(g)' \/ g \in spoilt'
    BY <1>1, <1>2
  <2>2. FoundInv /\ KnownInv /\ spoilt \subseteq spoilt'
    BY <1>1 DEF ShelfInv
  <2> QED
    BY <1>1, <1>3, <1>4, <2>1, <2>2, ShelfFound
<1>7. BatchTypes'
  <2>1. shelf!NoBatch \in Batch /\ shelf!NoBatch.array = <<>> /\ Len(<<>>) = 0
    BY DEF shelf!NoBatch, Batch
  <2> QED
    BY <1>1, <2>1 DEF ShelfInv, BatchTypes
<1> QED
  BY <1>2, <1>4, <1>5, <1>6, <1>7 DEF ShelfInv

\* The event is taken from the list with its signatures, which are redacted, or
\* not; the next of the selection follows.
LEMMA ShelfRemoveStep ==
  ASSUME ShelfInv, NEW a \in shelf!Asked, NEW ok \in BOOLEAN, shelf!RemoveFromTimeline(a, ok)
  PROVE  ShelfInv'
<1> USE DEF shelf!signVars, shelf!NoFile
<1>1. PICK d : d = doing[a]
  OBVIOUS
<1>2. PICK more : more = (a = "all" /\ batch.i < Len(batch.array))
  OBVIOUS
<1>3. PICK f : f = IF more THEN batch.array[batch.i + 1] ELSE "nothing"
  OBVIOUS
<1>4. PICK e : e = IF more THEN [file |-> f, seals |-> shelf!SealsOf(f), at |-> "media"] ELSE shelf!Idle
  OBVIOUS
<1>5. /\ d.at = "clean" /\ doing' = [doing EXCEPT ![a] = e]
      /\ \/ shelf!Redact({d.file}, d.seals) /\ spoilt' = spoilt
         \/ spoilt' = spoilt \cup {d.file} /\ UNCHANGED <<redacted, sealed, shelfNews>>
      /\ \/ batch' = batch
         \/ batch' = shelf!NoBatch
         \/ batch' = [batch EXCEPT !.i = @ + 1]
      /\ selection' = selection \/ selection' = <<>>
      /\ library' = library \ {d.file, f} /\ flagged' = flagged \ {d.file, f} /\ seals' \subseteq seals
      /\ UNCHANGED <<sent, lost, redactions, load, late, active, hash, hashing, sessions, mixed, opens>>
  <2>1. shelf!RemoveLibraryEvents({d.file, f}, d.seals \cup shelf!SealsOf(f))
    BY <1>1, <1>2, <1>3 DEF shelf!RemoveFromTimeline
  <2>2. d.at = "clean" /\ doing' = [doing EXCEPT ![a] = e]
    BY <1>1, <1>2, <1>3, <1>4 DEF shelf!RemoveFromTimeline
  <2>3. \/ shelf!Redact({d.file}, d.seals) /\ spoilt' = spoilt
        \/ spoilt' = spoilt \cup {d.file} /\ UNCHANGED <<redacted, sealed, shelfNews>>
    BY <1>1 DEF shelf!RemoveFromTimeline
  <2> QED
    BY <2>1, <2>2, <2>3 DEF shelf!RemoveFromTimeline, shelf!RemoveLibraryEvents
<1>6. d \in Deletion /\ d.file \in sent
  BY <1>1, <1>5 DEF ShelfInv, DoingTypes
<1>7. PICK g \in sent : g = d.file
  BY <1>6
<1>8. UNCHANGED <<redacted, sealed, shelfNews>> \/ \E h \in sent : Redacts(h)
  BY <1>5, <1>7, ShelfRedact DEF ShelfInv
<1>9. more => f \in sent
  <2> SUFFICES ASSUME more PROVE f \in sent
    OBVIOUS
  <2>1. batch \in Batch /\ batch.i \in Nat /\ batch.array \in Seq(Files)
    BY DEF ShelfInv, BatchTypes, Batch
  <2>3. batch.i < Len(batch.array)
    BY <1>2, Zenon
  <2>2. batch.i + 1 \in 1 .. Len(batch.array)
    BY <2>1, <2>3
  <2> QED
    BY <1>3, <2>2 DEF ShelfInv, BatchTypes
<1>10. /\ e \in Deletion
       /\ IF e.at = "idle" THEN e = shelf!Idle ELSE e.file \in sent
       /\ more => e.at # "idle" /\ e.file = f
  <2>1. CASE more
    <3>1. e = [file |-> f, seals |-> shelf!SealsOf(f), at |-> "media"] /\ f \in Files
      BY <1>4, <1>9, <2>1 DEF ShelfInv, ServerTypes
    <3> QED
      BY <1>9, <2>1, <3>1, SealsOfType DEF Deletion
  <2>2. CASE ~more
    BY <1>4, <2>2, ShelfNames
  <2> QED
    BY <2>1, <2>2
<1>11. /\ DoingTypes' /\ \A h : InDeletion(h) => InDeletion(h)' \/ h = g
       /\ more => InDeletion(f)'
  <2>1. /\ DoingTypes' /\ \A h : InDeletion(h) => InDeletion(h)' \/ h = doing[a].file
        /\ e.at # "idle" => InDeletion(e.file)'
    BY <1>5, <1>10, ShelfDoing DEF ShelfInv
  <2> QED
    BY <1>1, <1>7, <1>10, <2>1
<1>12. KnownInv' /\ (\A h : InNews(h) => InNews(h)') /\ redacted \subseteq redacted'
  BY <1>5, <1>8, ShelfKnown
<1>13. ServerTypes' /\ ListTypes' /\ SignTypes' /\ SealsInv'
  BY <1>5, <1>8, ShelfDeletionTypes DEF ShelfInv, ServerTypes
<1>14. FoundInv'
  <2>1. g \in redacted' \/ g \in spoilt'
    BY <1>5, <1>7 DEF shelf!Redact
  <2>2. ~more => f \notin sent
    BY <1>3, ShelfNames DEF ShelfInv, ServerTypes
  <2>3. \A h : h \in {d.file, f} \/ InDeletion(h) =>
                 InDeletion(h)' \/ h \in redacted' \/ h \in spoilt' \/ h \notin sent
    BY <1>2, <1>7, <1>11, <2>1, <2>2
  <2>4. FoundInv /\ KnownInv /\ spoilt \subseteq spoilt'
    BY <1>5 DEF ShelfInv
  <2> QED
    BY <1>5, <1>12, <2>3, <2>4, ShelfFound
<1>15. BatchTypes'
  <2>1. shelf!NoBatch \in Batch /\ shelf!NoBatch.array = <<>> /\ Len(<<>>) = 0 /\ <<>> \in Seq(Files)
    BY DEF shelf!NoBatch, Batch
  <2>2. batch \in Batch /\ \A i \in 1 .. Len(batch.array) : batch.array[i] \in sent
    BY DEF ShelfInv, BatchTypes
  <2>3. batch' \in Batch /\ (batch'.array = batch.array \/ batch'.array = <<>>)
    BY <1>5, <2>1, <2>2 DEF Batch
  <2>4. \A i \in 1 .. Len(batch'.array) : batch'.array[i] \in sent
    BY <2>1, <2>2, <2>3
  <2>5. selection' \in Seq(Files) /\ \A i \in 1 .. Len(selection') : selection'[i] \in sent
    <3>1. selection \in Seq(Files) /\ (\A i \in 1 .. Len(selection) : selection[i] \in sent)
      BY DEF ShelfInv, BatchTypes
    <3>2. CASE selection' = selection
      BY <3>1, <3>2
    <3>3. CASE selection' = <<>>
      BY <3>3
    <3>4. selection' = selection \/ selection' = <<>>
      BY <1>5
    <3> QED
      BY <3>2, <3>3, <3>4
  <2> QED
    BY <1>5, <2>3, <2>4, <2>5 DEF BatchTypes
<1> QED
  BY <1>11, <1>12, <1>13, <1>14, <1>15 DEF ShelfInv

LEMMA ShelfStep ==
  ASSUME ShelfInv, shelf!LibraryNext \/ UNCHANGED shelfVars
  PROVE  ShelfInv'
<1>1. CASE UNCHANGED shelfVars
  <2>1. BatchTypes'
    BY <1>1 DEF shelfVars, ShelfInv, BatchTypes
  <2> QED
    BY <1>1, <2>1, ShelfTickStep DEF shelfVars
<1>2. CASE shelf!InitFileLibrary \/ shelf!LibraryLoaded \/ shelf!LoadFromSlidingSync
  BY <1>2, ShelfOpenStep, ShelfLoadedStep, ShelfSyncStep
<1>3. ASSUME NEW f \in Files, shelf!Upload(f) \/ shelf!ConfirmDeletion(f)
      PROVE  ShelfInv'
  BY <1>3, ShelfUploadStep, ShelfConfirmStep
<1>4. CASE \/ \E f \in Files : shelf!AddToSelection(f) \/ shelf!RemoveFromSelection(f)
           \/ shelf!SelectAll \/ shelf!UnselectAll \/ shelf!SetFilter
  BY <1>4, ShelfSelectStep
<1>5. CASE shelf!DeleteSelected
  BY <1>5, ShelfDeleteSelectedStep
<1>6. ASSUME NEW a \in shelf!Asked,
             \/ shelf!DeleteMedia(a) \/ shelf!DeleteMediaFails(a) \/ shelf!DeleteMessage(a)
             \/ shelf!DeleteMessageFails(a) \/ \E ok \in BOOLEAN : shelf!RemoveFromTimeline(a, ok)
      PROVE  ShelfInv'
  BY <1>6, ShelfMediaStep, ShelfFailStep, ShelfRemoveStep
<1>7. ASSUME NEW f \in Files,
             \/ shelf!HandleSigning(f) \/ shelf!MakeHash(f) \/ shelf!FinishedSigningMessage(f)
             \/ shelf!YiviSessionError(f)
      PROVE  ShelfInv'
  BY <1>7, ShelfSignStep
<1>8. CASE shelf!Cancel \/ shelf!HandleEsc
  <2>1. SignTypes' /\ SealsInv' /\ ServerTypes
    BY <1>8 DEF shelf!Cancel, shelf!HandleEsc, shelf!serverVars, ShelfInv, SignTypes, SealsInv, shelf!NoFile
  <2>2. sealed' \subseteq shelf!Seals
    BY <1>8, <2>1 DEF shelf!Cancel, shelf!HandleEsc, shelf!serverVars, ServerTypes
  <2> QED
    BY <1>8, <2>1, <2>2, ShelfSignTypes
       DEF shelf!Cancel, shelf!HandleEsc, shelf!serverVars, shelf!listVars, shelf!deletionVars
<1> QED
  BY <1>1, <1>2, <1>3, <1>4, <1>5, <1>6, <1>7, <1>8 DEF shelf!LibraryNext

LEMMA ShelfStart ==
  ASSUME shelf!LibraryInit
  PROVE  ShelfInv
<1> USE DEF shelf!LibraryInit, shelf!NoFile
<1>0. Len(<<>>) = 0 /\ <<>> \in Seq(News) /\ <<>> \in Seq(Files)
  OBVIOUS
<1>1. ServerTypes
  BY <1>0 DEF ServerTypes
<1>2. ListTypes
  BY DEF ListTypes, shelf!NoLoad, Load
<1>3. DoingTypes
  BY ShelfNames DEF DoingTypes
<1>4. BatchTypes
  <2>1. shelf!NoBatch \in Batch /\ shelf!NoBatch.array = <<>>
    BY DEF shelf!NoBatch, Batch
  <2> QED
    BY <1>0, <2>1 DEF BatchTypes
<1>5. SignTypes /\ SealsInv
  BY DEF SignTypes, SealsInv
<1>6. KnownInv
  BY <1>0 DEF KnownInv
<1>7. FoundInv
  BY DEF FoundInv
<1> QED
  BY <1>1, <1>2, <1>3, <1>4, <1>5, <1>6, <1>7 DEF ShelfInv

LEMMA ShelfAgrees == ShelfInv => shelf!LibraryAgrees /\ shelf!SealsMatch
<1> SUFFICES ASSUME ShelfInv PROVE shelf!LibraryAgrees /\ shelf!SealsMatch
  OBVIOUS
<1>1. shelf!SealsMatch
  BY DEF ShelfInv, SealsInv, shelf!SealsMatch, shelf!NoFile
<1>2. shelf!LibraryAgrees
  <2> SUFFICES ASSUME opens > 0, ~load.asked, shelfNews = <<>>, \A a \in shelf!Asked : doing[a] = shelf!Idle
               PROVE  sent \ redacted \subseteq shelf!Shown \cup spoilt /\ shelf!Shown \cap redacted \subseteq late
    BY DEF shelf!LibraryAgrees
  <2>1. Len(shelfNews) = 0
    OBVIOUS
  <2>2. redacted = redactions /\ flagged \subseteq redacted
    <3>1. redacted \ redactions = {}
      BY <2>1 DEF ShelfInv, KnownInv
    <3>2. redactions \subseteq redacted /\ flagged \subseteq redactions
      BY DEF ShelfInv, KnownInv
    <3> QED
      BY <3>1, <3>2
  <2>3. \A f : ~InNews(f) /\ ~InAnswer(f)
    BY <2>1 DEF InNews, InAnswer
  <2>4. \A f : ~InDeletion(f)
    BY ShelfNames DEF InDeletion
  <2>5. shelf!Shown = library \ flagged
    BY DEF shelf!Shown, shelf!RoomTimeLine
  <2> QED
    BY <2>2, <2>3, <2>4, <2>5 DEF ShelfInv, FoundInv, KnownInv
<1> QED
  BY <1>1, <1>2

LEMMA ShelfInvTypes == ShelfInv => shelf!LibraryTypeOK
<1> SUFFICES ASSUME ShelfInv PROVE shelf!LibraryTypeOK
  OBVIOUS
<1>1. shelf!ToSet(selection) \subseteq Files
  <2>1. selection \in Seq(Files)
    BY DEF ShelfInv, BatchTypes
  <2>2. DOMAIN selection = 1 .. Len(selection) /\ \A i \in 1 .. Len(selection) : selection[i] \in Files
    BY <2>1
  <2> QED
    BY <2>2 DEF shelf!ToSet
<1>2. \A a \in shelf!Asked : doing[a].at \in {"idle", "media", "redact", "clean"}
  BY DEF ShelfInv, DoingTypes, Deletion
<1>3. batch.i \in Nat
  BY DEF ShelfInv, BatchTypes, Batch
<1> QED
  BY <1>1, <1>2, <1>3
     DEF shelf!LibraryTypeOK, ShelfInv, ServerTypes, ListTypes, SignTypes, KnownInv, shelf!NoFile

\* When all is answered and told, the library of a room shows the files the room
\* has, but for those a failed deletion took away or an old answer brought back;
\* and a signature is of the file whose hash was signed, if one signing is over
\* before the next begins.
THEOREM LibrariesAgree == Spec => []FilesAgree
<1> DEFINE I == part = "shelf" => ShelfInv
<1>1. Init => I
  BY Parts, ShelfStart
<1>2. I /\ [Next]_vars => I'
  BY Parts, ShelfStep
<1>3. I => FilesAgree
  BY ShelfAgrees DEF FilesAgree
<1> QED
  BY <1>1, <1>2, <1>3, PTL DEF Spec

-----------------------------------------------------------------------------
(* Frames: the types, and how much can be under way to a miniclient.       *)

HubOrNone == Hubs \cup {NoHub}
DocState == [hub : HubOrNone, phase : {"none", "loading", "started", "ready", "in"}, fresh : BOOLEAN, back : BOOLEAN]
Letter == [from : HubOrNone, type : {"sync", "back", "auth", "update", "remove"}, back : BOOLEAN]

ParentInv ==
  /\ current \in HubOrNone /\ handlers \in HubOrNone /\ latest \in HubOrNone
  /\ pins \in [Hubs -> [on : BOOLEAN, token : HubOrNone]]
  /\ canBack \in BOOLEAN /\ ready \in BOOLEAN /\ listeners \subseteq Hubs /\ waiting \subseteq Hubs
  /\ current # NoHub => current \in listeners
FrameInv ==
  /\ src \in DocState /\ doc \in DocState /\ doc.phase # "in" /\ src.phase \in {"none", "loading", "in"}
  /\ mail \in Seq(Letter) /\ Len(mail) <= MaxMail

\* A miniclient is told that its hub is active when its changeHub goes on, and
\* that it is not when the user goes to another hub: twice for a visit.
ToldAtMost(h) ==
  /\ Len(told[h]) <= 2 * visits + 1
  /\ h \in waiting \/ h = current => Len(told[h]) <= 2 * visits
  /\ h \in waiting /\ h = current => Len(told[h]) + 1 <= 2 * visits
MiniInv ==
  /\ mini \in [Hubs -> {"absent", "undefined", "linked", "independent"}]
  /\ told \in [Hubs -> Seq(BOOLEAN)] /\ visits \in 0 .. MaxVisits
  /\ visits = 0 => current = NoHub /\ waiting = {}
  /\ \A h \in Hubs : ToldAtMost(h)

FramesInv == StoreInv /\ ParentInv /\ FrameInv /\ MiniInv

LEMMA FramesBounds == MaxMail \in Nat /\ MaxVisits \in Nat /\ NoHub \notin Hubs
  BY BoundsAssumption, NamesAssumption DEF BoundsAssumption, NamesAssumption

\* Telling the miniclients of hs adds a message to each at most.
LEMMA TellStep ==
  ASSUME told \in [Hubs -> Seq(BOOLEAN)], NEW hs, NEW on \in BOOLEAN, frames!Tell(hs, on)
  PROVE  /\ told' \in [Hubs -> Seq(BOOLEAN)]
         /\ \A h \in Hubs : /\ Len(told[h]) \in Nat /\ Len(told'[h]) \in Nat
                            /\ (h \in hs /\ Len(told'[h]) <= Len(told[h]) + 1) \/ Len(told'[h]) = Len(told[h])
<1>1. told' = [h \in Hubs |-> IF h \in hs /\ mini[h] # "absent" THEN Append(told[h], on) ELSE told[h]]
  BY DEF frames!Tell
<1>2. ASSUME NEW h \in Hubs
      PROVE  /\ told'[h] \in Seq(BOOLEAN) /\ Len(told[h]) \in Nat /\ Len(told'[h]) \in Nat
             /\ (h \in hs /\ Len(told'[h]) <= Len(told[h]) + 1) \/ Len(told'[h]) = Len(told[h])
  <2>1. PICK t \in Seq(BOOLEAN) : t = told[h]
    OBVIOUS
  <2>2. Append(t, on) \in Seq(BOOLEAN) /\ Len(t) \in Nat /\ Len(Append(t, on)) = Len(t) + 1
    BY AppendProperties
  <2>3. CASE h \in hs /\ mini[h] # "absent"
    BY <1>1, <2>1, <2>2, <2>3
  <2>4. CASE ~(h \in hs /\ mini[h] # "absent")
    BY <1>1, <2>1, <2>2, <2>4
  <2> QED
    BY <2>3, <2>4
<1>3. told' = [h \in Hubs |-> told'[h]]
  BY <1>1
<1> QED
  BY <1>2, <1>3

LEMMA EnterFrames ==
  ASSUME FramesInv, NEW h \in Hubs, frames!EnterHub(h)
  PROVE  ParentInv' /\ FrameInv' /\ MiniInv'
<1>1. /\ visits < MaxVisits /\ visits' = visits + 1 /\ h # current /\ current' = h
      /\ frames!Tell({current} \ {NoHub}, FALSE)
      /\ waiting' = waiting \cup {h} /\ UNCHANGED mini
  BY DEF frames!EnterHub
<1>2. ParentInv'
  BY DEF frames!EnterHub, FramesInv, ParentInv, HubOrNone
<1>3. FrameInv'
  <2>1. src' \in DocState /\ src'.phase = "loading"
    BY DEF frames!EnterHub, frames!HubAuth, FramesInv, ParentInv, DocState, HubOrNone
  <2> QED
    BY <2>1 DEF frames!EnterHub, FramesInv, FrameInv
<1>4. MiniInv'
  <2>1. /\ told' \in [Hubs -> Seq(BOOLEAN)]
        /\ \A g \in Hubs : /\ Len(told[g]) \in Nat /\ Len(told'[g]) \in Nat
                           /\ (g = current /\ Len(told'[g]) <= Len(told[g]) + 1) \/ Len(told'[g]) = Len(told[g])
    <3>1. PICK hs : hs = {current} \ {NoHub}
      OBVIOUS
    <3>2. frames!Tell(hs, FALSE)
      BY <1>1, <3>1
    <3>3. told \in [Hubs -> Seq(BOOLEAN)] /\ FALSE \in BOOLEAN
      BY DEF FramesInv, MiniInv
    <3>4. /\ told' \in [Hubs -> Seq(BOOLEAN)]
          /\ \A g \in Hubs : /\ Len(told[g]) \in Nat /\ Len(told'[g]) \in Nat
                             /\ (g \in hs /\ Len(told'[g]) <= Len(told[g]) + 1) \/ Len(told'[g]) = Len(told[g])
      BY <3>2, <3>3, TellStep
    <3> QED
      BY <3>1, <3>4
  <2>2. visits \in Nat /\ visits' \in 0 .. MaxVisits /\ visits' # 0
    BY <1>1, FramesBounds DEF FramesInv, MiniInv
  <2>3. ASSUME NEW g \in Hubs PROVE ToldAtMost(g)'
    <3>1. PICK l \in Nat, k \in Nat : l = Len(told[g]) /\ k = Len(told'[g])
      BY <2>1
    <3>2. (g = current /\ k <= l + 1) \/ k = l
      BY <2>1, <3>1
    <3>3. /\ l <= 2 * visits + 1
          /\ g \in waiting \/ g = current => l <= 2 * visits
          /\ g \in waiting /\ g = current => l + 1 <= 2 * visits
      BY <3>1 DEF FramesInv, MiniInv, ToldAtMost
    <3>4. /\ k <= 2 * visits' + 1
          /\ g \in waiting' \/ g = current' => k <= 2 * visits'
          /\ g \in waiting' /\ g = current' => k + 1 <= 2 * visits'
      BY <1>1, <2>2, <3>2, <3>3
    <3> QED
      BY <3>1, <3>4 DEF ToldAtMost
  <2> QED
    BY <1>1, <2>1, <2>2, <2>3 DEF FramesInv, MiniInv
<1> QED
  BY <1>2, <1>3, <1>4

LEMMA LeaveFrames ==
  ASSUME FramesInv, frames!LeaveHub
  PROVE  ParentInv' /\ FrameInv' /\ MiniInv'
<1>1. /\ current # NoHub /\ current' = NoHub /\ frames!Tell({current}, FALSE)
      /\ UNCHANGED <<waiting, visits, mini>>
  BY DEF frames!LeaveHub
<1>2. ParentInv'
  BY DEF frames!LeaveHub, FramesInv, ParentInv, HubOrNone
<1>3. FrameInv'
  <2>1. frames!NoDoc \in DocState /\ frames!NoDoc.phase = "none"
    BY DEF frames!NoDoc, DocState, HubOrNone
  <2> QED
    BY <2>1 DEF frames!LeaveHub, FramesInv, FrameInv
<1>4. MiniInv'
  <2>1. /\ told' \in [Hubs -> Seq(BOOLEAN)]
        /\ \A g \in Hubs : /\ Len(told[g]) \in Nat /\ Len(told'[g]) \in Nat
                           /\ (g = current /\ Len(told'[g]) <= Len(told[g]) + 1) \/ Len(told'[g]) = Len(told[g])
    <3>1. PICK hs : hs = {current}
      OBVIOUS
    <3>2. frames!Tell(hs, FALSE)
      BY <1>1, <3>1
    <3>3. told \in [Hubs -> Seq(BOOLEAN)] /\ FALSE \in BOOLEAN
      BY DEF FramesInv, MiniInv
    <3>4. /\ told' \in [Hubs -> Seq(BOOLEAN)]
          /\ \A g \in Hubs : /\ Len(told[g]) \in Nat /\ Len(told'[g]) \in Nat
                             /\ (g \in hs /\ Len(told'[g]) <= Len(told[g]) + 1) \/ Len(told'[g]) = Len(told[g])
      BY <3>2, <3>3, TellStep
    <3> QED
      BY <3>1, <3>4
  <2>2. visits \in Nat /\ visits' = visits /\ visits # 0
    BY <1>1 DEF FramesInv, MiniInv
  <2>3. ASSUME NEW g \in Hubs PROVE ToldAtMost(g)'
    <3>1. PICK l \in Nat, k \in Nat : l = Len(told[g]) /\ k = Len(told'[g])
      BY <2>1
    <3>2. (g = current /\ k <= l + 1) \/ k = l
      BY <2>1, <3>1
    <3>3. /\ l <= 2 * visits + 1
          /\ g \in waiting \/ g = current => l <= 2 * visits
          /\ g \in waiting /\ g = current => l + 1 <= 2 * visits
      BY <3>1 DEF FramesInv, MiniInv, ToldAtMost
    <3>4. /\ k <= 2 * visits' + 1
          /\ g \in waiting' \/ g = current' => k <= 2 * visits'
          /\ g \in waiting' /\ g = current' => k + 1 <= 2 * visits'
      BY <1>1, <2>2, <3>2, <3>3, FramesBounds
    <3> QED
      BY <3>1, <3>4 DEF ToldAtMost
  <2> QED
    BY <1>1, <2>1, <2>2, <2>3 DEF FramesInv, MiniInv
<1> QED
  BY <1>2, <1>3, <1>4

\* What the frame does is in the document and the mail.
LEMMA LetterStep ==
  ASSUME FrameInv, NEW type \in {"sync", "back", "auth", "update", "remove"}, frames!Post(type),
         doc' \in DocState
  PROVE  mail' \in Seq(Letter) /\ Len(mail') <= MaxMail
<1>1. PICK m : m = [from |-> doc.hub, type |-> type, back |-> doc'.back]
  OBVIOUS
<1>2. m \in Letter
  BY <1>1 DEF FrameInv, DocState, Letter
<1>3. Len(mail) < MaxMail /\ mail' = Append(mail, m) /\ mail \in Seq(Letter)
  BY <1>1 DEF frames!Post, FrameInv
<1> QED
  BY <1>2, <1>3, AppendProperties, FramesBounds

LEMMA DocFrames ==
  ASSUME FramesInv,
         \/ frames!Loaded \/ frames!StartMessageBox \/ frames!Connected \/ frames!StoreAccessToken
         \/ frames!ToggleSidebar \/ frames!UpdateLocalStore \/ frames!ClearAuth
  PROVE  ParentInv' /\ FrameInv' /\ MiniInv'
<1> USE DEF frames!parentVars, frames!miniVars
<1>0. src \in DocState /\ doc \in DocState /\ mail \in Seq(Letter) /\ Len(mail) <= MaxMail /\ doc.phase # "in"
      /\ src.phase \in {"none", "loading", "in"}
  BY DEF FramesInv, FrameInv
<1>1. ParentInv' /\ MiniInv'
  BY DEF frames!Loaded, frames!StartMessageBox, frames!Connected, frames!StoreAccessToken, frames!ToggleSidebar,
     frames!UpdateLocalStore, frames!ClearAuth, FramesInv, ParentInv, MiniInv, ToldAtMost
<1>2. CASE frames!Loaded
  <2>1. doc' \in DocState /\ src' \in DocState /\ doc'.phase = "loading" /\ src'.phase = "in" /\ mail' = mail
    BY <1>0, <1>2 DEF frames!Loaded, DocState
  <2> QED
    BY <1>0, <1>1, <2>1 DEF FrameInv
<1>3. CASE \/ frames!StartMessageBox \/ frames!Connected \/ frames!StoreAccessToken
           \/ frames!ToggleSidebar \/ frames!UpdateLocalStore \/ frames!ClearAuth
  <2>1. doc' \in DocState /\ doc'.phase # "in" /\ src' = src
    BY <1>0, <1>3 DEF frames!StartMessageBox, frames!Connected, frames!StoreAccessToken, frames!ToggleSidebar,
       frames!UpdateLocalStore, frames!ClearAuth, DocState
  <2>2. \E type \in {"sync", "back", "auth", "update", "remove"} : frames!Post(type)
    BY <1>3 DEF frames!StartMessageBox, frames!Connected, frames!StoreAccessToken, frames!ToggleSidebar,
       frames!UpdateLocalStore, frames!ClearAuth, frames!SaysBackState
  <2>3. mail' \in Seq(Letter) /\ Len(mail') <= MaxMail
    BY <2>1, <2>2, LetterStep DEF FramesInv
  <2> QED
    BY <1>0, <1>1, <2>1, <2>3 DEF FrameInv
<1> QED
  BY <1>2, <1>3

\* A message that is heard can bring any letter's contents.
LEMMA MailHead ==
  ASSUME FrameInv, mail # <<>>
  PROVE  /\ Head(mail) \in Letter /\ Tail(mail) \in Seq(Letter) /\ Len(Tail(mail)) <= MaxMail
<1>1. mail \in Seq(Letter) /\ Len(mail) \in Nat /\ Len(mail) <= MaxMail
  BY DEF FrameInv
<1> QED
  BY <1>1, HeadTailProperties, FramesBounds

\* changeHub goes on: what was to come has come.
LEMMA ContinueStep ==
  ASSUME MiniInv, current \in HubOrNone, NEW h \in Hubs, frames!Continue(h), UNCHANGED <<current, mini, visits>>
  PROVE  MiniInv'
<1>1. PICK hs : hs = IF h \in waiting THEN {h} ELSE {}
  OBVIOUS
<1>2. waiting' = waiting \ {h} /\ frames!Tell(hs, TRUE)
  <2>1. CASE h \in waiting
    BY <1>1, <2>1 DEF frames!Continue
  <2>2. CASE h \notin waiting
    BY <1>1, <2>2 DEF frames!Continue
  <2> QED
    BY <2>1, <2>2
<1>3. told \in [Hubs -> Seq(BOOLEAN)] /\ TRUE \in BOOLEAN
  BY DEF MiniInv
<1>4. /\ told' \in [Hubs -> Seq(BOOLEAN)]
      /\ \A g \in Hubs : /\ Len(told[g]) \in Nat /\ Len(told'[g]) \in Nat
                         /\ (g \in hs /\ Len(told'[g]) <= Len(told[g]) + 1) \/ Len(told'[g]) = Len(told[g])
  BY <1>2, <1>3, TellStep
<1>5. visits \in Nat /\ visits' = visits
  BY DEF MiniInv
<1>6. ASSUME NEW g \in Hubs PROVE ToldAtMost(g)'
  <2>1. PICK l \in Nat, k \in Nat : l = Len(told[g]) /\ k = Len(told'[g])
    BY <1>4
  <2>2. (g = h /\ h \in waiting /\ k <= l + 1) \/ k = l
    BY <1>1, <1>4, <2>1
  <2>3. /\ l <= 2 * visits + 1
        /\ g \in waiting \/ g = current => l <= 2 * visits
        /\ g \in waiting /\ g = current => l + 1 <= 2 * visits
    BY <2>1 DEF MiniInv, ToldAtMost
  <2>4. /\ k <= 2 * visits' + 1
        /\ g \in waiting' \/ g = current' => k <= 2 * visits'
        /\ g \in waiting' /\ g = current' => k + 1 <= 2 * visits'
    BY <1>2, <1>5, <2>2, <2>3
  <2> QED
    BY <2>1, <2>4 DEF ToldAtMost
<1> QED
  BY <1>2, <1>4, <1>5, <1>6 DEF MiniInv

LEMMA ReceiveFrames ==
  ASSUME FramesInv, frames!Receive
  PROVE  ParentInv' /\ FrameInv' /\ MiniInv'
<1> USE DEF frames!parentVars, frames!frameVars
<1>1. PICK m : m = Head(mail)
  OBVIOUS
<1>2. /\ mail # <<>> /\ mail' = Tail(mail) /\ UNCHANGED <<src, doc, mini, visits>>
      /\ \/ UNCHANGED <<current, pins, canBack, listeners, latest, ready, handlers, waiting, store, told>>
         \/ /\ m.from \in listeners /\ ready' = TRUE /\ frames!Continue(m.from)
            /\ UNCHANGED <<current, pins, canBack, listeners, latest, store>>
         \/ /\ m.from \in listeners /\ frames!HandleMessage(m)
            /\ UNCHANGED <<current, listeners, latest, ready, handlers, waiting, told>>
         \/ /\ UNCHANGED <<canBack, pins, store>>
            /\ UNCHANGED <<current, listeners, latest, ready, handlers, waiting, told>>
  BY <1>1 DEF frames!Receive
<1>3. m \in Letter /\ mail' \in Seq(Letter) /\ Len(mail') <= MaxMail
  BY <1>1, <1>2, MailHead DEF FramesInv
<1>4. FrameInv'
  BY <1>2, <1>3 DEF FramesInv, FrameInv
<1>5. CASE UNCHANGED <<current, pins, canBack, listeners, latest, ready, handlers, waiting, told>>
  BY <1>2, <1>4, <1>5 DEF FramesInv, ParentInv, MiniInv, ToldAtMost
<1>6. CASE /\ m.from \in listeners /\ ready' = TRUE /\ frames!Continue(m.from)
           /\ UNCHANGED <<current, pins, canBack, listeners, latest, store>>
  <2>1. PICK h \in Hubs : h = m.from
    BY <1>6 DEF FramesInv, ParentInv
  <2>2. frames!Continue(h)
    BY <1>6, <2>1
  <2>3. MiniInv'
    BY <1>2, <1>6, <2>2, ContinueStep DEF FramesInv, ParentInv
  <2>4. waiting' \subseteq Hubs /\ handlers' \in HubOrNone
    BY <2>2 DEF frames!Continue, FramesInv, ParentInv, HubOrNone
  <2> QED
    BY <1>4, <1>6, <2>3, <2>4 DEF FramesInv, ParentInv
<1>7. CASE /\ m.from \in listeners /\ frames!HandleMessage(m)
           /\ UNCHANGED <<current, listeners, latest, ready, handlers, waiting, told>>
  <2>1. pins' \in [Hubs -> [on : BOOLEAN, token : HubOrNone]]
    <3>1. current # NoHub => current \in Hubs
      BY DEF FramesInv, ParentInv, HubOrNone
    <3> QED
      BY <1>3, <1>7, <3>1 DEF frames!HandleMessage, FramesInv, ParentInv, Letter
  <2>2. canBack' \in BOOLEAN
    BY <1>3, <1>7 DEF frames!HandleMessage, FramesInv, ParentInv, Letter
  <2>3. ParentInv'
    BY <1>7, <2>1, <2>2 DEF FramesInv, ParentInv
  <2>4. MiniInv'
    BY <1>2, <1>7 DEF FramesInv, MiniInv, ToldAtMost
  <2> QED
    BY <1>4, <2>3, <2>4
<1> QED
  BY <1>2, <1>5, <1>6, <1>7

LEMMA RemoveFrames ==
  ASSUME FramesInv, frames!RemoveAccessToken
  PROVE  ParentInv' /\ FrameInv' /\ MiniInv'
<1>1. ParentInv'
  BY DEF frames!RemoveAccessToken, FramesInv, ParentInv, HubOrNone
<1>2. FrameInv'
  <2>1. frames!NoDoc \in DocState /\ frames!NoDoc.phase = "none"
    BY DEF frames!NoDoc, DocState, HubOrNone
  <2>2. mail' \in Seq(Letter) /\ Len(mail') = 0
    BY DEF frames!RemoveAccessToken
  <2> QED
    BY <2>1, <2>2, FramesBounds DEF frames!RemoveAccessToken, FrameInv
<1>3. MiniInv'
  <2>1. mini' = [h \in Hubs |-> "absent"] /\ told' = [h \in Hubs |-> <<>>] /\ visits' = visits
        /\ current' = NoHub /\ waiting' = {}
    BY DEF frames!RemoveAccessToken
  <2>2. <<>> \in Seq(BOOLEAN) /\ Len(<<>>) = 0
    OBVIOUS
  <2>3. told' \in [Hubs -> Seq(BOOLEAN)]
    BY <2>1, <2>2
  <2>4. visits \in Nat /\ visits' \in 0 .. MaxVisits
    BY <2>1 DEF FramesInv, MiniInv
  <2>5. ASSUME NEW h \in Hubs PROVE ToldAtMost(h)'
    <3>1. Len(told'[h]) = 0 /\ h # current' /\ h \notin waiting'
      BY <2>1, <2>2, FramesBounds
    <3> QED
      BY <2>1, <2>4, <3>1 DEF ToldAtMost
  <2> QED
    BY <2>1, <2>3, <2>4, <2>5 DEF MiniInv
<1> QED
  BY <1>1, <1>2, <1>3

\* The miniclient of a pinned hub comes, goes, and hears.
LEMMA MiniFrames ==
  ASSUME FramesInv, NEW h \in Hubs,
         frames!SetupMiniclient(h) \/ frames!HubActive(h) \/ frames!Fallback(h) \/ frames!UnpinHub(h)
  PROVE  ParentInv' /\ FrameInv' /\ MiniInv'
<1> USE DEF frames!parentVars, frames!frameVars, frames!Unknown
<1>1. FrameInv' /\ UNCHANGED <<current, waiting, visits>>
  BY DEF frames!SetupMiniclient, frames!HubActive, frames!Fallback, frames!UnpinHub, FramesInv, FrameInv
<1>2. ParentInv'
  <2>1. frames!NoPin \in [on : BOOLEAN, token : HubOrNone]
    BY DEF frames!NoPin, HubOrNone
  <2>2. pins' \in [Hubs -> [on : BOOLEAN, token : HubOrNone]]
    BY <2>1 DEF frames!SetupMiniclient, frames!HubActive, frames!Fallback, frames!UnpinHub, FramesInv, ParentInv
  <2> QED
    BY <2>2 DEF frames!SetupMiniclient, frames!HubActive, frames!Fallback, frames!UnpinHub, FramesInv, ParentInv
<1>3. mini' \in [Hubs -> {"absent", "undefined", "linked", "independent"}]
  BY DEF frames!SetupMiniclient, frames!HubActive, frames!Fallback, frames!UnpinHub, FramesInv, MiniInv
<1>4. \E t \in Seq(BOOLEAN) : /\ told' = [told EXCEPT ![h] = t]
                              /\ Len(t) <= Len(told[h]) \/ Len(t) <= 1
  <2>1. told \in [Hubs -> Seq(BOOLEAN)]
    BY DEF FramesInv, MiniInv
  <2>2. CASE frames!SetupMiniclient(h)
    <3> DEFINE b == current = h
    <3>1. b \in BOOLEAN
      OBVIOUS
    <3>2. told' = [told EXCEPT ![h] = <<b>>]
      BY <2>2 DEF frames!SetupMiniclient
    <3> HIDE DEF b
    <3>3. <<b>> \in Seq(BOOLEAN) /\ Len(<<b>>) = 1
      BY <3>1
    <3>4. PICK t : t = <<b>>
      OBVIOUS
    <3>5. t \in Seq(BOOLEAN) /\ Len(t) <= 1 /\ told' = [told EXCEPT ![h] = t]
      BY <3>2, <3>3, <3>4
    <3> QED
      BY <3>5
  <2>3. CASE frames!HubActive(h)
    <3>1. told[h] # <<>> /\ told' = [told EXCEPT ![h] = Tail(told[h])]
      BY <2>3 DEF frames!HubActive
    <3>2. Tail(told[h]) \in Seq(BOOLEAN) /\ Len(Tail(told[h])) <= Len(told[h])
      BY <2>1, <3>1, HeadTailProperties
    <3> QED
      BY <3>1, <3>2
  <2>4. CASE frames!Fallback(h)
    <3>1. told' = [told EXCEPT ![h] = told[h]]
      BY <2>1, <2>4 DEF frames!Fallback
    <3>2. told[h] \in Seq(BOOLEAN) /\ Len(told[h]) <= Len(told[h])
      BY <2>1
    <3> QED
      BY <3>1, <3>2
  <2>5. CASE frames!UnpinHub(h)
    <3>1. told' = [told EXCEPT ![h] = <<>>] /\ <<>> \in Seq(BOOLEAN) /\ Len(<<>>) <= 1
      BY <2>5 DEF frames!UnpinHub
    <3> QED
      BY <3>1
  <2> QED
    BY <2>2, <2>3, <2>4, <2>5
<1>5. PICK t \in Seq(BOOLEAN) : /\ told' = [told EXCEPT ![h] = t]
                                /\ Len(t) <= Len(told[h]) \/ Len(t) <= 1
  BY <1>4
<1>6. told \in [Hubs -> Seq(BOOLEAN)] /\ told' \in [Hubs -> Seq(BOOLEAN)] /\ told'[h] = t
      /\ \A g \in Hubs : g # h => told'[g] = told[g]
  BY <1>5 DEF FramesInv, MiniInv
<1>7. ASSUME NEW g \in Hubs PROVE ToldAtMost(g)'
  <2>1. PICK l \in Nat, k \in Nat : l = Len(told[g]) /\ k = Len(told'[g])
    BY <1>6
  <2>2. k <= l \/ k <= 1
    <3>1. CASE g = h
      BY <1>5, <1>6, <2>1, <3>1
    <3>2. CASE g # h
      BY <1>6, <2>1, <3>2
    <3> QED
      BY <3>1, <3>2
  <2>3. /\ l <= 2 * visits + 1
        /\ g \in waiting \/ g = current => l <= 2 * visits
        /\ g \in waiting /\ g = current => l + 1 <= 2 * visits
    BY <2>1 DEF FramesInv, MiniInv, ToldAtMost
  <2>4. visits \in Nat /\ (visits = 0 => g # current /\ g \notin waiting)
    BY FramesBounds DEF FramesInv, MiniInv
  <2>5. /\ k <= 2 * visits + 1
        /\ g \in waiting \/ g = current => k <= 2 * visits
        /\ g \in waiting /\ g = current => k + 1 <= 2 * visits
    <3>1. CASE k <= l
      BY <2>1, <2>3, <2>4, <3>1
    <3>2. CASE k <= 1
      BY <2>1, <2>4, <3>2
    <3> QED
      BY <2>2, <3>1, <3>2
  <2> QED
    BY <1>1, <2>1, <2>5 DEF ToldAtMost
<1>8. MiniInv'
  BY <1>1, <1>3, <1>6, <1>7 DEF FramesInv, MiniInv
<1> QED
  BY <1>1, <1>2, <1>8

LEMMA FramesStep ==
  ASSUME FramesInv, frames!Next \/ UNCHANGED framesVars
  PROVE  FramesInv'
<1>1. StoreInv'
  BY StoreStep DEF FramesInv
<1>2. CASE UNCHANGED framesVars
  BY <1>1, <1>2 DEF framesVars, FramesInv, ParentInv, FrameInv, MiniInv, ToldAtMost
<1>3. CASE frames!Next
  BY <1>1, <1>3, EnterFrames, LeaveFrames, DocFrames, ReceiveFrames, RemoveFrames, MiniFrames
     DEF frames!Next, FramesInv
<1> QED
  BY <1>2, <1>3

LEMMA FramesStart ==
  ASSUME frames!Init
  PROVE  FramesInv
<1> USE DEF frames!Init
<1>1. StoreInv
  BY DEF StoreInv, frames!StoreOfHub
<1>2. ParentInv
  <2>1. frames!NoPin \in [on : BOOLEAN, token : HubOrNone] /\ [on |-> TRUE, token |-> NoHub] \in [on : BOOLEAN, token : HubOrNone]
    BY DEF frames!NoPin, HubOrNone
  <2> QED
    BY <2>1 DEF ParentInv, HubOrNone
<1>3. FrameInv
  <2>1. frames!NoDoc \in DocState /\ frames!NoDoc.phase = "none"
    BY DEF frames!NoDoc, DocState, HubOrNone
  <2>2. mail \in Seq(Letter) /\ Len(mail) = 0
    OBVIOUS
  <2> QED
    BY <2>1, <2>2, FramesBounds DEF FrameInv
<1>4. MiniInv
  <2>1. <<>> \in Seq(BOOLEAN) /\ Len(<<>>) = 0
    OBVIOUS
  <2>2. told \in [Hubs -> Seq(BOOLEAN)] /\ \A h \in Hubs : Len(told[h]) = 0
    BY <2>1
  <2>3. \A h \in Hubs : ToldAtMost(h)
    BY <2>2, FramesBounds DEF ToldAtMost
  <2>4. mini \in [Hubs -> {"absent", "undefined", "linked", "independent"}]
    OBVIOUS
  <2> QED
    BY <2>2, <2>3, <2>4, FramesBounds DEF MiniInv
<1> QED
  BY <1>1, <1>2, <1>3, <1>4 DEF FramesInv

LEMMA FramesInvTypes == FramesInv => frames!TypeOK
<1> SUFFICES ASSUME FramesInv PROVE frames!TypeOK
  OBVIOUS
<1>1. \A h \in {src.hub, doc.hub} : h \in Hubs \cup {NoHub}
  BY DEF FramesInv, FrameInv, DocState, HubOrNone
<1>2. doc.phase \in {"none", "loading", "started", "ready"}
  BY DEF FramesInv, FrameInv, DocState
<1>3. Len(mail) <= MaxMail + 2
  <2>1. Len(mail) \in Nat
    BY DEF FramesInv, FrameInv
  <2> QED
    BY <2>1, FramesBounds DEF FramesInv, FrameInv
<1>4. ASSUME NEW h \in Hubs PROVE Len(told[h]) <= 2 * MaxVisits + 1
  <2>1. PICK l \in Nat : l = Len(told[h])
    BY DEF FramesInv, MiniInv
  <2>2. visits \in Nat /\ visits <= MaxVisits /\ l <= 2 * visits + 1
    BY <2>1, FramesBounds DEF FramesInv, MiniInv, ToldAtMost
  <2> QED
    BY <2>1, <2>2, FramesBounds
<1> QED
  BY <1>1, <1>2, <1>3, <1>4
     DEF frames!TypeOK, FramesInv, ParentInv, MiniInv, StoreInv, HubOrNone, frames!Unknown

-----------------------------------------------------------------------------
(* VideoCall: types.  A group call is made in a room: a call is started    *)
(* only where there is one, and the flow keeps it.                         *)

Begins(f) == Head(f.todo) \in {"started", "group"}

CallTypesInv ==
  /\ heard \in [Callers -> SUBSET CallRooms] /\ news \in [Callers -> SUBSET CallRooms]
  /\ sees \in [Callers -> BOOLEAN] /\ groups \subseteq CallRooms
  /\ acts \in [Callers -> 0 .. MaxActs] /\ fails \in 0 .. MaxFails
  /\ \A c \in Callers : \A f \in flows[c] : Begins(f) => f.room \in CallRooms

LEMMA TodoBegins ==
  ASSUME NEW t \in Todos, Tail(t) # <<>>, Head(Tail(t)) \in {"started", "group"}
  PROVE  Head(t) = "started"
<1>1. CASE t = <<"started", "group", "token", "connect">>
  BY <1>1
<1>2. CASE t = <<"group", "token", "connect">>
  BY <1>2
<1>3. CASE t = <<"disconnect", "session", "left", "terminate">>
  BY <1>3
<1>4. CASE t = <<"session", "left", "terminate">>
  BY <1>4
<1>5. CASE t = <<"left", "terminate">> \/ t = <<"session", "left">> \/ t = <<"token", "connect">>
  BY <1>5
<1>6. CASE t = <<"disconnect", "session", "left">>
  BY <1>6
<1>7. CASE t = <<"connect">> \/ t = <<"ended">> \/ t = <<"terminate">> \/ t = <<"left">>
  BY <1>7
<1> QED
  BY <1>1, <1>2, <1>3, <1>4, <1>5, <1>6, <1>7 DEF Todos

LEMMA AfterBegins ==
  ASSUME NEW f \in CallFlow, Begins(f) => f.room \in CallRooms
  PROVE  \A h \in video!After(f) : Begins(h) => h.room \in CallRooms
<1> SUFFICES ASSUME NEW h \in video!After(f), Begins(h) PROVE h.room \in CallRooms
  OBVIOUS
<1>1. Tail(f.todo) # <<>> /\ h = [f EXCEPT !.todo = Tail(@)]
  BY DEF video!After
<1>2. h.room = f.room /\ h.todo = Tail(f.todo) /\ f.todo \in Todos
  BY <1>1 DEF CallFlow
<1> QED
  BY <1>1, <1>2, TodoBegins DEF Begins

LEMMA PutBegins ==
  ASSUME CallInv, CallTypesInv, NEW c \in Callers, NEW f, NEW g, video!Put(c, f, g),
         \A h \in g : Begins(h) => h.room \in CallRooms
  PROVE  \A d \in Callers : \A h \in flows'[d] : Begins(h) => h.room \in CallRooms
  BY DEF CallInv, CallTypesInv, video!Put

\* A client that connects, or leaves, has begun no call.
LEMMA NotBegun ==
  /\ \A c, r : ~Begins(video!Flow(c, video!Connecting, r)) /\ ~Begins(video!Flow(c, video!Leaving, r))
  /\ \A c : ~Begins(video!EndFlow(c))
  BY DEF Begins, video!Flow, video!Connecting, video!Leaving, video!EndFlow

LEMMA ConnectBegins ==
  ASSUME CallInv, CallTypesInv, NEW c \in Callers, NEW s, NEW f, video!Connect(c, s, f)
  PROVE  \A d \in Callers : \A h \in flows'[d] : Begins(h) => h.room \in CallRooms
<1>1. CASE video!Put(c, f, {})
  BY <1>1, PutBegins
<1>2. CASE video!Put(c, f, {video!Flow(c, video!Connecting, f.room)})
  BY <1>2, PutBegins, NotBegun
<1> QED
  BY <1>1, <1>2 DEF video!Connect

LEMMA CallTypesFlow ==
  ASSUME CallInv, CallTypesInv, NEW c \in Callers, NEW f \in flows[c], video!Step(c, f) \/ video!Fail(c, f)
  PROVE  CallTypesInv'
<1> DEFINE B == \A d \in Callers : \A h \in flows'[d] : Begins(h) => h.room \in CallRooms
<1>1. f \in CallFlow /\ (Begins(f) => f.room \in CallRooms) /\ where[c] \in CallRooms \cup {NoRoom}
  BY DEF CallInv, CallTypesInv
<1>2. \A h \in video!After(f) : Begins(h) => h.room \in CallRooms
  BY <1>1, AfterBegins
<1>3. video!Put(c, f, {}) \/ video!Put(c, f, video!After(f)) => B
  BY <1>2, PutBegins
<1>4. CASE video!Fail(c, f)
  <2>1. fails < MaxFails /\ fails' = fails + 1 /\ video!Put(c, f, {})
        /\ UNCHANGED <<heard, sees, groups, news, acts>>
    BY <1>4 DEF video!Fail
  <2> QED
    BY <1>3, <2>1, BoundsAssumption DEF CallTypesInv
<1>5. ASSUME video!Step(c, f) PROVE UNCHANGED <<sees, acts, fails>>
  BY <1>5 DEF video!Step
<1>6. CASE /\ video!Step(c, f)
           /\ \/ video!Started(c, f) \/ video!Connected(c, f) \/ video!Disconnect(c, f)
              \/ video!LeaveSession(c, f) \/ video!Left(c, f)
  <2>1. /\ video!Put(c, f, {}) \/ video!Put(c, f, video!After(f))
        /\ UNCHANGED <<heard, groups, news>>
    BY <1>6 DEF video!Started, video!Connected, video!Disconnect, video!LeaveSession, video!Left
  <2> QED
    BY <1>3, <1>5, <1>6, <2>1 DEF CallTypesInv
<1>7. CASE video!Step(c, f) /\ Head(f.todo) = "group" /\ video!CreateGroupCall(c, f)
  <2>1. f.room \in CallRooms
    BY <1>1, <1>7 DEF Begins
  <2>2. B
    BY <1>3, <1>7, ConnectBegins DEF video!CreateGroupCall
  <2>3. groups' \subseteq CallRooms /\ UNCHANGED <<heard, news>>
    BY <1>7, <2>1 DEF video!CreateGroupCall, CallTypesInv
  <2> QED
    BY <1>5, <1>7, <2>2, <2>3 DEF CallTypesInv
<1>8. CASE video!Step(c, f) /\ video!Token(c, f)
  <2>1. /\ heard' = [heard EXCEPT ![c] = @ \cup ({where[c]} \ {NoRoom})]
        /\ video!Put(c, f, video!After(f)) /\ UNCHANGED <<groups, news>>
    BY <1>8 DEF video!Token
  <2>2. heard' \in [Callers -> SUBSET CallRooms]
    BY <1>1, <2>1 DEF CallTypesInv
  <2> QED
    BY <1>3, <1>5, <1>8, <2>1, <2>2 DEF CallTypesInv
<1>9. CASE video!Step(c, f) /\ video!Ended(c, f)
  <2> DEFINE todo == (IF call[c].active THEN video!Leaving ELSE <<>>) \o <<"terminate">>
             g == [video!Flow(c, todo, f.room) EXCEPT !.group = call[c].group]
  <2>1. video!Put(c, f, {g}) /\ UNCHANGED <<heard, groups, news>>
    BY <1>9 DEF video!Ended
  <2>2. todo = <<"disconnect", "session", "left", "terminate">> \/ todo = <<"terminate">>
    BY LeavingEnds
  <2>3. g.todo = todo
    BY DEF video!Flow
  <2> HIDE DEF todo, g
  <2>4. ~Begins(g)
    BY <2>2, <2>3 DEF Begins
  <2>5. B
    BY <2>1, <2>4, PutBegins
  <2> QED
    BY <1>5, <1>9, <2>1, <2>5 DEF CallTypesInv
<1>10. CASE video!Step(c, f) /\ video!Terminate(c, f)
  <2>1. /\ groups' = groups \ {f.group} /\ UNCHANGED heard /\ video!Put(c, f, {})
        /\ news' = [d \in Callers |-> news[d] \cup ({f.group} \cap groups)]
    BY <1>10 DEF video!Terminate
  <2>2. news' \in [Callers -> SUBSET CallRooms]
    BY <2>1 DEF CallTypesInv
  <2> QED
    BY <1>3, <1>5, <1>10, <2>1, <2>2 DEF CallTypesInv
<1> QED
  BY <1>4, <1>6, <1>7, <1>8, <1>9, <1>10 DEF video!Step

LEMMA CallTypesStep ==
  CallInv /\ CallTypesInv /\ (video!CallNext \/ UNCHANGED videoVars) => CallTypesInv'
<1> SUFFICES ASSUME CallInv, CallTypesInv, video!CallNext \/ UNCHANGED videoVars PROVE CallTypesInv'
  OBVIOUS
<1> DEFINE B == \A d \in Callers : \A h \in flows'[d] : Begins(h) => h.room \in CallRooms
<1>1. CASE UNCHANGED videoVars
  BY <1>1 DEF videoVars, CallTypesInv
<1>2. ASSUME NEW c \in Callers, NEW f \in flows[c], video!Step(c, f) \/ video!Fail(c, f)
      PROVE  CallTypesInv'
  BY <1>2, CallTypesFlow
<1>3. ASSUME NEW c \in Callers, video!Act(c) PROVE acts' \in [Callers -> 0 .. MaxActs]
  BY <1>3, BoundsAssumption DEF video!Act, CallTypesInv
<1>4. ASSUME NEW c \in Callers, video!BeginCall(c), where[c] # NoRoom PROVE B
  <2> DEFINE g == video!Flow(c, <<"started", "group">> \o video!Connecting, where[c])
  <2>1. g.room = where[c] /\ where[c] \in CallRooms
    BY <1>4 DEF video!Flow, CallInv
  <2>2. video!Put(c, <<>>, {g})
    BY <1>4 DEF video!BeginCall
  <2> HIDE DEF g
  <2> QED
    BY <2>1, <2>2, PutBegins
<1>5. ASSUME NEW c \in Callers,
             \/ video!StartCall(c) \/ video!JoinVideoCall(c)
             \/ \E end \in BOOLEAN : video!GoBack(c, end)
      PROVE  CallTypesInv'
  <2>1. video!Act(c) /\ UNCHANGED <<heard, sees, groups, news, fails>>
    BY <1>5 DEF video!StartCall, video!JoinVideoCall, video!GoBack
  <2>2. ASSUME video!StartCall(c) PROVE B
    BY <1>4, <2>2 DEF video!StartCall
  <2>3. ASSUME video!JoinVideoCall(c) PROVE B
    BY <1>4, <2>3, ConnectBegins DEF video!JoinVideoCall, video!JoinCall
  <2>4. ASSUME \E end \in BOOLEAN : video!GoBack(c, end) PROVE B
    <3>1. \/ video!Put(c, <<>>, {video!EndFlow(c)}) \/ video!Put(c, <<>>, {})
          \/ video!Put(c, <<>>, {video!Flow(c, video!Leaving, where[c])})
      BY <2>4 DEF video!GoBack
    <3> QED
      BY <3>1, PutBegins, NotBegun
  <2>5. B
    BY <1>5, <2>2, <2>3, <2>4
  <2> QED
    BY <1>3, <2>1, <2>5 DEF CallTypesInv
<1>6. ASSUME NEW c \in Callers, video!Navigate(c) PROVE CallTypesInv'
  BY <1>3, <1>6 DEF video!Navigate, CallTypesInv
<1>7. ASSUME NEW c \in Callers, video!ChangeVideoDevice(c) PROVE CallTypesInv'
  BY <1>3, <1>7 DEF video!ChangeVideoDevice, CallTypesInv
<1>8. ASSUME NEW c \in Callers, video!VideoTrack(c) PROVE CallTypesInv'
  BY <1>8 DEF video!VideoTrack, CallTypesInv
<1>9. ASSUME NEW c \in Callers, video!SyncRemoteParticipants(c) PROVE CallTypesInv'
  <2>1. sees' \in [Callers -> BOOLEAN]
    BY <1>9 DEF video!SyncRemoteParticipants, CallTypesInv
  <2> QED
    BY <1>9, <2>1 DEF video!SyncRemoteParticipants, CallTypesInv
<1>10. ASSUME NEW c \in Callers, NEW r \in CallRooms, video!CallTerminated(c, r) PROVE CallTypesInv'
  <2>1. /\ news' \in [Callers -> SUBSET CallRooms] /\ heard' \in [Callers -> SUBSET CallRooms]
        /\ UNCHANGED <<sees, groups, acts, fails>>
    BY <1>10 DEF video!CallTerminated, CallTypesInv
  <2>2. CASE UNCHANGED flows
    BY <2>1, <2>2 DEF CallTypesInv
  <2>3. CASE video!Put(c, <<>>, {}) \/ video!Put(c, <<>>, {video!Flow(c, video!Leaving, r)})
    <3>1. B
      BY <2>3, PutBegins, NotBegun
    <3> QED
      BY <2>1, <3>1 DEF CallTypesInv
  <2> QED
    BY <1>10, <2>2, <2>3 DEF video!CallTerminated
<1> QED
  BY <1>1, <1>2, <1>5, <1>6, <1>7, <1>8, <1>9, <1>10 DEF video!CallNext

LEMMA CallTypesStart == video!CallInit => CallTypesInv
  BY BoundsAssumption DEF video!CallInit, CallTypesInv

LEMMA CallInvTypes == CallInv /\ CallTypesInv => video!CallTypeOK
<1> SUFFICES ASSUME CallInv, CallTypesInv PROVE video!CallTypeOK
  OBVIOUS
<1>1. ASSUME NEW c \in Callers
      PROVE  /\ call[c].livekit \in CallRooms \cup {NoRoom} /\ call[c].event \in CallRooms \cup {NoRoom}
             /\ heard[c] \subseteq CallRooms /\ news[c] \subseteq CallRooms
             /\ \A f \in flows[c] : f.todo # <<>>
  <2>1. call[c] \in CallState
    BY DEF CallInv
  <2>2. \A f \in flows[c] : f.todo \in Todos
    BY DEF CallInv, CallFlow
  <2> QED
    BY <2>1, <2>2, TodoTail DEF CallState, CallTypesInv
<1> QED
  BY <1>1 DEF video!CallTypeOK, CallInv, CallTypesInv

-----------------------------------------------------------------------------
(* Types, of every part.                                                   *)

LEMMA HouseTypes == HouseInv => houserules!RulesTypeOK
<1> SUFFICES ASSUME HouseInv PROVE houserules!RulesTypeOK
  OBVIOUS
<1>1. /\ rules \in [text : houserules!Texts, version : Nat] /\ consented \in Nat
      /\ \A s \in saves : /\ s.desk \in Desks /\ s.at \in houserules!Media \cup {"stored", "refused"}
                          /\ s.ok \in BOOLEAN
  BY DEF HouseInv, DesksInv, UserInv, TextAndVersion, Texts, houserules!Texts, SaveCall, houserules!Media
<1>2. ASSUME NEW d \in Desks
      PROVE  /\ desk[d].text \in houserules!Texts /\ desk[d].original \in houserules!Texts
             /\ desk[d].open => d \in Admins \/ ~desk[d].known
  BY DEF HouseInv, DesksInv, DeskState, Texts, houserules!Texts
<1>3. ASSUME NEW i \in DOMAIN forms
      PROVE  forms[i].text \in houserules!Texts /\ forms[i].step \in 1 .. 2 /\ forms[i].version # 0
  <2>1. forms[i] \in FormState
    BY <1>3, ElementOfSeq DEF HouseInv, UserInv
  <2> QED
    BY <2>1 DEF FormState, Texts, houserules!Texts
<1>4. /\ houserulesPage \in {"away", "home", "onboarding"} /\ kind \in {"full", "consent"}
      /\ houserulesPage = "onboarding" => forms # <<>>
  BY DEF HouseInv, UserInv
<1>5. ASSUME NEW a \in asks PROVE a.op \in {"needs", "json", "post"} /\ a.form \in 0 .. Len(forms)
  <2>1. a \in Ask /\ AskOK(a, Len(forms)) /\ Len(forms) \in Nat
    BY <1>5, LenProperties DEF HouseInv, UserInv
  <2> QED
    BY <2>1 DEF Ask, AskOK
<1> QED
  BY <1>1, <1>2, <1>3, <1>4, <1>5 DEF houserules!RulesTypeOK

LEMMA DialogsTypes == DialogsInv => dialogs!DialogsTypeOK
<1> SUFFICES ASSUME DialogsInv PROVE dialogs!DialogsTypeOK
  OBVIOUS
<1>1. form.data \in dialogs!Prefs /\ form.original \in dialogs!Prefs
  BY DEF DialogsInv, PrefsInv
<1>2. ASSUME NEW i \in DOMAIN yivi PROVE yivi[i] \in BOOLEAN
  BY <1>2, ElementOfSeq DEF DialogsInv, BegunInv
<1> QED
  BY <1>1, <1>2 DEF dialogs!DialogsTypeOK, DialogsInv, PrefsInv, ScreenInv, ShownInv, BegunInv, NoticeInv

\* Every part keeps its types, whatever its users, frames and servers do.
THEOREM TypesHold == Spec => []TypeOK
<1> DEFINE I == /\ part = "accounts" => AccountInv
                /\ part = "frames" => FramesInv
                /\ part = "dialogs" => DialogsInv
                /\ part = "houserules" => HouseInv
                /\ part = "video" => CallInv /\ CallTypesInv
                /\ part = "menus" => MenusInv
                /\ part = "shelf" => ShelfInv
                /\ part = "chains" => ChainInv
<1>1. Init => I
  <2> SUFFICES ASSUME Init PROVE I
    OBVIOUS
  <2>1. part = "accounts" => AccountInv
    BY Parts, AccountInit
  <2>2. part = "frames" => FramesInv
    BY Parts, FramesStart
  <2>3. part = "dialogs" => DialogsInv
    BY Parts, DialogsStart
  <2>4. part = "houserules" => HouseInv
    BY Parts, HouseInit
  <2>5. part = "video" => CallInv /\ CallTypesInv
    BY Parts, CallStart, CallTypesStart
  <2>6. part = "menus" => MenusInv
    BY Parts, MenusStart
  <2>7. part = "shelf" => ShelfInv
    BY Parts, ShelfStart
  <2>8. part = "chains" => ChainInv
    BY Parts, ChainStart
  <2> QED
    BY <2>1, <2>2, <2>3, <2>4, <2>5, <2>6, <2>7, <2>8
<1>2. I /\ [Next]_vars => I'
  <2> SUFFICES ASSUME I, [Next]_vars PROVE I'
    OBVIOUS
  <2>0. part' = part
    BY Parts
  <2>1. ASSUME part = "accounts" PROVE AccountInv'
    BY <2>1, Parts, AccountStep
  <2>2. ASSUME part = "frames" PROVE FramesInv'
    BY <2>2, Parts, FramesStep
  <2>3. ASSUME part = "dialogs" PROVE DialogsInv'
    BY <2>3, Parts, DialogsStep
  <2>4. ASSUME part = "houserules" PROVE HouseInv'
    BY <2>4, Parts, HouseStep
  <2>5. ASSUME part = "video" PROVE CallInv' /\ CallTypesInv'
    BY <2>5, Parts, CallStep, CallTypesStep
  <2>6. ASSUME part = "menus" PROVE MenusInv'
    BY <2>6, Parts, MenusStep
  <2>7. ASSUME part = "shelf" PROVE ShelfInv'
    BY <2>7, Parts, ShelfStep
  <2>8. ASSUME part = "chains" PROVE ChainInv'
    BY <2>8, Parts, ChainStep
  <2> QED
    BY <2>0, <2>1, <2>2, <2>3, <2>4, <2>5, <2>6, <2>7, <2>8
<1>3. I => TypeOK
  <2> SUFFICES ASSUME I PROVE TypeOK
    OBVIOUS
  <2>1. part = "accounts" => accounts!TypeOK
    BY AccountSecret
  <2>2. part = "video" => video!CallTypeOK
    BY CallInvTypes
  <2>3. part = "menus" => menus!MenusTypeOK
    BY MenusInvAgrees
  <2> QED
    BY <2>1, <2>2, <2>3, FramesInvTypes, DialogsTypes, HouseTypes, ShelfInvTypes, ChainInvTypes DEF TypeOK
<1> QED
  BY <1>1, <1>2, <1>3, PTL DEF Spec
=============================================================================
