---------------------------- MODULE ChainedSessions ----------------------------
(***************************************************************************)
(* Chained Yivi sessions of the authentication server (auths/yivi.rs,      *)
(* auths/auth.rs).  A chained session brings three parties together: the   *)
(* client, which waits for what was disclosed; Yivi servers, which post    *)
(* the disclosure and wait for the next session; and the client again,     *)
(* which releases the Yivi servers with the issuance of a card.  They meet *)
(* in one task (ChainedSessionsCtl) that takes commands from a channel.    *)
(* Sessions and requests are numbered as they come; whatever the code      *)
(* keeps of them in maps by id is kept here in sequences.                  *)
(***************************************************************************)
EXTENDS Naturals, Sequences, FiniteSets

CONSTANTS Disclosures, NoDisclosure,  \* signed results of a Yivi server
          Capacity,            \* max_sessions
          Validity, Window,    \* session_validity and auth_window
          Patience,            \* stale_after, when a client gives it
          Slots,               \* of the channel
          Starts, Releases,    \* how a session is started and released: bounds the inputs
          MaxRequests, MaxTime \* bounds

VARIABLES
  requests,   \* requests at the endpoints, with the answer they get
  states,     \* the sealed AuthStates that clients have
  chained,    \* sessions of the backend, and those that were removed
  expiries,   \* expiry_queue
  channel,    \* commands for the task, as the requests they are of
  aborts,     \* requests of Yivi servers for which an abort was spawned but not sent
  clock

chainedVars == <<requests, states, chained, expiries, channel, aborts, clock>>

NoChain == 0   \* yivi_chained_session: None

Commands == [of : 1..MaxRequests, abort : BOOLEAN]
Request == [kind : {"start", "result", "next", "release"}, id : Nat, drip : BOOLEAN, exp : Nat,
            disclosure : Disclosures \cup {NoDisclosure}, next : BOOLEAN, stale : BOOLEAN,
            step : {"sending", "sent", "waiting", "answered", "done", "dropped"}, left : BOOLEAN,
            got : {"nothing", "bad", "error", "restart", "started", "full", "disclosed", "gone", "early",
                   "serverGone", "released", "next", "end"}]

ChainedTypeOK ==
  /\ requests \in Seq(Request) /\ Len(requests) <= MaxRequests
  /\ states \subseteq [id : Nat, drip : BOOLEAN, exp : Nat]
  /\ chained \in Seq([state : {"awaits", "here", "removed"}, disclosure : Disclosures \cup {NoDisclosure},
                      waiters : SUBSET (1..MaxRequests), since : Nat])
  /\ expiries \in Seq([at : Nat, id : Nat])
  /\ channel \in Seq(Commands) /\ Len(channel) <= Slots
  /\ aborts \subseteq 1..MaxRequests /\ clock \in 0..MaxTime
  /\ \A r \in DOMAIN requests : requests[r].id \in {NoChain} \cup DOMAIN chained
  /\ \A s \in states : s.id \in {NoChain} \cup DOMAIN chained

ChainedInit ==
  /\ requests = <<>> /\ states = {} /\ chained = <<>> /\ expiries = <<>>
  /\ channel = <<>> /\ aborts = {} /\ clock = 0

Live == {c \in DOMAIN chained : chained[c].state # "removed"}
Drips(r) == requests[r].kind = "next" /\ requests[r].drip

-----------------------------------------------------------------------------
(* The endpoints.                                                          *)

\* A request that comes in and sends the task a command, or is answered at once.
Asked(kind, s, d, next, stale) ==
  [kind |-> kind, id |-> s.id, drip |-> s.drip, exp |-> IF kind = "start" THEN s.exp ELSE 0, disclosure |-> d, next |-> next, stale |-> stale,
   step |-> "sending", left |-> FALSE, got |-> "nothing"]

\* The answer, which nobody hears if the asker left (respond_to).  When a session
\* was asked for the state is still to be sealed, and a future that drips dropped.
At(q, got) ==
  IF q.left THEN [q EXCEPT !.step = "dropped"]
  ELSE [q EXCEPT !.got = got, !.step = IF got # "bad" /\ (q.kind = "start" \/ (q.kind = "next" /\ q.drip))
                                       THEN "answered" ELSE "done"]

\* send_command waits when the channel is full.
Incoming(q) ==
  /\ Len(requests) < MaxRequests
  /\ IF q.step = "sending" /\ Len(channel) < Slots
     THEN /\ requests' = Append(requests, [q EXCEPT !.step = "sent"])
          /\ channel' = Append(channel, [of |-> Len(requests) + 1, abort |-> FALSE])
     ELSE requests' = Append(requests, q) /\ UNCHANGED channel
  /\ UNCHANGED <<states, chained, expiries, aborts, clock>>

\* handle_auth_start
Setup(how) == [id |-> NoChain, drip |-> how \in {"drip", "unchained drip"}, exp |-> clock + Window]

\* handle_auth_start_yivi: the state is sealed when the session is there.
AuthStart(how) ==
  LET q == Asked("start", Setup(how), NoDisclosure, FALSE, FALSE)
  IN  Incoming(CASE how = "unchained drip" -> At(q, "bad") [] how = "unchained" -> At(q, "started") [] OTHER -> q)

\* AuthState::unseal
Unsealed(s) == s.exp >= clock

\* handle_yivi_wait_for_result
YiviWaitForResult(s) ==
  LET q == Asked("result", s, NoDisclosure, FALSE, FALSE)
  IN  Incoming(IF ~Unsealed(s) THEN At(q, "restart") ELSE IF s.id = NoChain THEN At(q, "bad") ELSE q)

\* handle_yivi_next_session, for what is signed by the Yivi server
YiviNextSession(s, d) ==
  LET q == Asked("next", s, d, FALSE, FALSE)
  IN  Incoming(IF ~Unsealed(s) \/ s.id = NoChain THEN At(q, "bad") ELSE q)

\* handle_yivi_release_next_session
YiviReleaseNextSession(s, how) ==
  LET next == how # "end"
      q == Asked("release", s, NoDisclosure, next, how = "unless stale")
  IN  Incoming(IF ~Unsealed(s) THEN At(q, "restart")
               ELSE IF s.id = NoChain \/ (~next /\ s.drip) THEN At(q, "bad") ELSE q)

Send(r) ==
  /\ requests[r].step = "sending" /\ Len(channel) < Slots
  /\ requests' = [requests EXCEPT ![r].step = "sent"] /\ channel' = Append(channel, [of |-> r, abort |-> FALSE])
  /\ UNCHANGED <<states, chained, expiries, aborts, clock>>

\* The task spawned by on_drop.
SendAbort(r) ==
  /\ r \in aborts /\ Len(channel) < Slots
  /\ aborts' = aborts \ {r} /\ channel' = Append(channel, [of |-> r, abort |-> TRUE])
  /\ UNCHANGED <<requests, states, chained, expiries, clock>>

\* The answer goes out.  A Yivi server that is dripped on has had its status, so
\* nothing but a next session can be told it (dripping_wfns_responder); and
\* _deferred is dropped with the future, however it ended.
Respond(r) ==
  /\ requests[r].step = "answered"
  /\ requests' = [requests EXCEPT ![r].step = "done",
                                  ![r].got = IF Drips(r) /\ @ # "next" THEN "error" ELSE @]
  /\ states' = IF requests[r].got = "started"
               THEN states \cup {[id |-> requests[r].id, drip |-> requests[r].drip, exp |-> requests[r].exp]} ELSE states
  /\ aborts' = IF Drips(r) THEN aborts \cup {r} ELSE aborts
  /\ UNCHANGED <<chained, expiries, channel, clock>>

\* The asker is gone, and actix drops the future: at once when it drips, since
\* that is noticed; another one may as well go on.
Disconnect(r, drop) ==
  /\ ~requests[r].left /\ requests[r].step \in {"sending", "sent", "waiting"} /\ (Drips(r) => drop)
  /\ requests' = [requests EXCEPT ![r].left = TRUE, ![r].step = IF drop /\ @ = "sending" THEN "dropped" ELSE @]
  /\ aborts' = IF Drips(r) THEN aborts \cup {r} ELSE aborts
  /\ UNCHANGED <<states, chained, expiries, channel, clock>>

-----------------------------------------------------------------------------
(* The task.                                                               *)

\* As Answer, of the first of them only.
AnswerFirst(rs, got) ==
  [r \in DOMAIN requests |-> IF r \in rs /\ \A p \in rs : r <= p THEN At(requests[r], got) ELSE requests[r]]

\* respond_to, for a number of requests
Answer(rs, got) == [r \in DOMAIN requests |-> IF r \in rs THEN At(requests[r], got) ELSE requests[r]]
Tell(rs, d) == [r \in DOMAIN requests |-> IF r \in rs THEN At([requests[r] EXCEPT !.disclosure = d], "disclosed")
                                          ELSE requests[r]]

Serve(r, kind) ==
  /\ channel # <<>> /\ Head(channel) = [of |-> r, abort |-> FALSE] /\ requests[r].kind = kind
  /\ channel' = Tail(channel) /\ UNCHANGED <<states, aborts, clock>>

Chain(r) == chained[requests[r].id]
Removed == [state |-> "removed", disclosure |-> NoDisclosure, waiters |-> {}, since |-> 0]

\* handle_create_session
CreateSession(r) ==
  /\ Serve(r, "start")
  /\ IF Cardinality(Live) >= Capacity
     THEN requests' = Answer({r}, "full") /\ UNCHANGED <<chained, expiries>>
     ELSE /\ chained' = Append(chained, [Removed EXCEPT !.state = "awaits"])
          /\ expiries' = Append(expiries, [at |-> clock + Validity, id |-> Len(chained) + 1])
          /\ requests' = [Answer({r}, "started") EXCEPT ![r].id = Len(chained) + 1]

\* handle_wait_for_result
WaitForResult(r) ==
  /\ Serve(r, "result") /\ UNCHANGED expiries
  /\ \/ Chain(r).state = "removed" /\ requests' = Answer({r}, "gone") /\ UNCHANGED chained
     \/ Chain(r).state = "here" /\ requests' = Tell({r}, Chain(r).disclosure) /\ UNCHANGED chained
     \/ /\ Chain(r).state = "awaits" /\ requests' = [requests EXCEPT ![r].step = "waiting"]
        /\ chained' = [chained EXCEPT ![requests[r].id].waiters = @ \cup {r}]

\* As Agrees, whatever was disclosed.
AgreesAnyway(r) == Chain(r).state = "here"

Agrees(r) == Chain(r).disclosure = requests[r].disclosure

\* handle_wait_for_next_session
WaitForNextSession(r) ==
  /\ Serve(r, "next") /\ UNCHANGED expiries
  /\ \/ Chain(r).state = "removed" /\ requests' = Answer({r}, "end") /\ UNCHANGED chained
     \/ /\ Chain(r).state = "here" /\ ~Agrees(r)
        /\ requests' = Answer({r}, "error") /\ UNCHANGED chained
     \/ /\ Chain(r).state = "here" /\ Agrees(r)
        /\ requests' = [requests EXCEPT ![r].step = "waiting"]
        /\ chained' = [chained EXCEPT ![requests[r].id].waiters = @ \cup {r}]
     \/ /\ Chain(r).state = "awaits"
        /\ requests' = [Tell(Chain(r).waiters, requests[r].disclosure) EXCEPT ![r].step = "waiting"]
        /\ chained' = [chained EXCEPT ![requests[r].id] =
                         [state |-> "here", disclosure |-> requests[r].disclosure, waiters |-> {r}, since |-> clock]]

\* handle_abort_wait_for_next_session
AbortWaitForNextSession(r) ==
  /\ channel # <<>> /\ Head(channel) = [of |-> r, abort |-> TRUE] /\ channel' = Tail(channel)
  /\ IF Chain(r).state = "here"
     THEN /\ chained' = [chained EXCEPT ![requests[r].id].waiters = @ \ {r}]
          /\ requests' = [requests EXCEPT ![r].step = IF @ = "waiting" THEN "dropped" ELSE @]
     ELSE UNCHANGED <<chained, requests>>
  /\ UNCHANGED <<states, expiries, aborts, clock>>

\* The Yivi servers that wait have been waiting too long, counted from the first of them.
Stale(r) == requests[r].stale /\ clock - Chain(r).since > Patience

\* handle_release_next_session: when the servers are stale, what they wait on is
\* dropped, and that is an internal error (wait_for_next_session).
ReleaseNextSession(r) ==
  /\ Serve(r, "release") /\ UNCHANGED expiries
  /\ \/ Chain(r).state = "removed" /\ requests' = Answer({r}, "gone") /\ UNCHANGED chained
     \/ Chain(r).state = "awaits" /\ requests' = Answer({r}, "early") /\ UNCHANGED chained
     \/ /\ Chain(r).state = "here" /\ chained' = [chained EXCEPT ![requests[r].id] = Removed]
        /\ IF Chain(r).waiters = {} \/ Stale(r)
           THEN requests' = [Answer(Chain(r).waiters, "error") EXCEPT ![r] = At(@, "serverGone")]
           ELSE requests' = [Answer(Chain(r).waiters, IF requests[r].next THEN "next" ELSE "end")
                               EXCEPT ![r] = At(@, "released")]

\* sleep_until_next_expiry and expire_next, which removes all that is due.
Expire(n) ==
  LET due == {expiries[i].id : i \in 1..n}
      of(state) == UNION {chained[c].waiters : c \in {c \in due : chained[c].state = state}}
  IN  /\ n >= 1 /\ \A i \in 1..n : expiries[i].at <= clock
      /\ n + 1 \in DOMAIN expiries => expiries[n + 1].at > clock
      /\ expiries' = SubSeq(expiries, n + 1, Len(expiries))
      /\ chained' = [c \in DOMAIN chained |-> IF c \in due THEN Removed ELSE chained[c]]
      /\ requests' = [r \in DOMAIN requests |-> IF r \in of("awaits") THEN At(requests[r], "gone")
                                                ELSE IF r \in of("here") THEN At(requests[r], "end") ELSE requests[r]]
      /\ UNCHANGED <<states, channel, aborts, clock>>

Tick ==
  /\ clock < MaxTime /\ clock' = clock + 1
  /\ UNCHANGED <<requests, states, chained, expiries, channel, aborts>>

\* The server is started anew: its sessions are lost, with the connections of all
\* who wait, but not the key of the states, which is derived from enc_key.
Restart ==
  /\ chained' = [c \in DOMAIN chained |-> Removed] /\ expiries' = <<>> /\ channel' = <<>> /\ aborts' = {}
  /\ requests' = [r \in DOMAIN requests |-> IF requests[r].step = "done" THEN requests[r]
                                            ELSE [requests[r] EXCEPT !.step = "dropped", !.left = TRUE]]
  /\ UNCHANGED <<states, clock>>

ChainedNext ==
  \/ \E how \in Starts : AuthStart(how)
  \/ \E s \in states : \/ YiviWaitForResult(s)
                       \/ \E d \in Disclosures : YiviNextSession(s, d)
                       \/ \E how \in Releases : YiviReleaseNextSession(s, how)
  \/ \E r \in DOMAIN requests :
       \/ Send(r) \/ SendAbort(r) \/ Respond(r) \/ \E drop \in BOOLEAN : Disconnect(r, drop)
       \/ CreateSession(r) \/ WaitForResult(r) \/ WaitForNextSession(r) \/ AbortWaitForNextSession(r)
       \/ ReleaseNextSession(r)
  \/ \E n \in DOMAIN expiries : Expire(n)
  \/ Tick \/ Restart

ChainedSpec == ChainedInit /\ [][ChainedNext]_chainedVars

-----------------------------------------------------------------------------
(* Properties.                                                             *)

Pending(r, abort) == \E i \in DOMAIN channel : channel[i] = [of |-> r, abort |-> abort]

\* Nobody waits in vain: a request whose command was sent is in the channel, one
\* that waits is with the session it waits for, in the state in which that waits
\* for it, and every session will expire, in the order of the queue.
EveryoneIsServed ==
  /\ \A r \in DOMAIN requests :
       /\ requests[r].step = "sent" => Pending(r, FALSE)
       /\ requests[r].step = "waiting" =>
            /\ requests[r].id \in Live /\ r \in Chain(r).waiters
            /\ (requests[r].kind = "next") = (Chain(r).state = "here")
  /\ \A c \in Live : \E i \in DOMAIN expiries : expiries[i].id = c
  /\ \A i, j \in DOMAIN expiries : i < j => expiries[i].at <= expiries[j].at

\* A client is not told that a Yivi server was released when that has left and
\* this was noticed: for each server that is dripped on, waits and is gone, an
\* abort is on its way.
LeftAreAborted ==
  \A r \in DOMAIN requests :
    requests[r].step = "waiting" /\ requests[r].left /\ Drips(r) => r \in aborts \/ Pending(r, TRUE)

\* All who met in a session saw the same disclosure: the clients that were given
\* it, and the Yivi servers that were given the next session.
OneDisclosure ==
  \A p, r \in DOMAIN requests :
    /\ requests[p].id = requests[r].id
    /\ requests[p].got \in {"disclosed", "next"} /\ requests[r].got \in {"disclosed", "next"}
    => requests[p].disclosure = requests[r].disclosure

\* A session is released once: no two clients are told that they did.
ReleasedOnce ==
  \A p, r \in DOMAIN requests :
    requests[p].id = requests[r].id /\ requests[p].got = "released" /\ requests[r].got = "released" => p = r

\* Not so: a Yivi server that is dripped on is not told that there is no next
\* session ("bug: `None` session_request reached dripping chained session"): a
\* session that expires, or is not there, tells it that.
NoneNeverDrips == \A r \in DOMAIN requests : requests[r].step = "answered" /\ Drips(r) => requests[r].got # "end"
=============================================================================
