---------------------------- MODULE ChainsProofs ----------------------------
(***************************************************************************)
(* Lemmas about chained Yivi sessions, for any numbers of requests,        *)
(* sessions and slots of the channel, in the composition MCGlobal:         *)
(* ChainInv is an invariant of their steps (ChainStart, ChainStep), and    *)
(* implies their properties (ChainInvTypes, ChainGives).                   *)
(***************************************************************************)
EXTENDS MCGlobal, Integers, Sequences, FiniteSets, SequenceTheorems, FiniteSetTheorems, TLAPS

Chained ==
  [state : {"awaits", "here", "removed"}, disclosure : Disclosures \cup {NoDisclosure},
   waiters : SUBSET (1 .. MaxRequests), since : Nat]
Due == [at : Nat, id : Nat]

ChainTypes ==
  /\ requests \in Seq(chains!Request) /\ Len(requests) <= MaxRequests
  /\ states \subseteq [id : Nat, drip : BOOLEAN, exp : Nat]
  /\ chained \in Seq(Chained) /\ expiries \in Seq(Due) /\ channel \in Seq(chains!Commands) /\ Len(channel) <= Slots
  /\ aborts \subseteq 1 .. Len(requests) /\ clock \in 0 .. MaxTime
  /\ \A r \in 1 .. Len(requests) : requests[r].id \in 0 .. Len(chained)
  /\ \A s \in states : s.id \in 0 .. Len(chained)

\* A Yivi server for which an abort may be on its way, and it was sent before it.
Aborted(r) == chains!Drips(r) /\ requests[r].step # "sending" /\ requests[r].id # 0

ChannelInv ==
  /\ \A r \in aborts : Aborted(r)
  /\ \A i \in 1 .. Len(channel) :
       /\ channel[i].of \in 1 .. Len(requests)
       /\ channel[i].abort => Aborted(channel[i].of)
       /\ ~channel[i].abort => requests[channel[i].of].step = "sent"
  /\ \A i, j \in 1 .. Len(channel) :
       i # j /\ channel[i].of = channel[j].of /\ ~channel[i].abort => channel[j].abort /\ i < j

\* What is known of a request by the step it has come to, and by its answer.
StepOf(r) ==
  /\ requests[r].kind \in {"result", "release"} /\ requests[r].step \in {"sending", "sent", "waiting"} => requests[r].id # 0
  /\ requests[r].kind = "next" /\ requests[r].step \in {"sending", "sent", "waiting", "answered"} => requests[r].id # 0
  /\ requests[r].step = "sending" => ~(chains!Drips(r) /\ requests[r].left)
  /\ requests[r].step \in {"sending", "sent", "waiting"} => requests[r].got = "nothing"
  /\ requests[r].step = "sent" => chains!Pending(r, FALSE)
  /\ requests[r].step = "waiting" => requests[r].id # 0 /\ r \in chained[requests[r].id].waiters
  /\ requests[r].step \in {"sent", "waiting"} /\ requests[r].left /\ chains!Drips(r) =>
       r \in aborts \/ chains!Pending(r, TRUE)
StepInv == \A r \in 1 .. Len(requests) : StepOf(r)

\* An answer tells of the session as it is, or as it was when it was removed.
AnswerInv ==
  \A r \in 1 .. Len(requests) :
    /\ requests[r].got = "disclosed" => /\ requests[r].id # 0 /\ chained[requests[r].id].state # "awaits"
                                        /\ chained[requests[r].id].state = "here" =>
                                             requests[r].disclosure = chained[requests[r].id].disclosure
    /\ requests[r].got \in {"next", "released"} =>
         requests[r].id # 0 /\ chained[requests[r].id].state = "removed"

WaiterInv ==
  \A c \in 1 .. Len(chained) :
    /\ chained[c].state = "removed" => chained[c].waiters = {}
    /\ \A r \in chained[c].waiters :
         /\ r \in 1 .. Len(requests) /\ requests[r].id = c /\ requests[r].step = "waiting"
         /\ chained[c].state = "awaits" => requests[r].kind = "result"
         /\ chained[c].state = "here" => requests[r].kind = "next" /\ requests[r].disclosure = chained[c].disclosure

ExpiryInv ==
  /\ \A c \in 1 .. Len(chained) : chained[c].state # "removed" => \E i \in 1 .. Len(expiries) : expiries[i].id = c
  /\ \A i \in 1 .. Len(expiries) : expiries[i].at <= clock + Validity /\ expiries[i].id \in 1 .. Len(chained)
  /\ \A i, j \in 1 .. Len(expiries) : i < j => expiries[i].at <= expiries[j].at

ChainInv ==
  /\ ChainTypes /\ ChannelInv /\ StepInv /\ AnswerInv /\ WaiterInv /\ ExpiryInv
  /\ chains!OneDisclosure /\ chains!ReleasedOnce

LEMMA ChainBounds ==
  MaxRequests \in Nat /\ MaxTime \in Nat /\ Window \in Nat /\ Validity \in Nat /\ Slots \in Nat
  BY BoundsAssumption

LEMMA ChainFacts ==
  ASSUME ChainInv
  PROVE  /\ Len(requests) \in Nat /\ DOMAIN requests = 1 .. Len(requests)
         /\ Len(chained) \in Nat /\ DOMAIN chained = 1 .. Len(chained)
         /\ Len(expiries) \in Nat /\ DOMAIN expiries = 1 .. Len(expiries)
         /\ Len(channel) \in Nat /\ DOMAIN channel = 1 .. Len(channel)
         /\ \A r \in 1 .. Len(requests) : requests[r] \in chains!Request
         /\ \A c \in 1 .. Len(chained) : chained[c] \in Chained
         /\ \A i \in 1 .. Len(expiries) : expiries[i] \in Due
         /\ \A i \in 1 .. Len(channel) : channel[i] \in chains!Commands
  BY LenProperties, ElementOfSeq DEF ChainInv, ChainTypes

LEMMA ChainGives == ChainInv => chains!EveryoneIsServed /\ chains!LeftAreAborted
<1> SUFFICES ASSUME ChainInv PROVE chains!EveryoneIsServed /\ chains!LeftAreAborted
  OBVIOUS
<1> USE ChainFacts
<1>1. chains!LeftAreAborted
  BY DEF ChainInv, StepInv, StepOf, chains!LeftAreAborted
<1>2. ASSUME NEW r \in DOMAIN requests, requests[r].step = "waiting"
      PROVE  /\ requests[r].id \in chains!Live /\ r \in chains!Chain(r).waiters
             /\ (requests[r].kind = "next") = (chains!Chain(r).state = "here")
  <2> DEFINE c == requests[r].id
  <2>0. r \in 1 .. Len(requests)
    BY <1>2
  <2>1. c \in 1 .. Len(chained) /\ r \in chained[c].waiters
    <3>1. c \in 0 .. Len(chained)
      BY <2>0 DEF ChainInv, ChainTypes
    <3>2. c # 0 /\ r \in chained[c].waiters
      BY <1>2, <2>0 DEF ChainInv, StepInv, StepOf
    <3> QED
      BY <3>1, <3>2
  <2>2. chained[c].state \in {"awaits", "here", "removed"}
    BY <2>1 DEF Chained
  <2>3. /\ chained[c].state # "removed"
        /\ chained[c].state = "awaits" => requests[r].kind = "result"
        /\ chained[c].state = "here" => requests[r].kind = "next"
    BY <2>1 DEF ChainInv, WaiterInv
  <2> QED
    BY <2>1, <2>2, <2>3 DEF chains!Live, chains!Chain
<1>3. \A c \in chains!Live : \E i \in DOMAIN expiries : expiries[i].id = c
  BY DEF ChainInv, ExpiryInv, chains!Live
<1>4. \A i, j \in DOMAIN expiries : i < j => expiries[i].at <= expiries[j].at
  BY DEF ChainInv, ExpiryInv
<1>5. \A r \in DOMAIN requests : requests[r].step = "sent" => chains!Pending(r, FALSE)
  BY DEF ChainInv, StepInv, StepOf
<1> QED
  BY <1>1, <1>2, <1>3, <1>4, <1>5 DEF chains!EveryoneIsServed

LEMMA ChainInvTypes == ChainInv => chains!ChainedTypeOK
<1> SUFFICES ASSUME ChainInv PROVE chains!ChainedTypeOK
  OBVIOUS
<1>1. chained \in Seq([state : {"awaits", "here", "removed"}, disclosure : Disclosures \cup {NoDisclosure},
                      waiters : SUBSET (1 .. MaxRequests), since : Nat])
  BY DEF ChainInv, ChainTypes, Chained
<1>2. expiries \in Seq([at : Nat, id : Nat])
  BY DEF ChainInv, ChainTypes, Due
<1>3. aborts \subseteq 1 .. MaxRequests
  BY ChainFacts, ChainBounds DEF ChainInv, ChainTypes
<1>4. \A r \in DOMAIN requests : requests[r].id \in {chains!NoChain} \cup DOMAIN chained
  <2> SUFFICES ASSUME NEW r \in DOMAIN requests PROVE requests[r].id \in {chains!NoChain} \cup DOMAIN chained
    OBVIOUS
  <2>1. requests[r].id \in 0 .. Len(chained)
    BY ChainFacts DEF ChainInv, ChainTypes
  <2>2. DOMAIN chained = 1 .. Len(chained)
    BY ChainFacts
  <2> QED
    BY <2>1, <2>2 DEF chains!NoChain
<1>5. \A s \in states : s.id \in {chains!NoChain} \cup DOMAIN chained
  <2> SUFFICES ASSUME NEW s \in states PROVE s.id \in {chains!NoChain} \cup DOMAIN chained
    OBVIOUS
  <2>1. s.id \in 0 .. Len(chained)
    BY DEF ChainInv, ChainTypes
  <2>2. DOMAIN chained = 1 .. Len(chained)
    BY ChainFacts
  <2> QED
    BY <2>1, <2>2 DEF chains!NoChain
<1>6. /\ requests \in Seq(chains!Request) /\ Len(requests) <= MaxRequests
      /\ states \subseteq [id : Nat, drip : BOOLEAN, exp : Nat]
      /\ channel \in Seq(chains!Commands) /\ Len(channel) <= Slots /\ clock \in 0 .. MaxTime
  BY DEF ChainInv, ChainTypes
<1> QED
  BY <1>1, <1>2, <1>3, <1>4, <1>5, <1>6 DEF chains!ChainedTypeOK

LEMMA ChainStart == chains!ChainedInit => ChainInv
<1> SUFFICES ASSUME chains!ChainedInit PROVE ChainInv
  OBVIOUS
<1>1. /\ requests = <<>> /\ states = {} /\ chained = <<>> /\ expiries = <<>> /\ channel = <<>> /\ aborts = {} /\ clock = 0
  BY DEF chains!ChainedInit
<1>2. Len(requests) = 0 /\ Len(chained) = 0 /\ Len(expiries) = 0 /\ Len(channel) = 0
  BY <1>1
<1>3. /\ requests \in Seq(chains!Request) /\ chained \in Seq(Chained) /\ expiries \in Seq(Due)
      /\ channel \in Seq(chains!Commands) /\ DOMAIN requests = {}
  BY <1>1
<1> QED
  BY <1>1, <1>2, <1>3, ChainBounds DEF ChainInv, ChainTypes, ChannelInv, StepInv, AnswerInv, WaiterInv, ExpiryInv, StepOf,
       chains!OneDisclosure, chains!ReleasedOnce

-----------------------------------------------------------------------------
(* Requests come in.                                                       *)

LEMMA AppendFacts ==
  ASSUME NEW S, NEW s \in Seq(S), NEW e \in S
  PROVE  /\ Append(s, e) \in Seq(S) /\ Len(Append(s, e)) = Len(s) + 1 /\ DOMAIN Append(s, e) = 1 .. Len(s) + 1
         /\ \A i \in 1 .. Len(s) : Append(s, e)[i] = s[i]
         /\ Append(s, e)[Len(s) + 1] = e /\ Len(s) \in Nat
BY AppendProperties, LenProperties

\* When nobody is told of a disclosure, a release or a next session, what the
\* others were told stays true: a session that was there is there or removed.
Telling == {"disclosed", "next", "released"}
LEMMA QuietAnswers ==
  ASSUME ChainInv, Len(requests)' \in Nat, DOMAIN requests' = 1 .. Len(requests)',
         \A r \in 1 .. Len(requests)' : requests'[r].got \in Telling =>
           /\ r \in 1 .. Len(requests) /\ requests'[r].got = requests[r].got
           /\ requests'[r].id = requests[r].id /\ requests'[r].disclosure = requests[r].disclosure,
         \A c \in 1 .. Len(chained) :
           /\ chained[c].state = "removed" => chained'[c].state = "removed"
           /\ chained[c].state = "here" => /\ chained'[c].state # "awaits"
                                           /\ chained'[c].state = "here" => chained'[c].disclosure = chained[c].disclosure
  PROVE  AnswerInv' /\ chains!OneDisclosure' /\ chains!ReleasedOnce'
<1> USE ChainFacts DEF Telling
<1>1. AnswerInv'
  <2> SUFFICES ASSUME NEW r \in 1 .. Len(requests)', requests'[r].got \in Telling
               PROVE  /\ requests'[r].got = "disclosed" =>
                           /\ requests'[r].id # 0 /\ chained'[requests'[r].id].state # "awaits"
                           /\ chained'[requests'[r].id].state = "here" =>
                                requests'[r].disclosure = chained'[requests'[r].id].disclosure
                      /\ requests'[r].got \in {"next", "released"} =>
                           requests'[r].id # 0 /\ chained'[requests'[r].id].state = "removed"
    BY DEF AnswerInv
  <2> DEFINE c == requests[r].id
  <2>1. c \in 0 .. Len(chained)
    BY DEF ChainInv, ChainTypes
  <2>2. c # 0 => chained[c].state \in {"awaits", "here", "removed"}
    BY <2>1 DEF Chained
  <2>3. /\ r \in 1 .. Len(requests) /\ requests'[r].got = requests[r].got
        /\ requests'[r].id = requests[r].id /\ requests'[r].disclosure = requests[r].disclosure
    OBVIOUS
  <2>4. CASE requests[r].got = "disclosed"
    <3>1. c # 0 /\ chained[c].state # "awaits" /\ (chained[c].state = "here" => requests[r].disclosure = chained[c].disclosure)
      BY <2>3, <2>4 DEF ChainInv, AnswerInv
    <3>2. chained'[c].state # "awaits" /\ (chained'[c].state = "here" => requests[r].disclosure = chained'[c].disclosure)
      BY <2>1, <2>2, <3>1
    <3> QED
      BY <2>3, <2>4, <3>1, <3>2
  <2>5. CASE requests[r].got \in {"next", "released"}
    <3>1. c # 0 /\ chained[c].state = "removed"
      BY <2>3, <2>5 DEF ChainInv, AnswerInv
    <3> QED
      BY <2>1, <2>3, <2>5, <3>1
  <2> QED
    BY <2>3, <2>4, <2>5
<1>2. chains!OneDisclosure'
  BY SMTT(30) DEF ChainInv, chains!OneDisclosure
<1>3. chains!ReleasedOnce'
  BY DEF ChainInv, chains!ReleasedOnce
<1> QED
  BY <1>1, <1>2, <1>3

\* A request comes in: it is new, and sent when there is a slot.
LEMMA IncomingStep ==
  ASSUME ChainInv, NEW q \in chains!Request, chains!Incoming(q), q.id \in 0 .. Len(chained), ~q.left,
         q.got \notin Telling, q.step \in {"sending", "done", "answered"},
         q.step = "sending" => q.got = "nothing",
         q.step \in {"sending", "answered"} => q.kind = "start" \/ q.id # 0
  PROVE  ChainInv'
<1> USE ChainFacts, ChainBounds
<1> DEFINE n == Len(requests)
           full == ~(q.step = "sending" /\ Len(channel) < Slots)
<1>1. PICK s \in {"sending", "sent", "done", "answered"} :
        /\ requests' = Append(requests, [q EXCEPT !.step = s])
        /\ s = "sent" => q.step = "sending" /\ Len(channel) < Slots /\ channel' = Append(channel, [of |-> n + 1, abort |-> FALSE])
        /\ s # "sent" => s = q.step /\ channel' = channel
  <2>1. CASE full
    <3>1. requests' = Append(requests, q) /\ channel' = channel /\ q = [q EXCEPT !.step = q.step]
      BY <2>1 DEF chains!Incoming, chains!Request
    <3> QED
      BY <3>1
  <2>2. CASE ~full
    BY <2>2 DEF chains!Incoming
  <2> QED
    BY SMTT(30), <2>1, <2>2
<1> DEFINE p == [q EXCEPT !.step = s]
<1>2. /\ p \in chains!Request /\ p.id = q.id /\ p.kind = q.kind /\ p.drip = q.drip /\ p.got = q.got /\ ~p.left
      /\ p.step = s
  BY DEF chains!Request
<1> HIDE DEF p
<1>3. /\ requests' \in Seq(chains!Request) /\ Len(requests)' = n + 1 /\ DOMAIN requests' = 1 .. n + 1
      /\ \A r \in 1 .. n : requests'[r] = requests[r]
      /\ requests'[n + 1] = p
  BY <1>1, <1>2 DEF ChainInv, ChainTypes, p
<1>4. UNCHANGED <<states, chained, expiries, aborts, clock>> /\ n + 1 <= MaxRequests
  BY DEF chains!Incoming
<1>5. /\ channel' \in Seq(chains!Commands) /\ Len(channel)' <= Slots
      /\ Len(channel)' = Len(channel) + (IF s = "sent" THEN 1 ELSE 0)
      /\ \A i \in 1 .. Len(channel) : channel'[i] = channel[i]
      /\ s = "sent" => channel'[Len(channel) + 1] = [of |-> n + 1, abort |-> FALSE]
  <2>1. CASE s = "sent"
    <3>1. [of |-> n + 1, abort |-> FALSE] \in chains!Commands
      BY <1>4 DEF chains!Commands
    <3>2. channel' = Append(channel, [of |-> n + 1, abort |-> FALSE]) /\ Len(channel) < Slots
      BY <1>1, <2>1
    <3>3. channel \in Seq(chains!Commands)
      BY DEF ChainInv, ChainTypes
    <3>4. /\ channel' \in Seq(chains!Commands) /\ Len(channel)' = Len(channel) + 1
          /\ \A i \in 1 .. Len(channel) : channel'[i] = channel[i]
          /\ channel'[Len(channel) + 1] = [of |-> n + 1, abort |-> FALSE]
      BY <3>1, <3>2, <3>3, AppendFacts
    <3> QED
      BY <2>1, <3>2, <3>4
  <2>2. CASE s # "sent"
    BY <1>1, <2>2 DEF ChainInv, ChainTypes
  <2> QED
    BY <2>1, <2>2
<1>6. ChainTypes'
  <2>1. \A r \in 1 .. n + 1 : requests'[r].id \in 0 .. Len(chained)
    BY SMTT(30), <1>2, <1>3 DEF ChainInv, ChainTypes
  <2>2. aborts \subseteq 1 .. n + 1
    BY DEF ChainInv, ChainTypes
  <2>3. /\ states \subseteq [id : Nat, drip : BOOLEAN, exp : Nat] /\ chained \in Seq(Chained)
        /\ expiries \in Seq(Due) /\ clock \in 0 .. MaxTime /\ \A a \in states : a.id \in 0 .. Len(chained)
    BY DEF ChainInv, ChainTypes
  <2> QED
    BY <1>3, <1>4, <1>5, <2>1, <2>2, <2>3 DEF ChainTypes
<1>7. ChannelInv'
  <2>1. \A r \in 1 .. n : Aborted(r)' <=> Aborted(r)
    BY <1>3 DEF Aborted, chains!Drips
  <2>2. aborts \subseteq 1 .. n
    BY DEF ChainInv, ChainTypes
  <2>3. \A r \in aborts' : Aborted(r)'
    BY <1>4, <2>1, <2>2 DEF ChainInv, ChannelInv
  <2>4. ASSUME NEW i \in 1 .. Len(channel)'
        PROVE  /\ channel'[i].of \in 1 .. n + 1
               /\ channel'[i].abort => Aborted(channel[i].of)'
               /\ ~channel'[i].abort => requests'[channel'[i].of].step = "sent"
    <3>1. CASE i \in 1 .. Len(channel)
      <4>1. PICK r \in 1 .. n : channel[i].of = r /\ channel'[i].of = r /\ requests'[r] = requests[r]
        BY <1>3, <1>5, <3>1 DEF ChainInv, ChannelInv
      <4>2. channel[i].abort => Aborted(r)
        BY <3>1, <4>1 DEF ChainInv, ChannelInv
      <4>3. ~channel[i].abort => requests[r].step = "sent"
        BY <3>1, <4>1 DEF ChainInv, ChannelInv
      <4>4. channel'[i].abort => Aborted(channel[i].of)'
        BY <1>5, <3>1, <4>1, <4>2 DEF Aborted, chains!Drips
      <4> QED
        BY <1>5, <3>1, <4>1, <4>3, <4>4
    <3>2. CASE i \notin 1 .. Len(channel)
      BY <1>2, <1>3, <1>5, <3>2
    <3> QED
      BY <3>1, <3>2
  <2>5. ASSUME NEW i \in 1 .. Len(channel)', NEW j \in 1 .. Len(channel)', i # j, channel'[i].of = channel'[j].of,
               ~channel'[i].abort
        PROVE  channel'[j].abort /\ i < j
    <3>1. \A k \in 1 .. Len(channel) : channel[k].of # n + 1
      BY DEF ChainInv, ChannelInv
    <3>2. i \in 1 .. Len(channel) /\ j \in 1 .. Len(channel)
      <4>1. ASSUME NEW k \in 1 .. Len(channel)', k \notin 1 .. Len(channel) PROVE k = Len(channel) + 1 /\ channel'[k].of = n + 1
        BY <1>5, <4>1
      <4>2. ASSUME NEW k \in 1 .. Len(channel) PROVE channel'[k].of # n + 1
        BY <1>5, <3>1, <4>2
      <4>3. CASE i \in 1 .. Len(channel)
        BY ONLY <2>5, <4>1, <4>2, <4>3
      <4>4. CASE i \notin 1 .. Len(channel)
        BY ONLY <2>5, <4>1, <4>2, <4>4
      <4> QED
        BY ONLY <4>3, <4>4
    <3>3. channel'[i] = channel[i] /\ channel'[j] = channel[j]
      BY <1>5, <3>2
    <3>4. channel[i].of = channel[j].of /\ ~channel[i].abort
      BY <2>5, <3>3
    <3>5. channel[j].abort /\ i < j
      BY ONLY ChainInv, <2>5, <3>2, <3>4 DEF ChainInv, ChannelInv
    <3> QED
      BY <3>3, <3>5
  <2> QED
    BY <1>3, <2>3, <2>4, <2>5 DEF ChannelInv
<1>8. StepInv'
  <2>1. DOMAIN channel' = 1 .. Len(channel)'
    BY <1>5
  <2>2. \A r \in 1 .. n, a \in BOOLEAN : chains!Pending(r, a) => chains!Pending(r, a)'
    BY <1>5, <2>1 DEF chains!Pending
  <2>3. \A r \in 1 .. n : chains!Drips(r)' <=> chains!Drips(r)
    BY <1>3 DEF chains!Drips
  <2>4. \A r : s = "sent" /\ r = n + 1 => chains!Pending(r, FALSE)'
    <3>1. s = "sent" => Len(channel) + 1 \in 1 .. Len(channel)'
      BY <1>5
    <3> QED
      BY <1>5, <2>1, <3>1 DEF chains!Pending
  <2>5. ASSUME NEW r \in 1 .. n PROVE StepOf(r)'
    BY <1>3, <1>4, <2>2, <2>3 DEF ChainInv, StepInv, StepOf
  <2> QED
    <3>1. ASSUME NEW r, r = n + 1 PROVE StepOf(r)'
      BY <1>1, <1>2, <1>3, <2>4, <3>1 DEF StepOf
    <3> QED
      BY <1>3, <2>5, <3>1 DEF StepInv
<1>9. WaiterInv'
  BY SMTT(30), <1>3, <1>4 DEF ChainInv, WaiterInv
<1>10. ExpiryInv'
  BY <1>4 DEF ChainInv, ExpiryInv
<1>11. AnswerInv' /\ chains!OneDisclosure' /\ chains!ReleasedOnce'
  <2>1. \A r \in 1 .. Len(requests)' : requests'[r].got \in Telling => r \in 1 .. n /\ requests'[r] = requests[r]
    BY <1>2, <1>3 DEF Telling
  <2> QED
    BY <1>3, <1>4, <2>1, QuietAnswers
<1> QED
  BY <1>6, <1>7, <1>8, <1>9, <1>10, <1>11 DEF ChainInv

-----------------------------------------------------------------------------
(* The channel, and a command that waited for a slot.                      *)

\* A command is appended to the channel, or taken from it.
LEMMA ChannelAppend ==
  ASSUME ChainInv, NEW m \in chains!Commands, Len(channel) < Slots, channel' = Append(channel, m)
  PROVE  /\ channel' \in Seq(chains!Commands) /\ Len(channel)' = Len(channel) + 1 /\ Len(channel)' <= Slots
         /\ \A i \in 1 .. Len(channel) : channel'[i] = channel[i]
         /\ channel'[Len(channel) + 1] = m
         /\ \A r, a : chains!Pending(r, a) => chains!Pending(r, a)'
         /\ \A r, a : m = [of |-> r, abort |-> a] => chains!Pending(r, a)'
<1> USE ChainFacts, ChainBounds
<1>1. /\ channel' \in Seq(chains!Commands) /\ Len(channel)' = Len(channel) + 1 /\ DOMAIN channel' = 1 .. Len(channel) + 1
      /\ \A i \in 1 .. Len(channel) : channel'[i] = channel[i]
      /\ channel'[Len(channel) + 1] = m
  BY AppendFacts DEF ChainInv, ChainTypes
<1>2. \A r, a : chains!Pending(r, a) => chains!Pending(r, a)'
  BY <1>1 DEF chains!Pending
<1>3. \A r, a : m = [of |-> r, abort |-> a] => chains!Pending(r, a)'
  <2>1. Len(channel) + 1 \in DOMAIN channel'
    BY <1>1
  <2> QED
    BY <1>1, <2>1 DEF chains!Pending
<1> QED
  BY <1>1, <1>2, <1>3

LEMMA ChannelTail ==
  ASSUME ChainInv, channel # <<>>, channel' = Tail(channel)
  PROVE  /\ channel' \in Seq(chains!Commands) /\ Len(channel) >= 1 /\ Len(channel)' = Len(channel) - 1 /\ Len(channel)' <= Slots
         /\ Head(channel) = channel[1] /\ channel[1] \in chains!Commands
         /\ \A i \in 1 .. Len(channel)' : i + 1 \in 1 .. Len(channel) /\ channel'[i] = channel[i + 1]
         /\ \A r, a : chains!Pending(r, a) /\ channel[1] # [of |-> r, abort |-> a] => chains!Pending(r, a)'
<1> USE ChainFacts, ChainBounds
<1>1. channel \in Seq(chains!Commands) /\ Len(channel) >= 1 /\ Len(channel) <= Slots
  BY DEF ChainInv, ChainTypes
<1>2. /\ channel' \in Seq(chains!Commands) /\ Len(channel)' = Len(channel) - 1 /\ DOMAIN channel' = 1 .. Len(channel) - 1
      /\ \A i \in 1 .. Len(channel) - 1 : channel'[i] = channel[i + 1]
      /\ Head(channel) = channel[1]
  BY <1>1, HeadTailProperties, LenProperties
<1>3. ASSUME NEW r, NEW a, chains!Pending(r, a), channel[1] # [of |-> r, abort |-> a] PROVE chains!Pending(r, a)'
  <2>1. PICK i \in 1 .. Len(channel) : channel[i] = [of |-> r, abort |-> a]
    BY <1>3 DEF chains!Pending
  <2>2. i # 1 /\ i - 1 \in DOMAIN channel' /\ channel'[i - 1] = channel[i]
    BY <1>1, <1>2, <1>3, <2>1
  <2> QED
    BY <2>1, <2>2 DEF chains!Pending
<1> QED
  BY <1>1, <1>2, <1>3

\* Requests that are changed one by one are as many as before.
LEMMA RequestsSeq ==
  ASSUME ChainInv, requests' \in [1 .. Len(requests) -> chains!Request]
  PROVE  requests' \in Seq(chains!Request) /\ Len(requests)' = Len(requests) /\ DOMAIN requests' = 1 .. Len(requests)
<1> USE ChainFacts
<1>1. requests' \in Seq(chains!Request)
  BY DEF Seq
<1> QED
  BY <1>1, LenProperties

LEMMA RequestSet ==
  ASSUME ChainInv, NEW r \in 1 .. Len(requests), NEW q \in chains!Request, requests' = [requests EXCEPT ![r] = q]
  PROVE  /\ requests' \in Seq(chains!Request) /\ Len(requests)' = Len(requests) /\ DOMAIN requests' = 1 .. Len(requests)
         /\ requests'[r] = q /\ \A k \in 1 .. Len(requests) : k # r => requests'[k] = requests[k]
BY ChainFacts, ExceptSeq DEF ChainInv, ChainTypes

\* What is known of a request stays known while it is as it was.
LEMMA StepKept ==
  ASSUME ChainInv, NEW r \in 1 .. Len(requests), requests'[r] = requests[r],
         requests[r].step = "waiting" => r \in chained'[requests[r].id].waiters,
         chains!Pending(r, FALSE) /\ requests[r].step = "sent" => chains!Pending(r, FALSE)',
         (r \in aborts \/ chains!Pending(r, TRUE)) /\ requests[r].step \in {"sent", "waiting"} =>
           r \in aborts' \/ chains!Pending(r, TRUE)'
  PROVE  StepOf(r)'
BY DEF ChainInv, StepInv, StepOf, chains!Drips

\* Send: no abort can be on its way before the command is.
LEMMA SendStep ==
  ASSUME ChainInv, NEW r \in 1 .. Len(requests), chains!Send(r)
  PROVE  ChainInv'
<1> USE ChainFacts, ChainBounds
<1> DEFINE n == Len(requests)
           m == [of |-> r, abort |-> FALSE]
           q == [requests[r] EXCEPT !.step = "sent"]
<1>1. /\ requests[r].step = "sending" /\ Len(channel) < Slots /\ channel' = Append(channel, m)
      /\ UNCHANGED <<states, chained, expiries, aborts, clock>>
      /\ requests' = [requests EXCEPT ![r] = q]
  BY DEF chains!Send
<1>2. q \in chains!Request /\ m \in chains!Commands
  <2>1. q \in chains!Request
    BY ZenonT(60) DEF chains!Request
  <2>2. r \in 1 .. MaxRequests
    BY DEF ChainInv, ChainTypes
  <2> QED
    BY <2>1, <2>2 DEF chains!Commands
<1>3. /\ requests' \in Seq(chains!Request) /\ Len(requests)' = n /\ DOMAIN requests' = 1 .. n
      /\ requests'[r] = q /\ \A k \in 1 .. n : k # r => requests'[k] = requests[k]
  BY <1>1, <1>2, RequestSet
<1>4. /\ q.step = "sent" /\ q.kind = requests[r].kind /\ q.drip = requests[r].drip /\ q.id = requests[r].id
      /\ q.got = requests[r].got /\ q.left = requests[r].left /\ q.disclosure = requests[r].disclosure
  BY DEF chains!Request
<1> HIDE DEF q
<1>5. /\ channel' \in Seq(chains!Commands) /\ Len(channel)' = Len(channel) + 1 /\ Len(channel)' <= Slots
      /\ \A i \in 1 .. Len(channel) : channel'[i] = channel[i]
      /\ channel'[Len(channel) + 1] = m
      /\ \A k, a : chains!Pending(k, a) => chains!Pending(k, a)'
      /\ chains!Pending(r, FALSE)'
  BY <1>1, <1>2, ChannelAppend
<1>6. ChainTypes'
  BY <1>1, <1>3, <1>4, <1>5 DEF ChainInv, ChainTypes
<1>7. ChannelInv'
  <2>1. ASSUME NEW k \in 1 .. n, Aborted(k) PROVE Aborted(k)' /\ k # r
    BY <1>1, <1>3, <2>1 DEF Aborted, chains!Drips
  <2>2. \A k \in aborts' : Aborted(k)'
    BY <1>1, <2>1 DEF ChainInv, ChannelInv, ChainTypes
  <2>3. \A i \in 1 .. Len(channel) : channel[i].of \in 1 .. n /\ channel[i].of # r
    BY <1>1, <2>1 DEF ChainInv, ChannelInv
  <2>4. ASSUME NEW i \in 1 .. Len(channel)'
        PROVE  /\ channel'[i].of \in 1 .. n
               /\ channel'[i].abort => Aborted(channel[i].of)'
               /\ ~channel'[i].abort => requests'[channel'[i].of].step = "sent"
    <3>1. CASE i \in 1 .. Len(channel)
      <4>1. PICK k \in 1 .. n : channel[i].of = k /\ channel'[i].of = k /\ requests'[k] = requests[k]
        BY <1>3, <1>5, <2>3, <3>1
      <4>2. channel[i].abort => Aborted(k)
        BY <3>1, <4>1 DEF ChainInv, ChannelInv
      <4>3. ~channel[i].abort => requests[k].step = "sent"
        BY <3>1, <4>1 DEF ChainInv, ChannelInv
      <4>4. channel'[i].abort => Aborted(channel[i].of)'
        BY <1>5, <3>1, <4>1, <4>2 DEF Aborted, chains!Drips
      <4> QED
        BY <1>5, <3>1, <4>1, <4>3, <4>4
    <3>2. CASE i \notin 1 .. Len(channel)
      BY <1>3, <1>4, <1>5, <3>2
    <3> QED
      BY <3>1, <3>2
  <2>5. ASSUME NEW i \in 1 .. Len(channel)', NEW j \in 1 .. Len(channel)', i # j, channel'[i].of = channel'[j].of,
               ~channel'[i].abort
        PROVE  channel'[j].abort /\ i < j
    <3>1. i \in 1 .. Len(channel) /\ j \in 1 .. Len(channel)
      BY <1>5, <2>3, <2>5
    <3> QED
      BY <1>5, <2>5, <3>1 DEF ChainInv, ChannelInv
  <2> QED
    BY <1>3, <2>2, <2>4, <2>5 DEF ChannelInv
<1>8. StepInv'
  <2>1. ASSUME NEW k \in 1 .. n PROVE StepOf(k)'
    <3>1. CASE k = r
      BY ZenonT(60), <1>1, <1>3, <1>4, <1>5, <3>1 DEF ChainInv, StepInv, StepOf, chains!Drips
    <3>2. CASE k # r
      <4>1. requests[k].step = "waiting" => k \in chained'[requests[k].id].waiters
        BY <1>1 DEF ChainInv, StepInv, StepOf
      <4> QED
        BY <1>1, <1>3, <1>5, <3>2, <4>1, StepKept
    <3> QED
      BY <3>1, <3>2
  <2> QED
    BY <1>3, <2>1 DEF StepInv
<1>9. WaiterInv'
  BY SMTT(30), <1>1, <1>3 DEF ChainInv, WaiterInv
<1>10. ExpiryInv'
  BY <1>1 DEF ChainInv, ExpiryInv
<1>11. AnswerInv' /\ chains!OneDisclosure' /\ chains!ReleasedOnce'
  BY <1>1, <1>3, <1>4, QuietAnswers
<1> QED
  BY <1>6, <1>7, <1>8, <1>9, <1>10, <1>11 DEF ChainInv

-----------------------------------------------------------------------------
(* Aborts that are sent, and answers that go out.                          *)

LEMMA ChannelKept ==
  ASSUME ChainInv, Len(requests)' = Len(requests),
         channel' = channel \/ (channel # <<>> /\ channel' = Tail(channel)),
         \A k \in 1 .. Len(requests) : Aborted(k) => Aborted(k)',
         \A k \in aborts' : k \in 1 .. Len(requests) /\ Aborted(k)',
         \A i \in 1 .. Len(channel)' : ~channel'[i].abort => requests'[channel'[i].of].step = "sent"
  PROVE  ChannelInv'
<1> USE ChainFacts
<1>1. PICK d \in {0, 1} : \A i \in 1 .. Len(channel)' : i + d \in 1 .. Len(channel) /\ channel'[i] = channel[i + d]
  <2>1. CASE channel' = channel
    BY SMTT(30), <2>1
  <2>2. CASE channel # <<>> /\ channel' = Tail(channel)
    BY <2>2, ChannelTail
  <2> QED
    BY <2>1, <2>2
<1>2. ASSUME NEW i \in 1 .. Len(channel)'
      PROVE  /\ channel'[i].of \in 1 .. Len(requests)'
             /\ channel'[i].abort => Aborted(channel[i].of)'
  <2>1. PICK k \in 1 .. Len(requests) : channel'[i].of = k /\ channel[i + d].of = k
    BY <1>1 DEF ChainInv, ChannelInv
  <2>2. channel'[i].abort => Aborted(k)
    BY <1>1, <2>1 DEF ChainInv, ChannelInv
  <2>3. Aborted(k) => Aborted(k)'
    OBVIOUS
  <2>4. channel'[i].abort => Aborted(channel[i].of)'
    BY <2>1, <2>2, <2>3 DEF Aborted, chains!Drips
  <2> QED
    BY <2>1, <2>4
<1>3. ASSUME NEW i \in 1 .. Len(channel)', NEW j \in 1 .. Len(channel)', i # j, channel'[i].of = channel'[j].of,
             ~channel'[i].abort
      PROVE  channel'[j].abort /\ i < j
  <2>1. /\ i + d \in 1 .. Len(channel) /\ j + d \in 1 .. Len(channel) /\ i + d # j + d
        /\ channel'[i] = channel[i + d] /\ channel'[j] = channel[j + d]
    BY <1>1, <1>3
  <2>2. channel[j + d].abort /\ i + d < j + d
    BY <1>3, <2>1 DEF ChainInv, ChannelInv
  <2> QED
    BY <2>1, <2>2
<1> QED
  BY <1>2, <1>3 DEF ChannelInv

LEMMA SendAbortStep ==
  ASSUME ChainInv, NEW r, chains!SendAbort(r)
  PROVE  ChainInv'
<1> USE ChainFacts, ChainBounds
<1> DEFINE n == Len(requests)
           m == [of |-> r, abort |-> TRUE]
<1>1. /\ r \in aborts /\ Len(channel) < Slots /\ channel' = Append(channel, m) /\ aborts' = aborts \ {r}
      /\ UNCHANGED <<requests, states, chained, expiries, clock>>
  BY DEF chains!SendAbort
<1>2. r \in 1 .. n /\ Aborted(r) /\ n <= MaxRequests
  BY <1>1 DEF ChainInv, ChainTypes, ChannelInv
<1>3. m \in chains!Commands
  BY <1>2 DEF chains!Commands
<1>4. /\ channel' \in Seq(chains!Commands) /\ Len(channel)' = Len(channel) + 1 /\ Len(channel)' <= Slots
      /\ \A i \in 1 .. Len(channel) : channel'[i] = channel[i]
      /\ channel'[Len(channel) + 1] = m
      /\ \A k, a : chains!Pending(k, a) => chains!Pending(k, a)'
      /\ chains!Pending(r, TRUE)'
  BY <1>1, <1>3, ChannelAppend
<1>5. ChainTypes'
  BY <1>1, <1>4 DEF ChainInv, ChainTypes
<1>6. ChannelInv'
  <2>1. \A k \in aborts' : Aborted(k)'
    BY <1>1 DEF ChainInv, ChannelInv, Aborted, chains!Drips
  <2>2. ASSUME NEW i \in 1 .. Len(channel)'
        PROVE  /\ channel'[i].of \in 1 .. n
               /\ channel'[i].abort => Aborted(channel[i].of)'
               /\ ~channel'[i].abort => requests'[channel'[i].of].step = "sent"
    <3>1. CASE i \in 1 .. Len(channel)
      <4>1. channel'[i] = channel[i] /\ requests' = requests
        BY <1>1, <1>4, <3>1
      <4>2. /\ channel[i].of \in 1 .. n
            /\ channel[i].abort => Aborted(channel[i].of)
            /\ ~channel[i].abort => requests[channel[i].of].step = "sent"
        BY ONLY ChainInv, <3>1 DEF ChainInv, ChannelInv
      <4>3. channel'[i].abort => Aborted(channel[i].of)'
        BY <4>1, <4>2 DEF Aborted, chains!Drips
      <4> QED
        BY ONLY <4>1, <4>2, <4>3
    <3>2. CASE i \notin 1 .. Len(channel)
      <4>1. channel'[i] = m
        BY <1>4, <3>2
      <4> QED
        BY <1>1, <1>2, <4>1 DEF Aborted, chains!Drips
    <3> QED
      BY <3>1, <3>2
  <2>3. ASSUME NEW i \in 1 .. Len(channel)', NEW j \in 1 .. Len(channel)', i # j, channel'[i].of = channel'[j].of,
               ~channel'[i].abort
        PROVE  channel'[j].abort /\ i < j
    <3>1. i \in 1 .. Len(channel)
      BY <1>4, <2>3
    <3>2. CASE j \in 1 .. Len(channel)
      <4>1. channel'[i] = channel[i] /\ channel'[j] = channel[j]
        BY ONLY <1>4, <3>1, <3>2
      <4>2. channel[i].of = channel[j].of /\ ~channel[i].abort
        BY ONLY <2>3, <4>1
      <4>3. channel[j].abort /\ i < j
        BY ONLY ChainInv, <2>3, <3>1, <3>2, <4>2 DEF ChainInv, ChannelInv
      <4> QED
        BY ONLY <4>1, <4>3
    <3>3. CASE j \notin 1 .. Len(channel)
      <4>1. Len(channel) \in Nat /\ j \in 1 .. Len(channel) + 1
        BY ONLY ChainFacts, ChainInv, <1>4, <2>3
      <4>2. j = Len(channel) + 1 /\ i < j
        BY ONLY <3>1, <3>3, <4>1
      <4>3. channel'[j] = m
        BY ONLY <1>4, <4>2
      <4> QED
        BY <4>2, <4>3
    <3> QED
      BY <3>2, <3>3
  <2> QED
    BY <1>1, <2>1, <2>2, <2>3 DEF ChannelInv
<1>7. StepInv'
  <2>1. ASSUME NEW k \in 1 .. n PROVE StepOf(k)'
    <3>1. requests[k].step = "waiting" => k \in chained'[requests[k].id].waiters
      BY <1>1 DEF ChainInv, StepInv, StepOf
    <3>2. k \in aborts => k \in aborts' \/ chains!Pending(k, TRUE)'
      BY <1>1, <1>4
    <3> QED
      BY <1>1, <1>4, <3>1, <3>2, StepKept
  <2> QED
    BY <1>1, <2>1 DEF StepInv
<1>8. WaiterInv' /\ ExpiryInv'
  BY <1>1 DEF ChainInv, WaiterInv, ExpiryInv
<1>9. AnswerInv' /\ chains!OneDisclosure' /\ chains!ReleasedOnce'
  BY <1>1, QuietAnswers
<1> QED
  BY <1>5, <1>6, <1>7, <1>8, <1>9 DEF ChainInv

\* The answer goes out.
LEMMA RespondStep ==
  ASSUME ChainInv, NEW r \in 1 .. Len(requests), chains!Respond(r)
  PROVE  ChainInv'
<1> USE ChainFacts, ChainBounds
<1> DEFINE n == Len(requests)
           got == IF chains!Drips(r) /\ requests[r].got # "next" THEN "error" ELSE requests[r].got
           q == [requests[r] EXCEPT !.step = "done", !.got = got]
<1>1. /\ requests[r].step = "answered" /\ requests' = [requests EXCEPT ![r] = q]
      /\ states' = IF requests[r].got = "started"
                   THEN states \cup {[id |-> requests[r].id, drip |-> requests[r].drip, exp |-> requests[r].exp]} ELSE states
      /\ aborts' = IF chains!Drips(r) THEN aborts \cup {r} ELSE aborts
      /\ UNCHANGED <<chained, expiries, channel, clock>>
  BY DEF chains!Respond
<1>2. /\ q \in chains!Request /\ q.step = "done" /\ q.kind = requests[r].kind /\ q.drip = requests[r].drip
      /\ q.id = requests[r].id /\ q.disclosure = requests[r].disclosure
      /\ q.got \in Telling => q.got = requests[r].got
  BY ZenonT(60) DEF chains!Request, Telling
<1> HIDE DEF q
<1>3. /\ requests' \in Seq(chains!Request) /\ Len(requests)' = n /\ DOMAIN requests' = 1 .. n
      /\ requests'[r] = q /\ \A k \in 1 .. n : k # r => requests'[k] = requests[k]
  BY <1>1, <1>2, RequestSet
<1>4. ChainTypes'
  <2>1. \A k \in 1 .. n : requests'[k].id \in 0 .. Len(chained)
    BY <1>2, <1>3 DEF ChainInv, ChainTypes
  <2>2. states' \subseteq [id : Nat, drip : BOOLEAN, exp : Nat] /\ \A s \in states' : s.id \in 0 .. Len(chained)
    <3> DEFINE s == [id |-> requests[r].id, drip |-> requests[r].drip, exp |-> requests[r].exp]
    <3>1. s \in [id : Nat, drip : BOOLEAN, exp : Nat] /\ s.id \in 0 .. Len(chained)
      BY DEF chains!Request, ChainInv, ChainTypes
    <3>2. states' \subseteq states \cup {s}
      BY <1>1
    <3> QED
      BY <3>1, <3>2 DEF ChainInv, ChainTypes
  <2>3. aborts' \subseteq 1 .. n
    BY <1>1 DEF ChainInv, ChainTypes
  <2> QED
    BY <1>1, <1>3, <2>1, <2>2, <2>3 DEF ChainInv, ChainTypes
<1>5. ChannelInv'
  <2>1. \A k \in 1 .. n : Aborted(k) => Aborted(k)'
    BY <1>2, <1>3 DEF Aborted, chains!Drips
  <2>2. chains!Drips(r) => Aborted(r)'
    BY <1>1, <1>2, <1>3 DEF Aborted, chains!Drips, ChainInv, StepInv, StepOf
  <2>3. \A k \in aborts' : k \in 1 .. n /\ Aborted(k)'
    BY <1>1, <2>1, <2>2 DEF ChainInv, ChannelInv, ChainTypes
  <2>4. \A i \in 1 .. Len(channel)' : ~channel'[i].abort => requests'[channel'[i].of].step = "sent"
    BY <1>1, <1>3 DEF ChainInv, ChannelInv
  <2> QED
    BY <1>1, <1>3, <2>1, <2>3, <2>4, ChannelKept
<1>6. StepInv'
  <2>1. \A k, a : chains!Pending(k, a) => chains!Pending(k, a)'
    BY <1>1 DEF chains!Pending
  <2>2. ASSUME NEW k \in 1 .. n PROVE StepOf(k)'
    <3>1. CASE k = r
      BY <1>2, <1>3, <3>1 DEF StepOf
    <3>2. CASE k # r
      <4>1. requests[k].step = "waiting" => k \in chained'[requests[k].id].waiters
        BY <1>1 DEF ChainInv, StepInv, StepOf
      <4> QED
        BY <1>1, <1>3, <2>1, <3>2, <4>1, StepKept
    <3> QED
      BY <3>1, <3>2
  <2> QED
    BY <1>3, <2>2 DEF StepInv
<1>7. WaiterInv'
  BY SMTT(30), <1>1, <1>3 DEF ChainInv, WaiterInv
<1>8. ExpiryInv'
  BY <1>1 DEF ChainInv, ExpiryInv
<1>9. AnswerInv' /\ chains!OneDisclosure' /\ chains!ReleasedOnce'
  BY <1>1, <1>2, <1>3, QuietAnswers
<1> QED
  BY <1>4, <1>5, <1>6, <1>7, <1>8, <1>9 DEF ChainInv

-----------------------------------------------------------------------------
(* The answers, and the four endpoints.                                    *)

Answers == {"nothing", "bad", "error", "restart", "started", "full", "disclosed", "gone", "early",
            "serverGone", "released", "next", "end"}

LEMMA AtFacts ==
  ASSUME NEW q \in chains!Request, NEW got \in Answers
  PROVE  /\ chains!At(q, got) \in chains!Request
         /\ chains!At(q, got).kind = q.kind /\ chains!At(q, got).drip = q.drip /\ chains!At(q, got).left = q.left
         /\ chains!At(q, got).id = q.id /\ chains!At(q, got).disclosure = q.disclosure
         /\ chains!At(q, got).step \in {"answered", "done", "dropped"}
         /\ chains!At(q, got).got = (IF q.left THEN q.got ELSE got)
         /\ chains!At(q, got).step = "answered" => q.kind \in {"start", "next"} /\ got # "bad"
<1>1. CASE q.left
  <2> DEFINE p == [q EXCEPT !.step = "dropped"]
  <2>1. chains!At(q, got) = p
    BY <1>1 DEF chains!At
  <2>2. /\ p \in chains!Request /\ p.kind = q.kind /\ p.drip = q.drip /\ p.left = q.left /\ p.id = q.id
        /\ p.disclosure = q.disclosure /\ p.step = "dropped" /\ p.got = q.got
    BY DEF chains!Request
  <2> QED
    BY <1>1, <2>1, <2>2
<1>2. CASE ~q.left
  <2> DEFINE step == IF got # "bad" /\ (q.kind = "start" \/ (q.kind = "next" /\ q.drip)) THEN "answered" ELSE "done"
             p == [q EXCEPT !.got = got, !.step = step]
  <2>1. chains!At(q, got) = p
    BY <1>2 DEF chains!At
  <2>2. step \in {"answered", "done"} /\ (step = "answered" => q.kind \in {"start", "next"} /\ got # "bad")
    OBVIOUS
  <2> HIDE DEF step
  <2>3. /\ p \in chains!Request /\ p.kind = q.kind /\ p.drip = q.drip /\ p.left = q.left /\ p.id = q.id
        /\ p.disclosure = q.disclosure /\ p.step = step /\ p.got = got
    BY ZenonT(60), <2>2 DEF chains!Request, Answers
  <2> QED
    BY <1>2, <2>1, <2>2, <2>3
<1> QED
  BY <1>1, <1>2

LEMMA AskedFacts ==
  ASSUME ChainInv, NEW sort \in {"start", "result", "next", "release"}, NEW s \in [id : Nat, drip : BOOLEAN, exp : Nat],
         NEW d \in Disclosures \cup {NoDisclosure}, NEW next \in BOOLEAN, NEW stale \in BOOLEAN
  PROVE  /\ chains!Asked(sort, s, d, next, stale) \in chains!Request
         /\ chains!Asked(sort, s, d, next, stale).id = s.id /\ chains!Asked(sort, s, d, next, stale).kind = sort
         /\ chains!Asked(sort, s, d, next, stale).step = "sending" /\ chains!Asked(sort, s, d, next, stale).got = "nothing"
         /\ ~chains!Asked(sort, s, d, next, stale).left
BY DEF chains!Asked, chains!Request

\* The four endpoints.
LEMMA AskStep ==
  ASSUME ChainInv, NEW sort \in {"start", "result", "next", "release"}, NEW s \in [id : Nat, drip : BOOLEAN, exp : Nat],
         NEW d \in Disclosures \cup {NoDisclosure}, NEW next \in BOOLEAN, NEW stale \in BOOLEAN,
         s.id \in 0 .. Len(chained), NEW got \in {"nothing", "bad", "started", "restart"},
         got = "nothing" => sort = "start" \/ s.id # 0, got = "started" => sort = "start", got = "restart" => sort # "next",
         chains!Incoming(IF got = "nothing" THEN chains!Asked(sort, s, d, next, stale)
                         ELSE chains!At(chains!Asked(sort, s, d, next, stale), got))
  PROVE  ChainInv'
<1> DEFINE a == chains!Asked(sort, s, d, next, stale)
<1>1. /\ a \in chains!Request /\ a.id = s.id /\ a.kind = sort /\ a.step = "sending" /\ a.got = "nothing" /\ ~a.left
  BY AskedFacts
<1> HIDE DEF a
<1>2. CASE got = "nothing"
  <2>1. chains!Incoming(a)
    BY <1>2 DEF a
  <2> QED
    BY <1>1, <1>2, <2>1, IncomingStep DEF Telling
<1>3. CASE got # "nothing"
  <2> DEFINE q == chains!At(a, got)
  <2>1. chains!Incoming(q)
    BY <1>3 DEF a
  <2>2. /\ q \in chains!Request /\ q.id = s.id /\ q.kind = sort /\ ~q.left /\ q.got = got
        /\ q.step \in {"answered", "done", "dropped"}
        /\ q.step = "answered" => sort \in {"start", "next"} /\ got # "bad"
    BY <1>1, AtFacts DEF Answers
  <2>3. q.step # "dropped"
    <3>1. q = [a EXCEPT !.got = got, !.step = q.step] /\ q.step \in {"answered", "done"}
      BY <1>1 DEF chains!At, chains!Request
    <3> QED
      BY <3>1
  <2> HIDE DEF q
  <2> QED
    BY <1>1, <1>3, <2>1, <2>2, <2>3, IncomingStep DEF Telling
<1> QED
  BY <1>2, <1>3

LEMMA AuthStartStep ==
  ASSUME ChainInv, NEW how, chains!AuthStart(how)
  PROVE  ChainInv'
<1> USE ChainBounds
<1> DEFINE s == chains!Setup(how)
           a == chains!Asked("start", s, NoDisclosure, FALSE, FALSE)
           got == IF how = "unchained drip" THEN "bad" ELSE IF how = "unchained" THEN "started" ELSE "nothing"
<1>1. s \in [id : Nat, drip : BOOLEAN, exp : Nat] /\ s.id = 0
  BY DEF chains!Setup, chains!NoChain, ChainInv, ChainTypes
<1>2. 0 \in 0 .. Len(chained)
  BY ChainFacts
<1>3. chains!Incoming(IF got = "nothing" THEN a ELSE chains!At(a, got))
  <2>1. CASE how = "unchained drip"
    BY <2>1 DEF chains!AuthStart
  <2>2. CASE how = "unchained"
    BY <2>2 DEF chains!AuthStart
  <2>3. CASE how \notin {"unchained drip", "unchained"}
    BY <2>3 DEF chains!AuthStart
  <2> QED
    BY <2>1, <2>2, <2>3
<1>4. got \in {"nothing", "bad", "started", "restart"} /\ got # "restart"
  OBVIOUS
<1> HIDE DEF got, s
<1> QED
  BY <1>1, <1>2, <1>3, <1>4, AskStep

LEMMA AskingStep ==
  ASSUME ChainInv, NEW s \in states,
         \/ chains!YiviWaitForResult(s)
         \/ \E d \in Disclosures : chains!YiviNextSession(s, d)
         \/ \E how \in Releases : chains!YiviReleaseNextSession(s, how)
  PROVE  ChainInv'
<1>1. s \in [id : Nat, drip : BOOLEAN, exp : Nat] /\ s.id \in 0 .. Len(chained)
  BY DEF ChainInv, ChainTypes
<1>2. CASE chains!YiviWaitForResult(s)
  <2> DEFINE got == IF ~chains!Unsealed(s) THEN "restart" ELSE IF s.id = 0 THEN "bad" ELSE "nothing"
             a == chains!Asked("result", s, NoDisclosure, FALSE, FALSE)
  <2>1. chains!Incoming(IF got = "nothing" THEN a ELSE chains!At(a, got))
    BY <1>2 DEF chains!YiviWaitForResult, chains!NoChain
  <2>2. got \in {"nothing", "bad", "restart"} /\ (got = "nothing" => s.id # 0)
    OBVIOUS
  <2> HIDE DEF got
  <2> QED
    BY <1>1, <2>1, <2>2, AskStep
<1>3. ASSUME NEW d \in Disclosures, chains!YiviNextSession(s, d) PROVE ChainInv'
  <2> DEFINE got == IF ~chains!Unsealed(s) \/ s.id = 0 THEN "bad" ELSE "nothing"
             a == chains!Asked("next", s, d, FALSE, FALSE)
  <2>1. chains!Incoming(IF got = "nothing" THEN a ELSE chains!At(a, got))
    BY <1>3 DEF chains!YiviNextSession, chains!NoChain
  <2>2. got \in {"nothing", "bad"} /\ (got = "nothing" => s.id # 0)
    OBVIOUS
  <2> HIDE DEF got
  <2> QED
    BY <1>1, <2>1, <2>2, AskStep
<1>4. ASSUME NEW how \in Releases, chains!YiviReleaseNextSession(s, how) PROVE ChainInv'
  <2> DEFINE next == how # "end"
             stale == how = "unless stale"
             got == IF ~chains!Unsealed(s) THEN "restart" ELSE IF s.id = 0 \/ (~next /\ s.drip) THEN "bad" ELSE "nothing"
             a == chains!Asked("release", s, NoDisclosure, next, stale)
  <2>1. chains!Incoming(IF got = "nothing" THEN a ELSE chains!At(a, got))
    BY <1>4 DEF chains!YiviReleaseNextSession, chains!NoChain
  <2>2. got \in {"nothing", "bad", "restart"} /\ (got = "nothing" => s.id # 0) /\ next \in BOOLEAN /\ stale \in BOOLEAN
    OBVIOUS
  <2> HIDE DEF got, next, stale
  <2> QED
    BY ZenonT(60), <1>1, <2>1, <2>2, AskStep
<1> QED
  BY <1>2, <1>3, <1>4

-----------------------------------------------------------------------------
(* What is shared by all that the task serves.                             *)

\* What a request may change into when it is served, or what it waits for is gone.
Moved(k) ==
  /\ requests[k].step \in {"sent", "waiting"} /\ requests'[k].step \in {"waiting", "answered", "done", "dropped"}
  /\ requests'[k].kind = requests[k].kind /\ requests'[k].drip = requests[k].drip /\ requests'[k].left = requests[k].left
  /\ requests'[k].id = requests[k].id \/ requests[k].kind = "start"
  /\ requests'[k].step = "waiting" => requests'[k].got = "nothing" /\ requests[k].kind # "start"
  /\ requests'[k].step = "answered" => requests[k].kind \in {"start", "next"}

LEMMA Changed ==
  ASSUME ChainInv, requests' \in Seq(chains!Request), Len(requests)' = Len(requests),
         \A k \in 1 .. Len(requests) : requests'[k] = requests[k] \/ Moved(k),
         channel' = channel \/ (channel # <<>> /\ channel' = Tail(channel)),
         chained' \in Seq(Chained), Len(chained)' \in Nat, Len(chained) <= Len(chained)', expiries' \in Seq(Due),
         UNCHANGED <<states, aborts, clock>>,
         \A k \in 1 .. Len(requests) : requests'[k].id \in 0 .. Len(chained)',
         \A k \in 1 .. Len(requests) : requests'[k].step = "waiting" => k \in chained'[requests'[k].id].waiters,
         \A k \in 1 .. Len(requests) : requests'[k].step = "sent" => chains!Pending(k, FALSE)',
         \A k \in 1 .. Len(requests) : requests'[k].step \in {"sent", "waiting"} /\ chains!Pending(k, TRUE) =>
           chains!Pending(k, TRUE)',
         \A i \in 1 .. Len(channel)' : ~channel'[i].abort => requests'[channel'[i].of].step = "sent"
  PROVE  ChainTypes' /\ ChannelInv' /\ StepInv'
<1> USE ChainFacts, ChainBounds
<1>1. ChainTypes'
  <2>1. channel' \in Seq(chains!Commands) /\ Len(channel)' <= Slots
    BY ChannelTail DEF ChainInv, ChainTypes
  <2>2. \A s \in states' : s.id \in 0 .. Len(chained)'
    BY DEF ChainInv, ChainTypes
  <2> QED
    BY <2>1, <2>2 DEF ChainInv, ChainTypes
<1>2. \A k \in 1 .. Len(requests) : chains!Drips(k)' <=> chains!Drips(k)
  BY DEF chains!Drips, Moved
<1>3. ChannelInv'
  <2>1. \A k \in 1 .. Len(requests) : Aborted(k) => Aborted(k)'
    <3>1. ASSUME NEW k \in 1 .. Len(requests), Aborted(k) PROVE Aborted(k)'
      <4>1. CASE requests'[k] = requests[k]
        BY <3>1, <4>1 DEF Aborted, chains!Drips
      <4>2. CASE Moved(k)
        BY <1>2, <3>1, <4>2 DEF Aborted, Moved, chains!Drips
      <4> QED
        BY <4>1, <4>2
    <3> QED
      BY <3>1
  <2>2. \A k \in aborts' : k \in 1 .. Len(requests) /\ Aborted(k)'
    BY <2>1 DEF ChainInv, ChannelInv, ChainTypes
  <2> QED
    BY <2>1, <2>2, ChannelKept
<1>4. StepInv'
  <2>1. ASSUME NEW k \in 1 .. Len(requests) PROVE StepOf(k)'
    <3>1. StepOf(k)
      BY DEF ChainInv, StepInv
    <3>2. CASE requests'[k] = requests[k]
      BY <3>1, <3>2, StepKept
    <3>3. CASE Moved(k)
      <4>1. requests[k].kind = "next" \/ requests[k].kind \in {"result", "release"} => requests'[k].id # 0
        BY <3>1, <3>3 DEF Moved, StepOf
      <4>2. requests'[k].step = "waiting" => requests'[k].id # 0
        BY <3>3, <4>1 DEF Moved, chains!Request
      <4>3. requests'[k].step = "waiting" /\ requests'[k].left /\ chains!Drips(k)' => k \in aborts' \/ chains!Pending(k, TRUE)'
        BY <1>2, <3>1, <3>3 DEF Moved, StepOf
      <4> QED
        BY <3>1, <3>3, <4>1, <4>2, <4>3 DEF StepOf, Moved
    <3> QED
      BY <3>2, <3>3
  <2> QED
    BY <2>1 DEF StepInv
<1> QED
  BY <1>1, <1>3, <1>4

\* The command at the head of the channel is of a request that was sent, and is
\* the only one of it that is no abort.
LEMMA ServeFacts ==
  ASSUME ChainInv, NEW r, NEW sort, chains!Serve(r, sort)
  PROVE  /\ r \in 1 .. Len(requests) /\ requests[r].step = "sent" /\ requests[r].got = "nothing" /\ requests[r].kind = sort
         /\ requests[r].id \in 0 .. Len(chained) /\ (sort # "start" => requests[r].id # 0)
         /\ channel # <<>> /\ channel' = Tail(channel) /\ UNCHANGED <<states, aborts, clock>>
         /\ \A k : k # r /\ chains!Pending(k, FALSE) => chains!Pending(k, FALSE)'
         /\ \A k : chains!Pending(k, TRUE) => chains!Pending(k, TRUE)'
         /\ \A i \in 1 .. Len(channel)' : ~channel'[i].abort =>
              channel'[i].of # r /\ channel'[i].of \in 1 .. Len(requests) /\ requests[channel'[i].of].step = "sent"
<1> USE ChainFacts
<1>1. /\ channel # <<>> /\ channel' = Tail(channel) /\ Head(channel) = [of |-> r, abort |-> FALSE]
      /\ requests[r].kind = sort /\ UNCHANGED <<states, aborts, clock>>
  BY DEF chains!Serve
<1>2. /\ Len(channel) >= 1 /\ Len(channel)' = Len(channel) - 1 /\ channel[1] = [of |-> r, abort |-> FALSE]
      /\ \A i \in 1 .. Len(channel)' : i + 1 \in 1 .. Len(channel) /\ channel'[i] = channel[i + 1]
      /\ \A k, a : chains!Pending(k, a) /\ channel[1] # [of |-> k, abort |-> a] => chains!Pending(k, a)'
  BY <1>1, ChannelTail
<1>3. r \in 1 .. Len(requests) /\ requests[r].step = "sent"
  BY <1>2 DEF ChainInv, ChannelInv
<1>4. requests[r].got = "nothing" /\ (sort # "start" => requests[r].id # 0)
  <2>1. requests[r].kind \in {"start", "result", "next", "release"}
    BY <1>3 DEF chains!Request
  <2> QED
    BY <1>1, <1>3, <2>1 DEF ChainInv, StepInv, StepOf
<1>5. requests[r].id \in 0 .. Len(chained)
  BY <1>3 DEF ChainInv, ChainTypes
<1>6. \A k : k # r /\ chains!Pending(k, FALSE) => chains!Pending(k, FALSE)'
  <2>1. \A k : k # r => channel[1] # [of |-> k, abort |-> FALSE]
    <3>1. channel[1].of = r
      BY <1>2
    <3>2. \A k : [of |-> k, abort |-> FALSE].of = k
      OBVIOUS
    <3> QED
      BY <3>1, <3>2
  <2> QED
    BY <1>2, <2>1
<1>7. \A k : chains!Pending(k, TRUE) => chains!Pending(k, TRUE)'
  <2>1. \A k : channel[1] # [of |-> k, abort |-> TRUE]
    <3>1. channel[1].abort = FALSE
      BY <1>2
    <3>2. \A k : [of |-> k, abort |-> TRUE].abort = TRUE
      OBVIOUS
    <3> QED
      BY <3>1, <3>2
  <2> QED
    BY <1>2, <2>1
<1>8. \A i \in 1 .. Len(channel)' : ~channel'[i].abort =>
        channel'[i].of # r /\ channel'[i].of \in 1 .. Len(requests) /\ requests[channel'[i].of].step = "sent"
  <2> SUFFICES ASSUME NEW i \in 1 .. Len(channel)', ~channel'[i].abort
               PROVE  channel'[i].of # r /\ channel'[i].of \in 1 .. Len(requests) /\ requests[channel'[i].of].step = "sent"
    OBVIOUS
  <2>1. i + 1 \in 1 .. Len(channel) /\ channel'[i] = channel[i + 1] /\ 1 \in 1 .. Len(channel) /\ i + 1 # 1
    BY <1>2
  <2>2. channel[i + 1].of # r
    BY <1>2, <2>1 DEF ChainInv, ChannelInv
  <2> QED
    BY <2>1, <2>2 DEF ChainInv, ChannelInv
<1> QED
  BY <1>1, <1>3, <1>4, <1>5, <1>6, <1>7, <1>8

LEMMA Served ==
  ASSUME ChainInv, NEW r, NEW sort, chains!Serve(r, sort),
         requests' \in Seq(chains!Request), Len(requests)' = Len(requests), Moved(r),
         \A k \in 1 .. Len(requests) : k # r => requests'[k] = requests[k] \/ (requests[k].step = "waiting" /\ Moved(k)),
         chained' \in Seq(Chained), Len(chained)' \in Nat, Len(chained) <= Len(chained)', expiries' \in Seq(Due),
         requests'[r].id \in 0 .. Len(chained)',
         \A k \in 1 .. Len(requests) : requests'[k].step = "waiting" => k \in chained'[requests'[k].id].waiters
  PROVE  ChainTypes' /\ ChannelInv' /\ StepInv'
<1> USE ChainFacts
<1>1. /\ r \in 1 .. Len(requests) /\ requests[r].step = "sent" /\ requests[r].kind = sort
      /\ channel # <<>> /\ channel' = Tail(channel) /\ UNCHANGED <<states, aborts, clock>>
      /\ \A k : k # r /\ chains!Pending(k, FALSE) => chains!Pending(k, FALSE)'
      /\ \A k : chains!Pending(k, TRUE) => chains!Pending(k, TRUE)'
      /\ \A i \in 1 .. Len(channel)' : ~channel'[i].abort =>
           channel'[i].of # r /\ channel'[i].of \in 1 .. Len(requests) /\ requests[channel'[i].of].step = "sent"
  BY ServeFacts
<1>2. \A k \in 1 .. Len(requests) : requests'[k] = requests[k] \/ Moved(k)
  BY <1>1
<1>3. \A k \in 1 .. Len(requests) : requests'[k].step = "sent" => chains!Pending(k, FALSE)'
  <2> SUFFICES ASSUME NEW k \in 1 .. Len(requests), requests'[k].step = "sent" PROVE chains!Pending(k, FALSE)'
    OBVIOUS
  <2>1. ~Moved(k)
    BY DEF Moved
  <2>2. k # r /\ requests[k].step = "sent"
    BY <2>1
  <2> QED
    BY <1>1, <2>2 DEF ChainInv, StepInv, StepOf
<1>4. \A i \in 1 .. Len(channel)' : ~channel'[i].abort => requests'[channel'[i].of].step = "sent"
  BY <1>1
<1>5. \A k \in 1 .. Len(requests) : requests'[k].id \in 0 .. Len(chained)'
  <2> SUFFICES ASSUME NEW k \in 1 .. Len(requests), k # r PROVE requests'[k].id \in 0 .. Len(chained)'
    OBVIOUS
  <2>1. requests[k].id \in 0 .. Len(chained)
    BY DEF ChainInv, ChainTypes
  <2>2. requests[k].id \in 0 .. Len(chained)'
    BY <2>1
  <2>3. requests[k].step = "waiting" => requests[k].kind # "start"
    <3>0. StepOf(k)
      BY DEF ChainInv, StepInv
    <3>1. requests[k].step = "waiting" => requests[k].id \in 1 .. Len(chained) /\ k \in chained[requests[k].id].waiters
      BY <2>1, <3>0 DEF StepOf
    <3>2. \A c \in 1 .. Len(chained) : chained[c].state \in {"awaits", "here", "removed"}
      BY DEF Chained
    <3> QED
      BY <3>1, <3>2 DEF ChainInv, WaiterInv
  <2> QED
    BY <2>2, <2>3 DEF Moved
<1> QED
  BY <1>1, <1>2, <1>3, <1>4, <1>5, Changed

\* Some are told of session c that it has the disclosure d, or that there is a next
\* session, and only r that it was released.
Tells(c, d, r) ==
  /\ c \in 1 .. Len(chained) /\ chained[c].state # "removed" /\ (chained[c].state = "here" => d = chained[c].disclosure)
  /\ DOMAIN requests' = 1 .. Len(requests) /\ Len(requests)' = Len(requests)
  /\ \A k \in 1 .. Len(requests) : requests'[k].got \in Telling =>
       \/ /\ requests'[k].got = requests[k].got /\ requests'[k].id = requests[k].id
          /\ requests'[k].disclosure = requests[k].disclosure
       \/ /\ requests[k].got \notin Telling /\ requests'[k].id = c
          /\ \/ requests'[k].got \in {"disclosed", "next"} /\ requests'[k].disclosure = d
             \/ requests'[k].got = "released" /\ k = r
  /\ chained'[c].state # "awaits" /\ (chained'[c].state = "here" => chained'[c].disclosure = d)
  /\ \A k \in 1 .. Len(requests) : requests'[k].got \in {"next", "released"} /\ requests[k].got \notin Telling =>
       chained'[c].state = "removed"
  /\ \A o \in 1 .. Len(chained) : o # c => chained'[o] = chained[o]

LEMMA ToldAnswers ==
  ASSUME ChainInv, NEW c, NEW d, NEW r, Tells(c, d, r)
  PROVE  AnswerInv' /\ chains!OneDisclosure' /\ chains!ReleasedOnce'
<1> USE ChainFacts DEF Telling, Tells
<1> DEFINE Old(k) == /\ requests'[k].got = requests[k].got /\ requests'[k].id = requests[k].id
                     /\ requests'[k].disclosure = requests[k].disclosure
<1>1. ASSUME NEW k \in 1 .. Len(requests), Old(k), requests[k].got \in Telling
      PROVE  /\ requests[k].id \in 1 .. Len(chained)
             /\ requests[k].id = c => requests[k].got = "disclosed" /\ requests[k].disclosure = d
  <2>1. requests[k].id \in 0 .. Len(chained) /\ requests[k].id # 0
    BY <1>1 DEF ChainInv, ChainTypes, AnswerInv
  <2>2. chained[c].state \in {"awaits", "here", "removed"}
    BY DEF Chained
  <2> QED
    BY <1>1, <2>1, <2>2 DEF ChainInv, AnswerInv
<1>2. AnswerInv'
  <2> SUFFICES ASSUME NEW k \in 1 .. Len(requests), requests'[k].got \in Telling
               PROVE  /\ requests'[k].got = "disclosed" =>
                           /\ requests'[k].id # 0 /\ chained'[requests'[k].id].state # "awaits"
                           /\ chained'[requests'[k].id].state = "here" =>
                                requests'[k].disclosure = chained'[requests'[k].id].disclosure
                      /\ requests'[k].got \in {"next", "released"} =>
                           requests'[k].id # 0 /\ chained'[requests'[k].id].state = "removed"
    BY DEF AnswerInv
  <2>1. CASE Old(k) /\ requests'[k].id # c
    BY <1>1, <2>1 DEF ChainInv, AnswerInv
  <2>2. CASE Old(k) /\ requests'[k].id = c
    BY SMTT(30), <1>1, <2>2
  <2>3. CASE ~Old(k)
    <3>1. requests'[k].id = c /\ c # 0 /\ (requests'[k].got = "disclosed" => requests'[k].disclosure = d)
      BY <2>3
    <3>2. requests'[k].got \in {"next", "released"} => chained'[c].state = "removed"
      BY <2>3
    <3> QED
      BY <3>1, <3>2
  <2> QED
    BY <2>1, <2>2, <2>3
<1>3. chains!OneDisclosure'
  BY SMTT(30), <1>1 DEF ChainInv, chains!OneDisclosure
<1>4. chains!ReleasedOnce'
  BY SMTT(30), <1>1 DEF ChainInv, chains!ReleasedOnce
<1> QED
  BY <1>2, <1>3, <1>4

-----------------------------------------------------------------------------
(* handle_create_session.                                                  *)

LEMMA AnswerOne ==
  ASSUME ChainInv, NEW r \in 1 .. Len(requests), NEW got
  PROVE  chains!Answer({r}, got) = [requests EXCEPT ![r] = chains!At(requests[r], got)]
BY ChainFacts DEF chains!Answer

\* Only r is changed, and who waits goes on to wait.
LEMMA OneServed ==
  ASSUME ChainInv, NEW r, NEW sort, chains!Serve(r, sort), NEW q \in chains!Request, requests' = [requests EXCEPT ![r] = q],
         q.kind = sort, q.drip = requests[r].drip, q.left = requests[r].left, q.id = requests[r].id \/ sort = "start",
         q.step \in {"waiting", "answered", "done", "dropped"},
         q.step = "waiting" => q.got = "nothing" /\ sort # "start" /\ r \in chained'[q.id].waiters,
         q.step = "answered" => sort \in {"start", "next"},
         chained' \in Seq(Chained), Len(chained)' \in Nat, Len(chained) <= Len(chained)', expiries' \in Seq(Due),
         q.id \in 0 .. Len(chained)',
         \A c \in 1 .. Len(chained) : chained[c].waiters \subseteq chained'[c].waiters
  PROVE  /\ ChainTypes' /\ ChannelInv' /\ StepInv'
         /\ r \in 1 .. Len(requests) /\ Len(requests)' = Len(requests) /\ DOMAIN requests' = 1 .. Len(requests)
         /\ requests[r].step = "sent" /\ requests[r].got = "nothing"
         /\ requests'[r] = q /\ \A k \in 1 .. Len(requests) : k # r => requests'[k] = requests[k]
<1> USE ChainFacts
<1>1. r \in 1 .. Len(requests) /\ requests[r].step = "sent" /\ requests[r].got = "nothing" /\ requests[r].kind = sort
  BY ZenonT(60), ServeFacts
<1>2. /\ requests' \in Seq(chains!Request) /\ Len(requests)' = Len(requests) /\ DOMAIN requests' = 1 .. Len(requests)
      /\ requests'[r] = q /\ \A k \in 1 .. Len(requests) : k # r => requests'[k] = requests[k]
  BY <1>1, RequestSet
<1>3. Moved(r)
  BY <1>1, <1>2 DEF Moved
<1>4. ASSUME NEW k \in 1 .. Len(requests), requests'[k].step = "waiting" PROVE k \in chained'[requests'[k].id].waiters
  <2>1. CASE k = r
    BY <1>2, <1>4, <2>1
  <2>2. CASE k # r
    <3>1. StepOf(k) /\ requests[k].id \in 0 .. Len(chained)
      BY DEF ChainInv, StepInv, ChainTypes
    <3>2. requests[k].id \in 1 .. Len(chained) /\ k \in chained[requests[k].id].waiters
      BY <1>2, <1>4, <2>2, <3>1 DEF StepOf
    <3> QED
      BY <1>2, <2>2, <3>2
  <2> QED
    BY <2>1, <2>2
<1>5. ChainTypes' /\ ChannelInv' /\ StepInv'
  BY <1>1, <1>2, <1>3, <1>4, Served
<1> QED
  BY <1>1, <1>2, <1>5

LEMMA RemovedFacts == /\ chains!Removed \in Chained /\ chains!Removed.state = "removed" /\ chains!Removed.waiters = {}
                      /\ [chains!Removed EXCEPT !.state = "awaits"] \in Chained
                      /\ [chains!Removed EXCEPT !.state = "awaits"].state = "awaits"
                      /\ [chains!Removed EXCEPT !.state = "awaits"].waiters = {}
BY DEF chains!Removed, Chained

LEMMA CreateSessionStep ==
  ASSUME ChainInv, NEW r, chains!CreateSession(r)
  PROVE  ChainInv'
<1> USE ChainFacts, ChainBounds
<1> DEFINE n == Len(chained)
<1>1. chains!Serve(r, "start")
  BY DEF chains!CreateSession
<1>2. /\ r \in 1 .. Len(requests) /\ requests[r].step = "sent" /\ requests[r].got = "nothing" /\ requests[r].kind = "start"
      /\ requests[r].id \in 0 .. Len(chained) /\ UNCHANGED clock
  BY <1>1, ServeFacts
<1>3. CASE chains!Cardinality(chains!Live) >= Capacity
  <2> DEFINE q == chains!At(requests[r], "full")
  <2>1. requests' = [requests EXCEPT ![r] = q] /\ UNCHANGED <<chained, expiries>>
    BY <1>2, <1>3, AnswerOne DEF chains!CreateSession
  <2>2. /\ q \in chains!Request /\ q.kind = "start" /\ q.drip = requests[r].drip /\ q.left = requests[r].left
        /\ q.id = requests[r].id /\ q.step \in {"answered", "done", "dropped"} /\ q.got \notin Telling
    BY <1>2, AtFacts DEF Answers, Telling
  <2> HIDE DEF q
  <2>3. /\ chained' \in Seq(Chained) /\ expiries' \in Seq(Due) /\ Len(chained)' \in Nat /\ Len(chained) <= Len(chained)'
        /\ requests[r].id \in 0 .. Len(chained)' /\ \A c \in 1 .. Len(chained) : chained[c].waiters \subseteq chained'[c].waiters
    BY <1>2, <2>1 DEF ChainInv, ChainTypes
  <2>4. /\ ChainTypes' /\ ChannelInv' /\ StepInv' /\ Len(requests)' = Len(requests) /\ DOMAIN requests' = 1 .. Len(requests)
        /\ requests'[r] = q /\ \A k \in 1 .. Len(requests) : k # r => requests'[k] = requests[k]
    BY <1>1, <1>2, <2>1, <2>2, <2>3, OneServed
  <2>5. WaiterInv'
    BY <1>2, <2>1, <2>4 DEF ChainInv, WaiterInv
  <2>6. ExpiryInv'
    BY <1>2, <2>1 DEF ChainInv, ExpiryInv
  <2>7. AnswerInv' /\ chains!OneDisclosure' /\ chains!ReleasedOnce'
    BY <2>1, <2>2, <2>4, QuietAnswers
  <2> QED
    BY <2>4, <2>5, <2>6, <2>7 DEF ChainInv
<1>4. CASE ~(chains!Cardinality(chains!Live) >= Capacity)
  <2> DEFINE a == chains!At(requests[r], "started")
             q == [a EXCEPT !.id = n + 1]
             new == [chains!Removed EXCEPT !.state = "awaits"]
             due == [at |-> clock + Validity, id |-> n + 1]
  <2>1. /\ requests' = [requests EXCEPT ![r] = q] /\ chained' = Append(chained, new) /\ expiries' = Append(expiries, due)
    <3>1. requests' = [[requests EXCEPT ![r] = a] EXCEPT ![r].id = n + 1]
      BY <1>2, <1>4, AnswerOne DEF chains!CreateSession
    <3>2. requests' = [requests EXCEPT ![r] = q]
      BY <1>2, <3>1
    <3> QED
      BY <1>4, <3>2 DEF chains!CreateSession
  <2>2. /\ a \in chains!Request /\ a.kind = "start" /\ a.drip = requests[r].drip /\ a.left = requests[r].left
        /\ a.step \in {"answered", "done", "dropped"} /\ a.got \notin Telling
    BY SMTT(30), <1>2, AtFacts DEF Answers, Telling
  <2> HIDE DEF a
  <2>3. /\ q \in chains!Request /\ q.kind = "start" /\ q.drip = requests[r].drip /\ q.left = requests[r].left
        /\ q.id = n + 1 /\ q.step \in {"answered", "done", "dropped"} /\ q.got \notin Telling
    <3>1. n + 1 \in Nat
      OBVIOUS
    <3>2. /\ q.kind = a.kind /\ q.drip = a.drip /\ q.left = a.left /\ q.id = n + 1 /\ q.step = a.step /\ q.got = a.got
          /\ q \in chains!Request
      BY <2>2, <3>1 DEF chains!Request
    <3> HIDE DEF q
    <3> QED
      BY <2>2, <3>2
  <2> HIDE DEF q
  <2>4. new \in Chained /\ new.state = "awaits" /\ new.waiters = {}
    BY RemovedFacts
  <2> HIDE DEF new
  <2>5. due \in Due
    BY DEF Due, ChainInv, ChainTypes
  <2>6. /\ chained' \in Seq(Chained) /\ Len(chained)' = n + 1 /\ chained'[n + 1] = new
        /\ \A c \in 1 .. n : chained'[c] = chained[c]
    BY <2>1, <2>4, AppendFacts DEF ChainInv, ChainTypes
  <2>7. /\ expiries' \in Seq(Due) /\ Len(expiries)' = Len(expiries) + 1 /\ expiries'[Len(expiries) + 1] = due
        /\ \A i \in 1 .. Len(expiries) : expiries'[i] = expiries[i]
    BY <2>1, <2>5, AppendFacts DEF ChainInv, ChainTypes
  <2>8. /\ ChainTypes' /\ ChannelInv' /\ StepInv' /\ Len(requests)' = Len(requests) /\ DOMAIN requests' = 1 .. Len(requests)
        /\ requests'[r] = q /\ \A k \in 1 .. Len(requests) : k # r => requests'[k] = requests[k]
    <3>1. \A c \in 1 .. n : chained[c].waiters \subseteq chained'[c].waiters
      BY <2>6
    <3>2. Len(chained)' \in Nat /\ n <= Len(chained)' /\ q.id \in 0 .. Len(chained)'
      BY <2>3, <2>6
    <3> QED
      BY <1>1, <1>2, <2>1, <2>3, <2>6, <2>7, <3>1, <3>2, OneServed
  <2>9. WaiterInv'
    <3> SUFFICES ASSUME NEW c \in 1 .. n + 1
                 PROVE  /\ chained'[c].state = "removed" => chained'[c].waiters = {}
                        /\ \A k \in chained'[c].waiters :
                             /\ k \in 1 .. Len(requests) /\ requests'[k].id = c /\ requests'[k].step = "waiting"
                             /\ chained'[c].state = "awaits" => requests'[k].kind = "result"
                             /\ chained'[c].state = "here" =>
                                  requests'[k].kind = "next" /\ requests'[k].disclosure = chained'[c].disclosure
      BY <2>6, <2>8 DEF WaiterInv
    <3>1. CASE c = n + 1
      BY <2>4, <2>6, <3>1
    <3>2. CASE c # n + 1
      <4>1. c \in 1 .. n /\ chained'[c] = chained[c]
        BY <2>6, <3>2
      <4>2. \A k \in chained[c].waiters : k \in 1 .. Len(requests) /\ k # r
        BY <1>2, <4>1 DEF ChainInv, WaiterInv
      <4> QED
        BY <2>8, <4>1, <4>2 DEF ChainInv, WaiterInv
    <3> QED
      BY <3>1, <3>2
  <2>10. ExpiryInv'
    <3>1. \A i \in 1 .. Len(expiries) : expiries[i].at \in Nat /\ expiries[i].at <= clock + Validity /\ expiries[i].id \in 1 .. n
      BY DEF ChainInv, ExpiryInv, Due
    <3>2. \A c \in 1 .. n + 1 : chained'[c].state # "removed" => \E i \in 1 .. Len(expiries) + 1 : expiries'[i].id = c
      <4>1. expiries'[Len(expiries) + 1].id = n + 1 /\ Len(expiries) + 1 \in 1 .. Len(expiries) + 1
        BY <2>7
      <4> SUFFICES ASSUME NEW c \in 1 .. n + 1, chained'[c].state # "removed"
                   PROVE  \E i \in 1 .. Len(expiries) + 1 : expiries'[i].id = c
        OBVIOUS
      <4>2. CASE c = n + 1
        BY <4>1, <4>2
      <4>3. CASE c # n + 1
        <5>1. c \in 1 .. n /\ chained[c].state # "removed"
          BY <2>6, <4>3
        <5>2. PICK i \in 1 .. Len(expiries) : expiries[i].id = c
          BY <5>1 DEF ChainInv, ExpiryInv
        <5> QED
          BY <2>7, <5>2
      <4> QED
        BY <4>2, <4>3
    <3>3. \A i \in 1 .. Len(expiries) + 1 : expiries'[i].at <= clock + Validity /\ expiries'[i].id \in 1 .. n + 1
      <4>1. due.at <= clock + Validity /\ due.id = n + 1
        BY DEF ChainInv, ChainTypes
      <4> QED
        BY SMTT(30), <2>7, <3>1, <4>1
    <3>4. ASSUME NEW i \in 1 .. Len(expiries) + 1, NEW j \in 1 .. Len(expiries) + 1, i < j
          PROVE  expiries'[i].at <= expiries'[j].at
      <4>1. i \in 1 .. Len(expiries) /\ expiries'[i] = expiries[i]
        BY <2>7, <3>4
      <4>2. CASE j = Len(expiries) + 1
        <5>1. expiries'[j].at = clock + Validity
          BY <2>7, <4>2
        <5> QED
          BY <3>1, <4>1, <5>1
      <4>3. CASE j # Len(expiries) + 1
        <5>1. j \in 1 .. Len(expiries) /\ expiries'[j] = expiries[j]
          BY <2>7, <4>3
        <5> QED
          BY <3>4, <4>1, <5>1 DEF ChainInv, ExpiryInv
      <4> QED
        BY <4>2, <4>3
    <3> QED
      BY <1>2, <2>6, <2>7, <3>2, <3>3, <3>4 DEF ExpiryInv
  <2>11. AnswerInv' /\ chains!OneDisclosure' /\ chains!ReleasedOnce'
    <3>1. \A k \in 1 .. Len(requests) : requests'[k].got \in Telling => k # r
      BY <2>3, <2>8
    <3> QED
      BY <2>6, <2>8, <3>1, QuietAnswers
  <2> QED
    BY <2>8, <2>9, <2>10, <2>11 DEF ChainInv
<1> QED
  BY <1>3, <1>4

-----------------------------------------------------------------------------
(* handle_wait_for_result.                                                 *)

LEMMA ChainSet ==
  ASSUME ChainInv, NEW c \in 1 .. Len(chained), NEW x \in Chained, chained' = [chained EXCEPT ![c] = x]
  PROVE  /\ chained' \in Seq(Chained) /\ Len(chained)' = Len(chained) /\ Len(chained)' \in Nat /\ chained'[c] = x
         /\ \A o \in 1 .. Len(chained) : o # c => chained'[o] = chained[o]
BY ChainFacts, ExceptSeq DEF ChainInv, ChainTypes

LEMMA ServeRequest ==
  ASSUME ChainInv, NEW r, NEW sort, chains!Serve(r, sort), sort # "start"
  PROVE  /\ r \in 1 .. Len(requests) /\ requests[r].step = "sent" /\ requests[r].got = "nothing" /\ requests[r].kind = sort
         /\ requests[r].id \in 1 .. Len(chained) /\ UNCHANGED <<states, aborts, clock>>
<1>1. /\ r \in 1 .. Len(requests) /\ requests[r].step = "sent" /\ requests[r].got = "nothing" /\ requests[r].kind = sort
      /\ requests[r].id \in 0 .. Len(chained) /\ requests[r].id # 0 /\ UNCHANGED <<states, aborts, clock>>
  BY ServeFacts
<1> QED
  BY <1>1, ChainFacts

\* A request is answered and leaves all sessions as they are.
LEMMA OneAnswered ==
  ASSUME ChainInv, NEW r, NEW sort, sort \in {"result", "next", "release"}, chains!Serve(r, sort), UNCHANGED <<chained, expiries>>,
         NEW got \in Answers, got \notin Telling, requests' = chains!Answer({r}, got)
  PROVE  ChainInv'
<1> USE ChainFacts
<1>1. /\ r \in 1 .. Len(requests) /\ requests[r].step = "sent" /\ requests[r].got = "nothing" /\ requests[r].kind = sort
      /\ requests[r].id \in 0 .. Len(chained) /\ UNCHANGED clock
  BY ServeFacts
<1> DEFINE q == chains!At(requests[r], got)
<1>2. requests' = [requests EXCEPT ![r] = q]
  BY <1>1, AnswerOne
<1>3. /\ q \in chains!Request /\ q.kind = sort /\ q.drip = requests[r].drip /\ q.left = requests[r].left
      /\ q.id = requests[r].id /\ q.step \in {"answered", "done", "dropped"} /\ q.got \notin Telling
      /\ q.step = "answered" => sort \in {"start", "next"}
  BY <1>1, AtFacts DEF Telling
<1> HIDE DEF q
<1>4. /\ chained' \in Seq(Chained) /\ expiries' \in Seq(Due) /\ Len(chained)' \in Nat /\ Len(chained) <= Len(chained)'
      /\ requests[r].id \in 0 .. Len(chained)' /\ \A c \in 1 .. Len(chained) : chained[c].waiters \subseteq chained'[c].waiters
  BY <1>1 DEF ChainInv, ChainTypes
<1>5. /\ ChainTypes' /\ ChannelInv' /\ StepInv' /\ Len(requests)' = Len(requests) /\ DOMAIN requests' = 1 .. Len(requests)
      /\ requests'[r] = q /\ \A k \in 1 .. Len(requests) : k # r => requests'[k] = requests[k]
  <2>1. /\ q.step # "waiting" /\ q.id \in 0 .. Len(chained)' /\ q.step \in {"waiting", "answered", "done", "dropped"}
        /\ q.id = requests[r].id \/ sort = "start"
    BY <1>3, <1>4
  <2>2. ChainInv /\ chains!Serve(r, sort)
    OBVIOUS
  <2> QED
    BY ONLY ZenonT(60), <1>2, <1>3, <1>4, <2>1, <2>2, OneServed
<1>6. WaiterInv'
  <2>1. \A c \in 1 .. Len(chained) : \A k \in chained[c].waiters : k # r /\ k \in 1 .. Len(requests)
    BY <1>1 DEF ChainInv, WaiterInv
  <2>2. WaiterInv
    BY DEF ChainInv
  <2>3. UNCHANGED chained
    OBVIOUS
  <2> QED
    BY ONLY <1>5, <2>1, <2>2, <2>3 DEF WaiterInv
<1>7. ExpiryInv'
  BY <1>1 DEF ChainInv, ExpiryInv
<1>8. AnswerInv' /\ chains!OneDisclosure' /\ chains!ReleasedOnce'
  BY <1>3, <1>5, QuietAnswers
<1> QED
  BY <1>5, <1>6, <1>7, <1>8 DEF ChainInv

\* A request joins those that wait with the session it is for.
LEMMA OneWaits ==
  ASSUME ChainInv, NEW r, NEW sort, sort \in {"result", "next"}, chains!Serve(r, sort), UNCHANGED expiries,
         chains!Chain(r).state = IF sort = "result" THEN "awaits" ELSE "here",
         sort = "next" => chains!Chain(r).disclosure = requests[r].disclosure,
         requests' = [requests EXCEPT ![r].step = "waiting"],
         chained' = [chained EXCEPT ![requests[r].id].waiters = @ \cup {r}]
  PROVE  ChainInv'
<1> USE ChainFacts, ChainBounds
<1>0. sort # "start"
  OBVIOUS
<1>1. /\ r \in 1 .. Len(requests) /\ requests[r].step = "sent" /\ requests[r].got = "nothing" /\ requests[r].kind = sort
      /\ requests[r].id \in 1 .. Len(chained) /\ UNCHANGED clock
  BY <1>0, ServeRequest
<1> DEFINE q == [requests[r] EXCEPT !.step = "waiting"]
           c == requests[r].id
           x == [chained[c] EXCEPT !.waiters = @ \cup {r}]
<1>2. requests' = [requests EXCEPT ![r] = q] /\ chained' = [chained EXCEPT ![c] = x]
  OBVIOUS
<1>3. /\ q \in chains!Request /\ q.kind = sort /\ q.drip = requests[r].drip /\ q.left = requests[r].left
      /\ q.id = c /\ q.step = "waiting" /\ q.got = "nothing" /\ q.disclosure = requests[r].disclosure
  BY ZenonT(60), <1>1 DEF chains!Request
<1> HIDE DEF q
<1>4. /\ x \in Chained /\ x.waiters = chained[c].waiters \cup {r} /\ x.state = chained[c].state
      /\ x.disclosure = chained[c].disclosure
  <2>1. r \in 1 .. MaxRequests
    BY <1>1 DEF ChainInv, ChainTypes
  <2>2. chained[c] \in Chained
    BY <1>1
  <2> QED
    BY <2>1, <2>2 DEF Chained
<1> HIDE DEF x
<1>5. /\ chained' \in Seq(Chained) /\ Len(chained)' = Len(chained) /\ Len(chained)' \in Nat /\ chained'[c] = x
      /\ \A o \in 1 .. Len(chained) : o # c => chained'[o] = chained[o]
  BY ZenonT(60), <1>1, <1>2, <1>4, ChainSet
<1>6. /\ ChainTypes' /\ ChannelInv' /\ StepInv' /\ Len(requests)' = Len(requests) /\ DOMAIN requests' = 1 .. Len(requests)
      /\ requests'[r] = q /\ \A k \in 1 .. Len(requests) : k # r => requests'[k] = requests[k]
  <2>1. expiries' \in Seq(Due) /\ \A o \in 1 .. Len(chained) : chained[o].waiters \subseteq chained'[o].waiters
    BY <1>4, <1>5 DEF ChainInv, ChainTypes
  <2>2. Len(chained) <= Len(chained)' /\ q.id \in 0 .. Len(chained)' /\ r \in chained'[q.id].waiters
    BY SMTT(30), <1>1, <1>3, <1>4, <1>5
  <2> QED
    <3>1. ChainInv /\ chains!Serve(r, sort) /\ q.step \in {"waiting", "answered", "done", "dropped"}
      BY <1>3
    <3>2. q.id = requests[r].id \/ sort = "start"
      BY <1>3
    <3> QED
      BY ONLY <1>0, <1>2, <1>3, <1>5, <2>1, <2>2, <3>1, <3>2, OneServed
<1>7. WaiterInv'
  <2>1. ASSUME NEW o \in 1 .. Len(chained)
        PROVE  /\ chained'[o].state = "removed" => chained'[o].waiters = {}
               /\ \A k \in chained'[o].waiters :
                    /\ k \in 1 .. Len(requests) /\ requests'[k].id = o /\ requests'[k].step = "waiting"
                    /\ chained'[o].state = "awaits" => requests'[k].kind = "result"
                    /\ chained'[o].state = "here" =>
                         requests'[k].kind = "next" /\ requests'[k].disclosure = chained'[o].disclosure
    <3>1. /\ chained[o].state = "removed" => chained[o].waiters = {}
          /\ \A k \in chained[o].waiters :
               /\ k \in 1 .. Len(requests) /\ requests[k].id = o /\ requests[k].step = "waiting"
               /\ chained[o].state = "awaits" => requests[k].kind = "result"
               /\ chained[o].state = "here" => requests[k].kind = "next" /\ requests[k].disclosure = chained[o].disclosure
      BY ONLY ChainInv, <2>1 DEF ChainInv, WaiterInv
    <3>2. \A k \in chained[o].waiters : k # r /\ k \in 1 .. Len(requests) /\ requests'[k] = requests[k]
      <4>1. \A k \in chained[o].waiters : k # r /\ k \in 1 .. Len(requests)
        BY ONLY <1>1, <3>1
      <4> QED
        BY ONLY <1>6, <4>1
    <3>3. CASE o = c
      <4>1. chained'[o] = x
        BY ONLY <1>5, <3>3
      <4>2. /\ chained'[o].state = chained[o].state /\ chained'[o].disclosure = chained[o].disclosure
            /\ chained'[o].waiters = chained[o].waiters \cup {r}
        BY ONLY <1>4, <3>3, <4>1
      <4>3. chained[o].state = (IF sort = "result" THEN "awaits" ELSE "here")
            /\ (sort = "next" => chained[o].disclosure = requests[r].disclosure)
        BY <3>3 DEF chains!Chain
      <4>4. /\ r \in 1 .. Len(requests) /\ requests'[r].id = o /\ requests'[r].step = "waiting"
            /\ requests'[r].kind = sort /\ requests'[r].disclosure = requests[r].disclosure
        BY ONLY <1>1, <1>3, <1>6, <3>3
      <4>5. chained'[o].state # "removed"
        BY ONLY <4>2, <4>3
      <4>6. /\ chained'[o].state = "awaits" => requests'[r].kind = "result"
            /\ chained'[o].state = "here" =>
                 requests'[r].kind = "next" /\ requests'[r].disclosure = chained'[o].disclosure
        <5>1. sort \in {"result", "next"}
          OBVIOUS
        <5> QED
          BY ONLY <4>2, <4>3, <4>4, <5>1
      <4> QED
        BY ONLY <3>1, <3>2, <4>2, <4>4, <4>5, <4>6
    <3>4. CASE o # c
      <4>1. chained'[o] = chained[o]
        BY ONLY <1>5, <2>1, <3>4
      <4> QED
        BY ONLY <3>1, <3>2, <4>1
    <3> QED
      BY ONLY <3>3, <3>4
  <2>2. Len(chained)' = Len(chained) /\ Len(requests)' = Len(requests)
    BY ONLY <1>5, <1>6
  <2> QED
    BY ONLY <2>1, <2>2 DEF WaiterInv
<1>8. \A o \in 1 .. Len(chained) : chained'[o].state = chained[o].state /\ chained'[o].disclosure = chained[o].disclosure
  BY <1>4, <1>5
<1>9. ExpiryInv'
  BY <1>1, <1>5, <1>8 DEF ChainInv, ExpiryInv
<1>10. AnswerInv' /\ chains!OneDisclosure' /\ chains!ReleasedOnce'
  <2>1. \A k \in 1 .. Len(requests)' : requests'[k].got \in Telling => requests'[k] = requests[k]
    BY <1>3, <1>6 DEF Telling
  <2> QED
    BY <1>6, <1>8, <2>1, QuietAnswers
<1> QED
  BY <1>6, <1>7, <1>9, <1>10 DEF ChainInv

LEMMA WaitForResultStep ==
  ASSUME ChainInv, NEW r, chains!WaitForResult(r)
  PROVE  ChainInv'
<1> USE ChainFacts, ChainBounds
<1>1. chains!Serve(r, "result") /\ UNCHANGED expiries
  BY DEF chains!WaitForResult
<1>2. /\ r \in 1 .. Len(requests) /\ requests[r].step = "sent" /\ requests[r].got = "nothing" /\ requests[r].kind = "result"
      /\ requests[r].id \in 1 .. Len(chained) /\ UNCHANGED clock
  <2>1. "result" # "start"
    OBVIOUS
  <2> QED
    BY <1>1, <2>1, ServeRequest
<1> DEFINE c == requests[r].id
           d == chained[c].disclosure
<1>3. CASE chained[c].state = "removed"
  <2>1. requests' = chains!Answer({r}, "gone") /\ UNCHANGED chained
    BY <1>3 DEF chains!WaitForResult, chains!Chain
  <2> QED
    BY <1>1, <2>1, OneAnswered DEF Telling, Answers
<1>4. CASE chained[c].state = "awaits"
  <2>1. /\ requests' = [requests EXCEPT ![r].step = "waiting"]
        /\ chained' = [chained EXCEPT ![requests[r].id].waiters = @ \cup {r}]
    BY <1>4 DEF chains!WaitForResult, chains!Chain
  <2> QED
    BY <1>1, <1>4, <2>1, OneWaits DEF chains!Chain
<1>5. CASE chained[c].state = "here"
  <2> DEFINE p == [requests[r] EXCEPT !.disclosure = d]
             q == chains!At(p, "disclosed")
  <2>1. requests' = [requests EXCEPT ![r] = q] /\ UNCHANGED chained
    <3>1. requests' = chains!Tell({r}, d) /\ UNCHANGED chained
      BY <1>5 DEF chains!WaitForResult, chains!Chain
    <3> QED
      BY <3>1 DEF chains!Tell
  <2>2. /\ p \in chains!Request /\ p.kind = "result" /\ p.drip = requests[r].drip /\ p.left = requests[r].left
        /\ p.id = c /\ p.got = "nothing" /\ p.disclosure = d
    <3>1. d \in Disclosures \cup {NoDisclosure}
      BY <1>2 DEF Chained
    <3> QED
      BY ZenonT(60), <1>2, <3>1 DEF chains!Request
  <2> HIDE DEF p
  <2>3. /\ q \in chains!Request /\ q.kind = "result" /\ q.drip = requests[r].drip /\ q.left = requests[r].left
        /\ q.id = c /\ q.step \in {"answered", "done", "dropped"} /\ q.got \in {"nothing", "disclosed"} /\ q.disclosure = d
        /\ q.step # "answered"
    <3>1. p \in chains!Request /\ "disclosed" \in Answers
      BY <2>2 DEF Answers
    <3>2. /\ q \in chains!Request /\ q.kind = p.kind /\ q.drip = p.drip /\ q.left = p.left /\ q.id = p.id
          /\ q.disclosure = p.disclosure /\ q.step \in {"answered", "done", "dropped"}
          /\ q.got = (IF p.left THEN p.got ELSE "disclosed") /\ (q.step = "answered" => p.kind \in {"start", "next"})
      BY ONLY <3>1, AtFacts
    <3> QED
      BY ONLY <2>2, <3>2
  <2> HIDE DEF q
  <2>4. /\ chained' \in Seq(Chained) /\ expiries' \in Seq(Due) /\ Len(chained)' \in Nat /\ Len(chained) <= Len(chained)'
        /\ q.id \in 0 .. Len(chained)' /\ \A o \in 1 .. Len(chained) : chained[o].waiters \subseteq chained'[o].waiters
    BY <1>1, <1>2, <2>1, <2>3 DEF ChainInv, ChainTypes
  <2>5. /\ ChainTypes' /\ ChannelInv' /\ StepInv' /\ Len(requests)' = Len(requests) /\ DOMAIN requests' = 1 .. Len(requests)
        /\ requests'[r] = q /\ \A k \in 1 .. Len(requests) : k # r => requests'[k] = requests[k]
    BY <1>1, <1>2, <2>1, <2>3, <2>4, OneServed
  <2>6. WaiterInv'
    BY <1>2, <2>1, <2>5 DEF ChainInv, WaiterInv
  <2>7. ExpiryInv'
    BY <1>1, <1>2, <2>1 DEF ChainInv, ExpiryInv
  <2>8. AnswerInv' /\ chains!OneDisclosure' /\ chains!ReleasedOnce'
    <3>1. ASSUME NEW k \in 1 .. Len(requests), requests'[k].got \in Telling
          PROVE  \/ /\ requests'[k].got = requests[k].got /\ requests'[k].id = requests[k].id
                    /\ requests'[k].disclosure = requests[k].disclosure
                 \/ /\ requests[k].got \notin Telling /\ requests'[k].id = c
                    /\ \/ requests'[k].got \in {"disclosed", "next"} /\ requests'[k].disclosure = d
                       \/ requests'[k].got = "released" /\ k = r
      BY <1>2, <2>3, <2>5, <3>1 DEF Telling
    <3>2. \A k \in 1 .. Len(requests) : requests'[k].got \in {"next", "released"} /\ requests[k].got \notin Telling =>
            chained'[c].state = "removed"
      BY <2>3, <2>5 DEF Telling
    <3>3. /\ chained[c].state # "removed" /\ chained'[c].state # "awaits"
          /\ chained'[c].state = "here" => chained'[c].disclosure = d
          /\ chained[c].state = "here" => d = chained[c].disclosure
          /\ c \in 1 .. Len(chained) /\ DOMAIN requests' = 1 .. Len(requests)
      BY <1>2, <1>5, <2>1, <2>5
    <3>4. \A o \in 1 .. Len(chained) : o # c => chained'[o] = chained[o]
      BY <2>1
    <3>5. Len(requests)' = Len(requests)
      BY <2>5
    <3>6. Tells(c, d, r)
      BY ONLY <3>1, <3>2, <3>3, <3>4, <3>5 DEF Tells
    <3> QED
      BY <3>6, ToldAnswers
  <2> QED
    BY <2>5, <2>6, <2>7, <2>8 DEF ChainInv
<1> QED
  BY <1>2, <1>3, <1>4, <1>5 DEF Chained

-----------------------------------------------------------------------------
(* All who wait with a session are answered.                               *)

Told(k, d) == chains!At([requests[k] EXCEPT !.disclosure = d], "disclosed")
LEMMA TellFacts ==
  ASSUME ChainInv, NEW k \in 1 .. Len(requests), NEW d \in Disclosures \cup {NoDisclosure}
  PROVE  /\ Told(k, d) \in chains!Request /\ Told(k, d).kind = requests[k].kind /\ Told(k, d).drip = requests[k].drip
         /\ Told(k, d).left = requests[k].left /\ Told(k, d).id = requests[k].id /\ Told(k, d).disclosure = d
         /\ Told(k, d).step \in {"answered", "done", "dropped"} /\ Told(k, d).got \in {requests[k].got, "disclosed"}
         /\ Told(k, d).step = "answered" => Told(k, d).kind \in {"start", "next"}
<1> DEFINE p == [requests[k] EXCEPT !.disclosure = d]
<1>1. /\ p \in chains!Request /\ p.kind = requests[k].kind /\ p.drip = requests[k].drip /\ p.left = requests[k].left
      /\ p.id = requests[k].id /\ p.got = requests[k].got /\ p.disclosure = d
  <2>1. requests[k] \in chains!Request
    BY ChainFacts
  <2> QED
    BY <2>1 DEF chains!Request
<1>2. Told(k, d) = chains!At(p, "disclosed") /\ "disclosed" \in Answers
  BY DEF Answers, Told
<1> HIDE DEF p
<1> QED
  BY <1>1, <1>2, AtFacts

\* Those that wait with a session do so for it, and were told nothing yet.
LEMMA WaitersOf ==
  ASSUME ChainInv, NEW c \in 1 .. Len(chained), NEW k \in chained[c].waiters
  PROVE  /\ k \in 1 .. Len(requests) /\ requests[k] \in chains!Request /\ requests[k].step = "waiting"
         /\ requests[k].id = c /\ requests[k].got = "nothing" /\ requests[k].kind \in {"result", "next"}
         /\ chained[c].state = "awaits" => requests[k].kind = "result"
         /\ chained[c].state = "here" => requests[k].kind = "next" /\ requests[k].disclosure = chained[c].disclosure
<1> USE ChainFacts
<1>1. /\ k \in 1 .. Len(requests) /\ requests[k].step = "waiting" /\ requests[k].id = c
      /\ chained[c].state = "awaits" => requests[k].kind = "result"
      /\ chained[c].state = "here" => requests[k].kind = "next" /\ requests[k].disclosure = chained[c].disclosure
      /\ chained[c].state # "removed"
  BY DEF ChainInv, WaiterInv
<1>2. chained[c].state \in {"awaits", "here", "removed"}
  BY DEF Chained
<1>3. requests[k].got = "nothing"
  <2>1. StepOf(k)
    BY <1>1 DEF ChainInv, StepInv
  <2> QED
    BY <1>1, <2>1 DEF StepOf
<1> QED
  BY <1>1, <1>2, <1>3

\* All who wait with session c are answered, and r alone may wait from now on.
LEMMA Closed ==
  ASSUME ChainInv, NEW r, NEW sort, chains!Serve(r, sort), sort # "start", NEW c, c = requests[r].id,
         NEW x \in Chained, chained' = [chained EXCEPT ![c] = x], expiries' = expiries,
         requests' \in [1 .. Len(requests) -> chains!Request], Moved(r), requests'[r].id = c,
         x.waiters = {k \in {r} : requests'[k].step = "waiting"}, x.state # "awaits",
         requests'[r].step = "waiting" => x.state = "here" /\ sort = "next" /\ requests'[r].disclosure = x.disclosure,
         \A k \in chained[c].waiters : Moved(k) /\ requests'[k].step # "waiting",
         \A k \in 1 .. Len(requests) : k # r /\ k \notin chained[c].waiters => requests'[k] = requests[k],
         chained[c].state # "removed"
  PROVE  /\ ChainTypes' /\ ChannelInv' /\ StepInv' /\ WaiterInv' /\ ExpiryInv'
         /\ DOMAIN requests' = 1 .. Len(requests) /\ Len(requests)' = Len(requests)
         /\ chained'[c] = x /\ \A o \in 1 .. Len(chained) : o # c => chained'[o] = chained[o]
<1> USE ChainFacts
<1>1. /\ r \in 1 .. Len(requests) /\ requests[r].step = "sent" /\ requests[r].kind = sort /\ c \in 1 .. Len(chained)
      /\ UNCHANGED clock
  BY ServeRequest
<1>2. requests' \in Seq(chains!Request) /\ DOMAIN requests' = 1 .. Len(requests) /\ Len(requests)' = Len(requests)
  BY RequestsSeq
<1>3. /\ chained' \in Seq(Chained) /\ Len(chained)' = Len(chained) /\ Len(chained)' \in Nat /\ chained'[c] = x
      /\ \A o \in 1 .. Len(chained) : o # c => chained'[o] = chained[o]
  BY <1>1, ChainSet
<1>4. ASSUME NEW k \in 1 .. Len(requests), k # r, requests'[k].step = "waiting"
      PROVE  requests'[k] = requests[k] /\ requests[k].id \in 1 .. Len(chained) \ {c} /\ k \in chained[requests[k].id].waiters
  <2>1. k \notin chained[c].waiters /\ requests'[k] = requests[k]
    BY <1>4
  <2>2. StepOf(k) /\ requests[k].id \in 0 .. Len(chained)
    BY DEF ChainInv, StepInv, ChainTypes
  <2>3. requests[k].id # 0 /\ k \in chained[requests[k].id].waiters
    BY <1>4, <2>1, <2>2 DEF StepOf
  <2> QED
    BY <2>1, <2>2, <2>3
<1>5. ChainTypes' /\ ChannelInv' /\ StepInv'
  <2>1. \A k \in 1 .. Len(requests) : k # r => requests'[k] = requests[k] \/ (requests[k].step = "waiting" /\ Moved(k))
    BY <1>1, WaitersOf
  <2>2. \A k \in 1 .. Len(requests) : requests'[k].step = "waiting" => k \in chained'[requests'[k].id].waiters
    <3> SUFFICES ASSUME NEW k \in 1 .. Len(requests), requests'[k].step = "waiting"
                 PROVE  k \in chained'[requests'[k].id].waiters
      OBVIOUS
    <3>1. CASE k = r
      BY <1>3, <3>1
    <3>2. CASE k # r
      BY <1>3, <1>4, <3>2
    <3> QED
      BY <3>1, <3>2
  <2>3. expiries' \in Seq(Due) /\ Len(chained) <= Len(chained)' /\ requests'[r].id \in 0 .. Len(chained)'
    BY <1>1, <1>3 DEF ChainInv, ChainTypes
  <2>4. ChainInv /\ chains!Serve(r, sort) /\ Moved(r)
    OBVIOUS
  <2> QED
    BY ONLY <1>2, <1>3, <2>1, <2>2, <2>3, <2>4, Served
<1>6. WaiterInv'
  <2> SUFFICES ASSUME NEW o \in 1 .. Len(chained)
               PROVE  /\ chained'[o].state = "removed" => chained'[o].waiters = {}
                      /\ \A k \in chained'[o].waiters :
                           /\ k \in 1 .. Len(requests) /\ requests'[k].id = o /\ requests'[k].step = "waiting"
                           /\ chained'[o].state = "awaits" => requests'[k].kind = "result"
                           /\ chained'[o].state = "here" =>
                                requests'[k].kind = "next" /\ requests'[k].disclosure = chained'[o].disclosure
    BY <1>2, <1>3 DEF WaiterInv
  <2>1. CASE o = c
    <3>1. requests'[r].kind = sort
      BY <1>1 DEF Moved
    <3>2. x.state = "removed" => x.waiters = {}
      BY <3>1
    <3> QED
      BY <1>1, <1>3, <2>1, <3>1, <3>2
  <2>2. CASE o # c
    <3>1. chained'[o] = chained[o]
      BY <1>3, <2>2
    <3>2. ASSUME NEW k \in chained[o].waiters
          PROVE  requests'[k] = requests[k]
      <4>1. k \in 1 .. Len(requests) /\ requests[k].id = o /\ requests[k].step = "waiting"
        BY WaitersOf
      <4>2. k # r /\ k \notin chained[c].waiters
        BY <1>1, <2>2, <4>1, WaitersOf
      <4> QED
        BY <4>1, <4>2
    <3> QED
      BY <3>1, <3>2 DEF ChainInv, WaiterInv
  <2> QED
    BY <2>1, <2>2
<1>7. ExpiryInv'
  <2>1. \A o \in 1 .. Len(chained) : chained'[o].state # "removed" => chained[o].state # "removed"
    BY <1>3
  <2> QED
    BY <1>1, <1>3, <2>1 DEF ChainInv, ExpiryInv
<1> QED
  BY <1>2, <1>3, <1>5, <1>6, <1>7

-----------------------------------------------------------------------------
(* handle_wait_for_next_session and handle_release_next_session.           *)

LEMMA WaitForNextSessionStep ==
  ASSUME ChainInv, NEW r, chains!WaitForNextSession(r)
  PROVE  ChainInv'
<1> USE ChainFacts, ChainBounds
<1>1. chains!Serve(r, "next") /\ UNCHANGED expiries /\ "next" # "start"
  BY DEF chains!WaitForNextSession
<1>2. /\ r \in 1 .. Len(requests) /\ requests[r].step = "sent" /\ requests[r].got = "nothing" /\ requests[r].kind = "next"
      /\ requests[r].id \in 1 .. Len(chained) /\ UNCHANGED clock
  BY <1>1, ServeRequest
<1> DEFINE c == requests[r].id
           d == requests[r].disclosure
           W == chained[c].waiters
<1>3. CASE chained[c].state = "removed"
  <2>1. requests' = chains!Answer({r}, "end") /\ UNCHANGED chained
    BY <1>3 DEF chains!WaitForNextSession, chains!Chain, chains!Agrees
  <2> QED
    BY <1>1, <2>1, OneAnswered DEF Telling, Answers
<1>4. CASE chained[c].state = "here" /\ chained[c].disclosure # d
  <2>1. requests' = chains!Answer({r}, "error") /\ UNCHANGED chained
    BY <1>4 DEF chains!WaitForNextSession, chains!Chain, chains!Agrees
  <2> QED
    BY <1>1, <2>1, OneAnswered DEF Telling, Answers
<1>5. CASE chained[c].state = "here" /\ chained[c].disclosure = d
  <2>1. /\ requests' = [requests EXCEPT ![r].step = "waiting"]
        /\ chained' = [chained EXCEPT ![requests[r].id].waiters = @ \cup {r}]
    BY <1>5 DEF chains!WaitForNextSession, chains!Chain, chains!Agrees
  <2> QED
    BY <1>1, <1>5, <2>1, OneWaits DEF chains!Chain
<1>6. CASE chained[c].state = "awaits"
  <2> DEFINE x == [state |-> "here", disclosure |-> d, waiters |-> {r}, since |-> clock]
             q == [requests[r] EXCEPT !.step = "waiting"]
             tells(k) == chains!At([requests[k] EXCEPT !.disclosure = d], "disclosed")
  <2>1. /\ requests' = [chains!Tell(W, d) EXCEPT ![r].step = "waiting"]
        /\ chained' = [chained EXCEPT ![c] = x]
    BY <1>6 DEF chains!WaitForNextSession, chains!Chain, chains!Agrees
  <2>2. r \notin W /\ \A k \in W : k \in 1 .. Len(requests)
    BY <1>2, WaitersOf
  <2>3. /\ DOMAIN requests' = 1 .. Len(requests) /\ requests' = [k \in 1 .. Len(requests) |-> requests'[k]]
        /\ requests'[r] = q
        /\ \A k \in W : requests'[k] = tells(k)
        /\ \A k \in 1 .. Len(requests) : k # r /\ k \notin W => requests'[k] = requests[k]
    BY <1>2, <2>1, <2>2 DEF chains!Tell
  <2>4. d \in Disclosures \cup {NoDisclosure}
    BY <1>2 DEF chains!Request
  <2>5. /\ q \in chains!Request /\ q.kind = "next" /\ q.drip = requests[r].drip /\ q.left = requests[r].left
        /\ q.id = c /\ q.step = "waiting" /\ q.got = "nothing" /\ q.disclosure = d
    BY <1>2 DEF chains!Request
  <2> HIDE DEF q
  <2>6. ASSUME NEW k \in W
        PROVE  /\ requests'[k] \in chains!Request /\ requests'[k].kind = requests[k].kind /\ requests'[k].drip = requests[k].drip
               /\ requests'[k].left = requests[k].left /\ requests'[k].id = c /\ requests'[k].disclosure = d
               /\ requests'[k].step \in {"answered", "done", "dropped"} /\ requests'[k].got \in {"nothing", "disclosed"}
               /\ requests'[k].step = "answered" => requests'[k].kind \in {"start", "next"}
               /\ requests[k].id = c /\ requests[k].step = "waiting" /\ requests[k].got = "nothing"
    <3>1. /\ k \in 1 .. Len(requests) /\ requests[k].id = c /\ requests[k].step = "waiting" /\ requests[k].got = "nothing"
      BY <1>2, WaitersOf
    <3>2. requests'[k] = Told(k, d)
      BY <2>3 DEF Told
    <3> QED
      BY <2>4, <3>1, <3>2, TellFacts
  <2> HIDE DEF tells
  <2>7. requests' \in [1 .. Len(requests) -> chains!Request]
    <3>1. \A k \in 1 .. Len(requests) : requests'[k] \in chains!Request
      BY <2>3, <2>5, <2>6
    <3> QED
      BY <2>3, <3>1
  <2>8. Moved(r) /\ \A k \in W : Moved(k) /\ requests'[k].step # "waiting"
    <3>1. Moved(r)
      BY <1>2, <2>3, <2>5 DEF Moved
    <3>2. ASSUME NEW k \in W PROVE Moved(k) /\ requests'[k].step # "waiting"
      BY <2>6 DEF Moved
    <3> QED
      BY <3>1, <3>2
  <2>9. /\ x \in Chained /\ x.state = "here" /\ x.disclosure = d /\ x.waiters = {k \in {r} : requests'[k].step = "waiting"}
    <3>1. r \in 1 .. MaxRequests /\ clock \in Nat
      BY <1>2 DEF ChainInv, ChainTypes
    <3>2. {k \in {r} : requests'[k].step = "waiting"} = {r}
      BY <2>3, <2>5
    <3> QED
      BY <2>4, <3>1, <3>2 DEF Chained
  <2> HIDE DEF x
  <2>10. /\ requests'[r].id = c /\ requests'[r].disclosure = x.disclosure /\ x.state # "awaits" /\ chained[c].state # "removed"
    BY SMTT(30), <1>6, <2>3, <2>5, <2>9
  <2>11. /\ ChainTypes' /\ ChannelInv' /\ StepInv' /\ WaiterInv' /\ ExpiryInv'
         /\ DOMAIN requests' = 1 .. Len(requests) /\ Len(requests)' = Len(requests)
         /\ chained'[c] = x /\ \A o \in 1 .. Len(chained) : o # c => chained'[o] = chained[o]
    BY <1>1, <2>1, <2>3, <2>7, <2>8, <2>9, <2>10, Closed
  <2>12. Tells(c, d, r)
    <3>1. ASSUME NEW k \in 1 .. Len(requests), requests'[k].got \in Telling
          PROVE  \/ requests'[k] = requests[k]
                 \/ /\ requests[k].got \notin Telling /\ requests'[k].id = c
                    /\ requests'[k].got = "disclosed" /\ requests'[k].disclosure = d
      BY <2>3, <2>5, <2>6, <3>1 DEF Telling
    <3> QED
      BY <1>2, <1>6, <2>9, <2>11, <3>1 DEF Tells, Telling
  <2> QED
    BY SMTT(30), <2>11, <2>12, ToldAnswers DEF ChainInv
<1> QED
  BY <1>2, <1>3, <1>4, <1>5, <1>6 DEF Chained

LEMMA ReleaseNextSessionStep ==
  ASSUME ChainInv, NEW r, chains!ReleaseNextSession(r)
  PROVE  ChainInv'
<1> USE ChainFacts, ChainBounds
<1>1. chains!Serve(r, "release") /\ UNCHANGED expiries /\ "release" # "start"
  BY DEF chains!ReleaseNextSession
<1>2. /\ r \in 1 .. Len(requests) /\ requests[r].step = "sent" /\ requests[r].got = "nothing" /\ requests[r].kind = "release"
      /\ requests[r].id \in 1 .. Len(chained) /\ UNCHANGED clock
  BY <1>1, ServeRequest
<1> DEFINE c == requests[r].id
           d == chained[c].disclosure
           W == chained[c].waiters
<1>3. CASE chained[c].state = "removed"
  <2>1. requests' = chains!Answer({r}, "gone") /\ UNCHANGED chained
    BY <1>3 DEF chains!ReleaseNextSession, chains!Chain
  <2> QED
    BY <1>1, <2>1, OneAnswered DEF Telling, Answers
<1>4. CASE chained[c].state = "awaits"
  <2>1. requests' = chains!Answer({r}, "early") /\ UNCHANGED chained
    BY <1>4 DEF chains!ReleaseNextSession, chains!Chain
  <2> QED
    BY <1>1, <2>1, OneAnswered DEF Telling, Answers
<1>5. CASE chained[c].state = "here"
  <2>1. PICK got \in {"error", "next", "end"}, own \in {"serverGone", "released"} :
          /\ requests' = [chains!Answer(W, got) EXCEPT ![r] = chains!At(@, own)]
          /\ chained' = [chained EXCEPT ![c] = chains!Removed]
    <3>1. chained' = [chained EXCEPT ![c] = chains!Removed]
      BY <1>5 DEF chains!ReleaseNextSession, chains!Chain
    <3>2. CASE W = {} \/ chains!Stale(r)
      <4>1. requests' = [chains!Answer(W, "error") EXCEPT ![r] = chains!At(@, "serverGone")]
        BY SMTT(30), <1>5, <3>2 DEF chains!ReleaseNextSession, chains!Chain
      <4> QED
        BY <3>1, <4>1
    <3>3. CASE ~(W = {} \/ chains!Stale(r))
      <4>1. requests' = [chains!Answer(W, IF requests[r].next THEN "next" ELSE "end")
                           EXCEPT ![r] = chains!At(@, "released")]
        BY <1>5, <3>3 DEF chains!ReleaseNextSession, chains!Chain
      <4> QED
        BY <3>1, <4>1
    <3> QED
      BY <3>2, <3>3
  <2>2. r \notin W /\ \A k \in W : k \in 1 .. Len(requests)
    BY <1>2, WaitersOf
  <2>3. /\ DOMAIN requests' = 1 .. Len(requests) /\ requests' = [k \in 1 .. Len(requests) |-> requests'[k]]
        /\ requests'[r] = chains!At(requests[r], own)
        /\ \A k \in W : requests'[k] = chains!At(requests[k], got)
        /\ \A k \in 1 .. Len(requests) : k # r /\ k \notin W => requests'[k] = requests[k]
    BY <1>2, <2>1, <2>2 DEF chains!Answer
  <2>4. got \in Answers /\ own \in Answers
    BY DEF Answers
  <2>5. /\ requests'[r] \in chains!Request /\ requests'[r].kind = "release" /\ requests'[r].drip = requests[r].drip
        /\ requests'[r].left = requests[r].left /\ requests'[r].id = c /\ requests'[r].step \in {"answered", "done", "dropped"}
        /\ requests'[r].step # "answered" /\ requests'[r].got \in {"nothing", own}
    <3>1. requests[r] \in chains!Request
      BY <1>2
    <3>2. /\ requests'[r] \in chains!Request /\ requests'[r].kind = "release" /\ requests'[r].drip = requests[r].drip
          /\ requests'[r].left = requests[r].left /\ requests'[r].id = c /\ requests'[r].step \in {"answered", "done", "dropped"}
          /\ requests'[r].step = "answered" => requests[r].kind \in {"start", "next"}
          /\ requests'[r].got \in {"nothing", own}
      BY SMTT(30), <1>2, <2>3, <2>4, <3>1, AtFacts
    <3> QED
      BY <1>2, <3>2
  <2>6. ASSUME NEW k \in W
        PROVE  /\ requests'[k] \in chains!Request /\ requests'[k].kind = requests[k].kind /\ requests'[k].drip = requests[k].drip
               /\ requests'[k].left = requests[k].left /\ requests'[k].id = c /\ requests'[k].disclosure = d
               /\ requests'[k].step \in {"answered", "done", "dropped"} /\ requests'[k].got \in {"nothing", got}
               /\ requests[k].kind = "next"
               /\ requests[k].id = c /\ requests[k].step = "waiting" /\ requests[k].got = "nothing"
    <3>1. /\ k \in 1 .. Len(requests) /\ requests[k].id = c /\ requests[k].step = "waiting" /\ requests[k].got = "nothing"
          /\ requests[k].kind = "next" /\ requests[k].disclosure = d /\ requests[k] \in chains!Request
      BY <1>2, <1>5, WaitersOf
    <3>2. requests'[k] = chains!At(requests[k], got)
      BY <2>3
    <3> QED
      BY SMTT(30), <2>4, <3>1, <3>2, AtFacts
  <2>7. requests' \in [1 .. Len(requests) -> chains!Request]
    <3>1. \A k \in 1 .. Len(requests) : requests'[k] \in chains!Request
      BY <2>3, <2>5, <2>6
    <3> QED
      BY <2>3, <3>1
  <2>8. Moved(r) /\ \A k \in W : Moved(k) /\ requests'[k].step # "waiting"
    <3>1. Moved(r)
      BY <1>2, <2>5 DEF Moved
    <3>2. ASSUME NEW k \in W PROVE Moved(k) /\ requests'[k].step # "waiting"
      BY <2>6 DEF Moved
    <3> QED
      BY <3>1, <3>2
  <2> DEFINE x == chains!Removed
  <2>9. /\ x \in Chained /\ x.state = "removed" /\ x.waiters = {k \in {r} : requests'[k].step = "waiting"}
    <3>1. {k \in {r} : requests'[k].step = "waiting"} = {}
      BY <2>5
    <3> QED
      BY <3>1, RemovedFacts
  <2>10. requests'[r].id = c /\ requests'[r].step # "waiting" /\ x.state # "awaits" /\ chained[c].state # "removed"
    BY SMTT(30), <1>5, <2>5, <2>9
  <2>11. /\ ChainTypes' /\ ChannelInv' /\ StepInv' /\ WaiterInv' /\ ExpiryInv'
         /\ DOMAIN requests' = 1 .. Len(requests) /\ Len(requests)' = Len(requests)
         /\ chained'[c] = x /\ \A o \in 1 .. Len(chained) : o # c => chained'[o] = chained[o]
    BY <1>1, <2>1, <2>3, <2>7, <2>8, <2>9, <2>10, Closed
  <2>12. Tells(c, d, r)
    <3>1. ASSUME NEW k \in 1 .. Len(requests), requests'[k].got \in Telling
          PROVE  \/ requests'[k] = requests[k]
                 \/ /\ requests[k].got \notin Telling /\ requests'[k].id = c
                    /\ \/ requests'[k].got = "next" /\ requests'[k].disclosure = d
                       \/ requests'[k].got = "released" /\ k = r
      BY <1>2, <2>3, <2>5, <2>6, <3>1 DEF Telling
    <3> QED
      BY <1>2, <1>5, <2>9, <2>11, <3>1 DEF Tells, Telling
  <2> QED
    BY <2>11, <2>12, ToldAnswers DEF ChainInv
<1> QED
  BY <1>2, <1>3, <1>4, <1>5 DEF Chained

-----------------------------------------------------------------------------
(* handle_abort_wait_for_next_session.                                     *)

\* An abort is served: by then the command of its Yivi server was.
LEMMA AbortStep ==
  ASSUME ChainInv, NEW r, chains!AbortWaitForNextSession(r)
  PROVE  ChainInv'
<1> USE ChainFacts, ChainBounds
<1>1. /\ channel # <<>> /\ Head(channel) = [of |-> r, abort |-> TRUE] /\ channel' = Tail(channel)
      /\ UNCHANGED <<states, expiries, aborts, clock>>
  BY DEF chains!AbortWaitForNextSession
<1>2. /\ channel' \in Seq(chains!Commands) /\ Len(channel) >= 1 /\ channel[1] = [of |-> r, abort |-> TRUE]
      /\ channel[1].of = r /\ channel[1].abort
      /\ \A i \in 1 .. Len(channel)' : i + 1 \in 1 .. Len(channel) /\ channel'[i] = channel[i + 1]
      /\ \A k, a : chains!Pending(k, a) /\ channel[1] # [of |-> k, abort |-> a] => chains!Pending(k, a)'
  <2>1. /\ channel' \in Seq(chains!Commands) /\ Len(channel) >= 1 /\ channel[1] = [of |-> r, abort |-> TRUE]
        /\ \A i \in 1 .. Len(channel)' : i + 1 \in 1 .. Len(channel) /\ channel'[i] = channel[i + 1]
        /\ \A k, a : chains!Pending(k, a) /\ channel[1] # [of |-> k, abort |-> a] => chains!Pending(k, a)'
    BY <1>1, ChannelTail
  <2>2. channel[1].of = r /\ channel[1].abort
    BY <2>1
  <2> QED
    BY <2>1, <2>2
<1>3. r \in 1 .. Len(requests) /\ Aborted(r)
  BY <1>2 DEF ChainInv, ChannelInv
<1>4. requests[r].id \in 1 .. Len(chained) /\ requests[r].kind = "next" /\ requests[r].drip
  BY <1>3 DEF ChainInv, ChainTypes, Aborted, chains!Drips
<1> DEFINE c == requests[r].id
           x == [chained[c] EXCEPT !.waiters = @ \ {r}]
           q == [requests[r] EXCEPT !.step = "dropped"]
<1>5. requests[r].step # "sent"
  <2>1. requests[r].step = "sent" => chains!Pending(r, FALSE)
    BY <1>3 DEF ChainInv, StepInv, StepOf
  <2>2. ASSUME NEW i \in DOMAIN channel, channel[i] = [of |-> r, abort |-> FALSE] PROVE FALSE
    <3>1. channel[i].of = r /\ ~channel[i].abort /\ i # 1 /\ i \in 1 .. Len(channel) /\ 1 \in 1 .. Len(channel)
      BY <1>2, <2>2
    <3>2. i < 1
      BY <1>2, <3>1 DEF ChainInv, ChannelInv
    <3> QED
      BY <3>1, <3>2
  <2> QED
    BY <2>1, <2>2 DEF chains!Pending
<1>6. requests[r].step = "waiting" => r \in chained[c].waiters /\ chained[c].state = "here"
  <2>1. requests[r].step = "waiting" => r \in chained[c].waiters
    BY <1>3 DEF ChainInv, StepInv, StepOf
  <2>2. chained[c].state \in {"awaits", "here", "removed"}
    BY <1>4 DEF Chained
  <2> QED
    BY <1>4, <2>1, <2>2 DEF ChainInv, WaiterInv
<1>7. requests[r].step # "waiting" => r \notin chained[c].waiters
  BY <1>4, WaitersOf
<1>8. /\ q \in chains!Request /\ q.kind = requests[r].kind /\ q.drip = requests[r].drip /\ q.left = requests[r].left
      /\ q.id = c /\ q.got = requests[r].got /\ q.disclosure = requests[r].disclosure /\ q.step = "dropped"
  BY <1>3 DEF chains!Request
<1>9. /\ x \in Chained /\ x.waiters = chained[c].waiters \ {r} /\ x.state = chained[c].state
      /\ x.disclosure = chained[c].disclosure
  <2>1. chained[c] \in Chained
    BY <1>4
  <2> QED
    BY <2>1 DEF Chained
<1>10. /\ requests' \in Seq(chains!Request) /\ Len(requests)' = Len(requests) /\ DOMAIN requests' = 1 .. Len(requests)
       /\ requests'[r] = (IF requests[r].step = "waiting" THEN q ELSE requests[r])
       /\ \A k \in 1 .. Len(requests) : k # r => requests'[k] = requests[k]
       /\ chained' \in Seq(Chained) /\ Len(chained)' = Len(chained) /\ Len(chained)' \in Nat
       /\ chained'[c].waiters = chained[c].waiters \ {r} /\ chained'[c].state = chained[c].state
       /\ chained'[c].disclosure = chained[c].disclosure
       /\ \A o \in 1 .. Len(chained) : o # c => chained'[o] = chained[o]
  <2>1. CASE chained[c].state = "here"
    <3>1. /\ chained' = [chained EXCEPT ![c] = x]
          /\ requests' = [requests EXCEPT ![r].step = IF @ = "waiting" THEN "dropped" ELSE @]
      BY <2>1 DEF chains!AbortWaitForNextSession, chains!Chain
    <3>2. requests' = [requests EXCEPT ![r] = IF requests[r].step = "waiting" THEN q ELSE requests[r]]
      <4>1. CASE requests[r].step = "waiting"
        BY <3>1, <4>1
      <4>2. CASE requests[r].step # "waiting"
        <5>1. requests[r] \in chains!Request
          BY <1>3
        <5>2. [requests[r] EXCEPT !.step = requests[r].step] = requests[r]
          BY <5>1 DEF chains!Request
        <5> QED
          BY <3>1, <4>2, <5>2
      <4> QED
        BY <4>1, <4>2
    <3> HIDE DEF q, x
    <3>3. (IF requests[r].step = "waiting" THEN q ELSE requests[r]) \in chains!Request
      BY <1>3, <1>8
    <3>4. /\ requests' \in Seq(chains!Request) /\ Len(requests)' = Len(requests) /\ DOMAIN requests' = 1 .. Len(requests)
          /\ requests'[r] = (IF requests[r].step = "waiting" THEN q ELSE requests[r])
          /\ \A k \in 1 .. Len(requests) : k # r => requests'[k] = requests[k]
      BY <1>3, <3>2, <3>3, RequestSet
    <3>5. /\ chained' \in Seq(Chained) /\ Len(chained)' = Len(chained) /\ Len(chained)' \in Nat /\ chained'[c] = x
          /\ \A o \in 1 .. Len(chained) : o # c => chained'[o] = chained[o]
      BY <1>4, <1>9, <3>1, ChainSet
    <3> QED
      BY <1>9, <3>4, <3>5
  <2>2. CASE chained[c].state # "here"
    <3>1. UNCHANGED <<chained, requests>>
      BY <2>2 DEF chains!AbortWaitForNextSession, chains!Chain
    <3>2. requests[r].step # "waiting" /\ chained[c].waiters = chained[c].waiters \ {r}
      BY <1>6, <1>7, <2>2
    <3> QED
      BY <1>3, <3>1, <3>2 DEF ChainInv, ChainTypes
  <2> QED
    BY <2>1, <2>2
<1> HIDE DEF q, x
<1>11. \A k \in 1 .. Len(requests) : requests'[k] = requests[k] \/ (k = r /\ requests'[k] = q /\ Moved(k))
  BY <1>8, <1>10 DEF Moved
<1>12. requests'[r].step \notin {"sent", "waiting"} /\ requests'[r].id = c
  BY <1>5, <1>8, <1>10
<1>13. ChainTypes' /\ ChannelInv' /\ StepInv'
  <2>1. \A k \in 1 .. Len(requests) : requests'[k].id = requests[k].id /\ requests'[k].id \in 0 .. Len(chained)'
    BY <1>8, <1>10, <1>11 DEF ChainInv, ChainTypes
  <2>2. ASSUME NEW k \in 1 .. Len(requests), requests'[k].step = "waiting" PROVE k \in chained'[requests'[k].id].waiters
    <3>1. k # r /\ requests'[k] = requests[k]
      BY <1>10, <1>12, <2>2
    <3>2. StepOf(k)
      BY DEF ChainInv, StepInv
    <3>3. requests[k].id # 0 /\ k \in chained[requests[k].id].waiters
      BY <2>2, <3>1, <3>2 DEF StepOf
    <3>4. requests[k].id \in 1 .. Len(chained)
      BY <3>3 DEF ChainInv, ChainTypes
    <3> QED
      BY <1>10, <3>1, <3>3, <3>4
  <2>3. ASSUME NEW k \in 1 .. Len(requests), requests'[k].step = "sent" PROVE chains!Pending(k, FALSE)'
    <3>1. k # r /\ requests'[k] = requests[k]
      BY <1>10, <1>12, <2>3
    <3>2. chains!Pending(k, FALSE)
      BY <2>3, <3>1 DEF ChainInv, StepInv, StepOf
    <3>3. channel[1] # [of |-> k, abort |-> FALSE]
      BY <1>2
    <3> QED
      BY <1>2, <3>2, <3>3
  <2>4. ASSUME NEW k \in 1 .. Len(requests), requests'[k].step \in {"sent", "waiting"}, chains!Pending(k, TRUE)
        PROVE  chains!Pending(k, TRUE)'
    <3>1. k # r
      BY <1>12, <2>4
    <3>2. channel[1] # [of |-> k, abort |-> TRUE]
      BY <1>2, <3>1
    <3> QED
      BY <1>2, <2>4, <3>2
  <2>5. ASSUME NEW i \in 1 .. Len(channel)', ~channel'[i].abort PROVE requests'[channel'[i].of].step = "sent"
    <3>1. channel[i + 1].of \in 1 .. Len(requests) /\ requests[channel[i + 1].of].step = "sent" /\ channel'[i] = channel[i + 1]
      BY <1>2, <2>5 DEF ChainInv, ChannelInv
    <3> QED
      BY <1>5, <1>10, <3>1
  <2>6. /\ \A k \in 1 .. Len(requests) : requests'[k] = requests[k] \/ Moved(k)
        /\ expiries' \in Seq(Due) /\ Len(chained) <= Len(chained)' /\ UNCHANGED <<states, aborts, clock>>
    BY <1>1, <1>10, <1>11 DEF ChainInv, ChainTypes
  <2> QED
    BY ONLY ChainInv, <1>1, <1>10, <2>1, <2>2, <2>3, <2>4, <2>5, <2>6, Changed
<1>14. WaiterInv'
  <2> SUFFICES ASSUME NEW o \in 1 .. Len(chained)
               PROVE  /\ chained'[o].state = "removed" => chained'[o].waiters = {}
                      /\ \A k \in chained'[o].waiters :
                           /\ k \in 1 .. Len(requests) /\ requests'[k].id = o /\ requests'[k].step = "waiting"
                           /\ chained'[o].state = "awaits" => requests'[k].kind = "result"
                           /\ chained'[o].state = "here" =>
                                requests'[k].kind = "next" /\ requests'[k].disclosure = chained'[o].disclosure
    BY <1>10 DEF WaiterInv
  <2>1. /\ chained'[o].state = chained[o].state /\ chained'[o].disclosure = chained[o].disclosure
        /\ chained'[o].waiters \subseteq chained[o].waiters
    BY <1>10
  <2>2. \A k \in chained'[o].waiters : k \in 1 .. Len(requests) /\ requests'[k] = requests[k]
    <3>1. \A k \in chained[o].waiters : k \in 1 .. Len(requests) /\ requests[k].id = o
      BY WaitersOf
    <3>2. r \notin chained'[o].waiters
      BY <1>10, <3>1
    <3> QED
      BY <1>10, <2>1, <3>1, <3>2
  <2> QED
    BY SMTT(30), <2>1, <2>2 DEF ChainInv, WaiterInv
<1>15. ExpiryInv'
  <2>1. \A o \in 1 .. Len(chained) : chained'[o].state = chained[o].state
    BY <1>10
  <2> QED
    BY <1>1, <1>10, <2>1 DEF ChainInv, ExpiryInv
<1>16. AnswerInv' /\ chains!OneDisclosure' /\ chains!ReleasedOnce'
  <2>1. \A o \in 1 .. Len(chained) : chained'[o].state = chained[o].state /\ chained'[o].disclosure = chained[o].disclosure
    BY <1>10
  <2>2. \A k \in 1 .. Len(requests) : /\ requests'[k].got = requests[k].got /\ requests'[k].id = requests[k].id
                                      /\ requests'[k].disclosure = requests[k].disclosure
    BY <1>8, <1>11
  <2> QED
    BY <1>10, <2>1, <2>2, QuietAnswers
<1> QED
  BY <1>13, <1>14, <1>15, <1>16 DEF ChainInv

-----------------------------------------------------------------------------
(* Those that leave, time and restarts.                                    *)

\* The asker is gone: the abort of a Yivi server that is dripped on is spawned.
LEMMA DisconnectStep ==
  ASSUME ChainInv, NEW r \in 1 .. Len(requests), NEW drop \in BOOLEAN, chains!Disconnect(r, drop)
  PROVE  ChainInv'
<1> USE ChainFacts, ChainBounds
<1> DEFINE n == Len(requests)
           step == IF drop /\ requests[r].step = "sending" THEN "dropped" ELSE requests[r].step
           q == [requests[r] EXCEPT !.left = TRUE, !.step = step]
<1>1. /\ ~requests[r].left /\ requests[r].step \in {"sending", "sent", "waiting"} /\ (chains!Drips(r) => drop)
      /\ requests' = [requests EXCEPT ![r] = q] /\ aborts' = (IF chains!Drips(r) THEN aborts \cup {r} ELSE aborts)
      /\ UNCHANGED <<states, chained, expiries, channel, clock>>
  BY DEF chains!Disconnect
<1>2. /\ q \in chains!Request /\ q.step = step /\ q.left /\ q.kind = requests[r].kind /\ q.drip = requests[r].drip
      /\ q.id = requests[r].id /\ q.got = requests[r].got /\ q.disclosure = requests[r].disclosure
  BY ZenonT(60) DEF chains!Request
<1> HIDE DEF q
<1>3. /\ requests' \in Seq(chains!Request) /\ Len(requests)' = n /\ DOMAIN requests' = 1 .. n
      /\ requests'[r] = q /\ \A k \in 1 .. n : k # r => requests'[k] = requests[k]
  BY <1>1, <1>2, RequestSet
<1>4. StepOf(r) /\ requests[r].kind \in {"start", "result", "next", "release"}
  BY DEF ChainInv, StepInv, chains!Request
<1>5. chains!Drips(r) => requests[r].id # 0 /\ step # "sending"
  BY <1>1, <1>4 DEF StepOf, chains!Drips
<1>6. step \in {"sending", "sent", "waiting", "dropped"} /\ (step # "dropped" => step = requests[r].step)
      /\ (requests[r].step # "sending" => step = requests[r].step)
  BY <1>1
<1> HIDE DEF step
<1>7. ChainTypes'
  <2>1. \A k \in 1 .. n : requests'[k].id \in 0 .. Len(chained)
    BY <1>2, <1>3 DEF ChainInv, ChainTypes
  <2>2. aborts' \subseteq 1 .. n
    BY <1>1 DEF ChainInv, ChainTypes
  <2> QED
    BY <1>1, <1>3, <2>1, <2>2 DEF ChainInv, ChainTypes
<1>8. ChannelInv'
  <2>1. ASSUME NEW k \in 1 .. n, Aborted(k) PROVE Aborted(k)'
    <3>1. CASE k = r
      BY <1>2, <1>3, <1>6, <2>1, <3>1 DEF Aborted, chains!Drips
    <3>2. CASE k # r
      BY <1>3, <2>1, <3>2 DEF Aborted, chains!Drips
    <3> QED
      BY <3>1, <3>2
  <2>2. chains!Drips(r) => Aborted(r)'
    BY <1>2, <1>3, <1>5 DEF Aborted, chains!Drips
  <2>3. \A k \in aborts' : k \in 1 .. n /\ Aborted(k)'
    BY <1>1, <2>1, <2>2 DEF ChainInv, ChannelInv, ChainTypes
  <2>4. \A i \in 1 .. Len(channel)' : ~channel'[i].abort => requests'[channel'[i].of].step = "sent"
    <3> SUFFICES ASSUME NEW i \in 1 .. Len(channel), ~channel[i].abort PROVE requests'[channel[i].of].step = "sent"
      BY <1>1
    <3>1. channel[i].of \in 1 .. n /\ requests[channel[i].of].step = "sent"
      BY DEF ChainInv, ChannelInv
    <3> QED
      BY <1>2, <1>3, <1>6, <3>1
  <2> QED
    BY <1>1, <1>3, <2>1, <2>3, <2>4, ChannelKept
<1>9. StepInv'
  <2>1. \A k, a : chains!Pending(k, a) => chains!Pending(k, a)'
    BY <1>1 DEF chains!Pending
  <2>2. ASSUME NEW k \in 1 .. n PROVE StepOf(k)'
    <3>1. CASE k = r
      <4>1. chains!Drips(r)' <=> chains!Drips(r)
        BY <1>2, <1>3 DEF chains!Drips
      <4>2. chains!Drips(r) => r \in aborts' /\ step # "sending"
        BY <1>1, <1>5
      <4>3. step = "sent" => chains!Pending(r, FALSE)'
        BY <1>4, <1>6, <2>1 DEF StepOf
      <4>4. step = "waiting" => requests[r].id # 0 /\ r \in chained'[requests[r].id].waiters
        BY <1>1, <1>4, <1>6 DEF StepOf
      <4>5. /\ requests[r].kind \in {"result", "release"} /\ step \in {"sending", "sent", "waiting"} => requests[r].id # 0
            /\ requests[r].kind = "next" /\ step \in {"sending", "sent", "waiting", "answered"} => requests[r].id # 0
            /\ requests[r].got = "nothing"
        BY <1>1, <1>4, <1>6 DEF StepOf
      <4>6. StepOf(r)'
        BY <1>2, <1>3, <4>1, <4>2, <4>3, <4>4, <4>5 DEF StepOf
      <4> QED
        BY <3>1, <4>6
    <3>2. CASE k # r
      <4>1. requests[k].step = "waiting" => k \in chained'[requests[k].id].waiters
        BY <1>1 DEF ChainInv, StepInv, StepOf
      <4> QED
        BY <1>1, <1>3, <2>1, <3>2, <4>1, StepKept
    <3> QED
      BY <3>1, <3>2
  <2> QED
    BY <1>3, <2>2 DEF StepInv
<1>10. WaiterInv'
  <2>1. ASSUME NEW c \in 1 .. Len(chained), NEW k \in chained[c].waiters
        PROVE  /\ k \in 1 .. n /\ requests'[k].id = requests[k].id /\ requests'[k].step = "waiting"
               /\ requests'[k].kind = requests[k].kind /\ requests'[k].disclosure = requests[k].disclosure
    <3>1. k \in 1 .. n /\ requests[k].step = "waiting"
      BY WaitersOf
    <3> QED
      BY <1>2, <1>3, <1>6, <3>1
  <2> QED
    BY <1>1, <1>3, <2>1 DEF ChainInv, WaiterInv
<1>11. ExpiryInv'
  BY <1>1 DEF ChainInv, ExpiryInv
<1>12. AnswerInv' /\ chains!OneDisclosure' /\ chains!ReleasedOnce'
  BY <1>1, <1>2, <1>3, QuietAnswers
<1> QED
  BY <1>7, <1>8, <1>9, <1>10, <1>11, <1>12 DEF ChainInv

LEMMA TickStep == ChainInv /\ chains!Tick => ChainInv'
<1> SUFFICES ASSUME ChainInv, chains!Tick PROVE ChainInv'
  OBVIOUS
<1> USE ChainFacts, ChainBounds
<1>1. clock < MaxTime /\ clock' = clock + 1 /\ UNCHANGED <<requests, states, chained, expiries, channel, aborts>>
  BY DEF chains!Tick
<1>2. ChainTypes'
  BY SMTT(30), <1>1 DEF ChainInv, ChainTypes
<1>3. ChannelInv'
  BY <1>1 DEF ChainInv, ChannelInv, Aborted, chains!Drips
<1>4. StepInv'
  BY <1>1 DEF ChainInv, StepInv, StepOf, chains!Drips, chains!Pending
<1>5. WaiterInv' /\ AnswerInv' /\ chains!OneDisclosure' /\ chains!ReleasedOnce'
  BY <1>1 DEF ChainInv, WaiterInv, AnswerInv, chains!OneDisclosure, chains!ReleasedOnce
<1>6. ExpiryInv'
  <2>1. \A i \in 1 .. Len(expiries) : expiries[i].at \in Nat /\ expiries[i].at <= clock + Validity
    BY DEF ChainInv, ExpiryInv, Due
  <2>2. \A i \in 1 .. Len(expiries) : expiries[i].at <= clock' + Validity
    BY SMTT(30), <1>1, <2>1 DEF ChainInv, ChainTypes
  <2> QED
    BY <1>1, <2>2 DEF ChainInv, ExpiryInv
<1> QED
  BY <1>2, <1>3, <1>4, <1>5, <1>6 DEF ChainInv

LEMMA RestartStep == ChainInv /\ chains!Restart => ChainInv'
<1> SUFFICES ASSUME ChainInv, chains!Restart PROVE ChainInv'
  OBVIOUS
<1> USE ChainFacts, ChainBounds
<1> DEFINE gone(k) == [requests[k] EXCEPT !.step = "dropped", !.left = TRUE]
<1>1. /\ chained' = [c \in 1 .. Len(chained) |-> chains!Removed] /\ expiries' = <<>> /\ channel' = <<>> /\ aborts' = {}
      /\ requests' = [k \in 1 .. Len(requests) |-> IF requests[k].step = "done" THEN requests[k] ELSE gone(k)]
      /\ UNCHANGED <<states, clock>>
  BY DEF chains!Restart
<1>a. expiries' = <<>> /\ channel' = <<>> /\ aborts' = {}
  BY <1>1
<1>2. ASSUME NEW k \in 1 .. Len(requests)
      PROVE  /\ requests'[k] \in chains!Request /\ requests'[k].step \in {"done", "dropped"}
             /\ requests'[k].got = requests[k].got /\ requests'[k].id = requests[k].id
             /\ requests'[k].disclosure = requests[k].disclosure
  <2>1. requests[k] \in chains!Request
    OBVIOUS
  <2>2. /\ gone(k) \in chains!Request /\ gone(k).step = "dropped" /\ gone(k).got = requests[k].got
        /\ gone(k).id = requests[k].id /\ gone(k).disclosure = requests[k].disclosure
    BY <2>1 DEF chains!Request
  <2> HIDE DEF gone
  <2> QED
    BY <1>1, <2>1, <2>2
<1>3. requests' \in Seq(chains!Request) /\ Len(requests)' = Len(requests) /\ DOMAIN requests' = 1 .. Len(requests)
  <2>1. requests' \in [1 .. Len(requests) -> chains!Request]
    BY <1>1, <1>2
  <2> QED
    BY <2>1, RequestsSeq
<1>4. /\ chained' \in Seq(Chained) /\ Len(chained)' = Len(chained) /\ Len(chained)' \in Nat
      /\ \A c \in 1 .. Len(chained) : chained'[c] = chains!Removed
  <2>1. chained' \in [1 .. Len(chained) -> Chained]
    BY <1>1, RemovedFacts
  <2>2. chained' \in Seq(Chained)
    BY <2>1 DEF Seq
  <2>3. DOMAIN chained' = 1 .. Len(chained)' /\ Len(chained)' \in Nat /\ DOMAIN chained' = 1 .. Len(chained)
    BY <2>1, <2>2, LenProperties
  <2>4. Len(chained)' = Len(chained)
    BY ONLY <2>1, <2>2, LenProperties, ChainFacts, ChainInv
  <2>5. \A c \in 1 .. Len(chained) : chained'[c] = chains!Removed
    BY <1>1
  <2> QED
    BY <2>2, <2>3, <2>4, <2>5
<1>5. Len(channel)' = 0 /\ Len(expiries)' = 0
  BY ZenonT(60), <1>1
<1>6. ChainTypes'
  <2>1. \A k \in 1 .. Len(requests) : requests'[k].id \in 0 .. Len(chained)
    BY <1>2 DEF ChainInv, ChainTypes
  <2>2. expiries' \in Seq(Due) /\ channel' \in Seq(chains!Commands) /\ Len(channel)' <= Slots
    <3>1. expiries' \in Seq(Due) /\ channel' \in Seq(chains!Commands)
      BY ONLY <1>a
    <3>2. Len(channel)' <= Slots
      BY <1>5
    <3> QED
      BY <3>1, <3>2
  <2> QED
    BY <1>1, <1>3, <1>4, <2>1, <2>2 DEF ChainInv, ChainTypes
<1>7. ChannelInv'
  <2>1. aborts' = {} /\ 1 .. Len(channel)' = {}
    BY ONLY <1>a, <1>5
  <2> QED
    BY <2>1 DEF ChannelInv
<1>8. StepInv'
  <2>1. ASSUME NEW k \in 1 .. Len(requests) PROVE StepOf(k)'
    BY <1>2 DEF StepOf
  <2> QED
    BY <1>3, <2>1 DEF StepInv
<1>9. WaiterInv'
  BY <1>4, RemovedFacts DEF WaiterInv
<1>10. ExpiryInv'
  BY <1>4, <1>5, RemovedFacts DEF ExpiryInv
<1>11. AnswerInv' /\ chains!OneDisclosure' /\ chains!ReleasedOnce'
  BY <1>2, <1>3, <1>4, RemovedFacts, QuietAnswers
<1> QED
  BY <1>6, <1>7, <1>8, <1>9, <1>10, <1>11 DEF ChainInv

-----------------------------------------------------------------------------
(* Expiry, and every step.                                                 *)

LEMMA Dropped ==
  ASSUME NEW S, NEW s \in Seq(S), NEW n \in 1 .. Len(s), NEW t, t = SubSeq(s, n + 1, Len(s))
  PROVE  /\ t \in Seq(S) /\ Len(t) = Len(s) - n /\ Len(t) \in Nat /\ DOMAIN t = 1 .. Len(t)
         /\ \A i \in 1 .. Len(t) : n + i \in 1 .. Len(s) /\ t[i] = s[n + i]
<1>1. Len(s) \in Nat /\ n + 1 \in Int /\ Len(s) \in Int /\ \A i \in n + 1 .. Len(s) : s[i] \in S
  BY LenProperties, ElementOfSeq
<1>2. /\ t \in Seq(S) /\ Len(t) = (IF n + 1 <= Len(s) THEN Len(s) - (n + 1) + 1 ELSE 0)
      /\ \A i \in 1 .. Len(s) - (n + 1) + 1 : t[i] = s[n + 1 + i - 1]
  BY <1>1, SubSeqProperties
<1>3. Len(t) = Len(s) - n
  BY <1>1, <1>2
<1>4. \A i \in 1 .. Len(t) : n + i \in 1 .. Len(s) /\ t[i] = s[n + i]
  BY <1>1, <1>2, <1>3
<1> QED
  BY <1>1, <1>2, <1>3, <1>4, LenProperties

\* What is due is removed, and all who waited with it are answered.
LEMMA ExpireStep ==
  ASSUME ChainInv, NEW n \in 1 .. Len(expiries), chains!Expire(n)
  PROVE  ChainInv'
<1> USE ChainFacts, ChainBounds
<1> DEFINE due == {expiries[i].id : i \in 1 .. n}
           of(state) == UNION {chained[c].waiters : c \in {c \in due : chained[c].state = state}}
<1>1. /\ expiries' = SubSeq(expiries, n + 1, Len(expiries))
      /\ chained' = [c \in 1 .. Len(chained) |-> IF c \in due THEN chains!Removed ELSE chained[c]]
      /\ requests' = [r \in 1 .. Len(requests) |-> IF r \in of("awaits") THEN chains!At(requests[r], "gone")
                                                   ELSE IF r \in of("here") THEN chains!At(requests[r], "end") ELSE requests[r]]
      /\ UNCHANGED <<states, channel, aborts, clock>>
  BY DEF chains!Expire
<1>2. due \subseteq 1 .. Len(chained)
  BY DEF ChainInv, ExpiryInv
<1> DEFINE answered == of("awaits") \cup of("here")
<1>3. ASSUME NEW r \in answered
      PROVE  /\ r \in 1 .. Len(requests) /\ requests[r] \in chains!Request /\ requests[r].step = "waiting"
             /\ requests[r].id \in due /\ requests[r].got = "nothing" /\ requests[r].kind \in {"result", "next"}
  <2>1. PICK c \in due : r \in chained[c].waiters
    OBVIOUS
  <2> QED
    BY <1>2, <2>1, WaitersOf
<1>4. ASSUME NEW c \in due, NEW r \in chained[c].waiters PROVE r \in answered
  <2>1. chained[c].state \in {"awaits", "here", "removed"}
    BY <1>2 DEF Chained
  <2>2. chained[c].state # "removed"
    BY <1>2 DEF ChainInv, WaiterInv
  <2>3. CASE chained[c].state = "awaits"
    BY <2>3
  <2>4. CASE chained[c].state = "here"
    BY <2>4
  <2> QED
    BY <2>1, <2>2, <2>3, <2>4
<1>5. ASSUME NEW r \in 1 .. Len(requests)
      PROVE  /\ r \notin answered => requests'[r] = requests[r]
             /\ r \in answered => \E got \in {"gone", "end"} : requests'[r] = chains!At(requests[r], got)
  BY <1>1
<1>6. DOMAIN requests' = 1 .. Len(requests) /\ requests' = [r \in 1 .. Len(requests) |-> requests'[r]]
  BY <1>1
<1>7. /\ \A c \in 1 .. Len(chained) : chained'[c] = IF c \in due THEN chains!Removed ELSE chained[c]
      /\ chained' \in [1 .. Len(chained) -> Chained]
  BY <1>1, RemovedFacts
<1>8. /\ expiries' \in Seq(Due) /\ Len(expiries)' = Len(expiries) - n /\ Len(expiries)' \in Nat
      /\ \A i \in 1 .. Len(expiries)' : n + i \in 1 .. Len(expiries) /\ expiries'[i] = expiries[n + i]
  <2>1. expiries \in Seq(Due)
    BY DEF ChainInv, ChainTypes
  <2>2. n \in 1 .. Len(expiries) /\ expiries' = SubSeq(expiries, n + 1, Len(expiries))
    BY <1>1
  <2> QED
    BY ONLY <2>1, <2>2, Dropped
<1>9. UNCHANGED <<states, channel, aborts, clock>>
  BY <1>1
<1>10. \A i \in 1 .. n : i \in 1 .. Len(expiries) /\ expiries[i].id \in due
  OBVIOUS
<1> HIDE DEF answered, of, due
<1>11. ASSUME NEW r \in answered
       PROVE  /\ requests'[r] \in chains!Request /\ requests'[r].kind = requests[r].kind /\ requests'[r].drip = requests[r].drip
              /\ requests'[r].left = requests[r].left /\ requests'[r].id = requests[r].id
              /\ requests'[r].step \in {"answered", "done", "dropped"} /\ requests'[r].got \notin Telling
              /\ requests'[r].step = "answered" => requests[r].kind \in {"start", "next"}
  <2>1. PICK got \in {"gone", "end"} : requests'[r] = chains!At(requests[r], got)
    BY <1>3, <1>5
  <2>2. got \in Answers
    BY DEF Answers
  <2> QED
    BY <1>3, <2>1, <2>2, AtFacts DEF Telling
<1>12. requests' \in Seq(chains!Request) /\ Len(requests)' = Len(requests)
  <2>1. \A r \in 1 .. Len(requests) : requests'[r] \in chains!Request
    BY <1>5, <1>11
  <2>2. requests' \in [1 .. Len(requests) -> chains!Request]
    BY <1>6, <2>1
  <2> QED
    BY <2>2, RequestsSeq
<1>13. chained' \in Seq(Chained) /\ Len(chained)' = Len(chained) /\ Len(chained)' \in Nat
  <2>1. chained' \in Seq(Chained)
    BY <1>7 DEF Seq
  <2> QED
    BY ONLY <1>7, <2>1, LenProperties, ChainFacts, ChainInv
<1>14. \A r \in 1 .. Len(requests) : requests'[r] = requests[r] \/ (r \in answered /\ Moved(r))
  <2>1. ASSUME NEW r \in answered PROVE Moved(r)
    BY <1>3, <1>11 DEF Moved
  <2> QED
    BY <1>5, <2>1
<1>15. ASSUME NEW r \in 1 .. Len(requests), requests'[r].step = "waiting"
       PROVE  /\ requests'[r] = requests[r] /\ requests[r].id \in 1 .. Len(chained) \ due
              /\ r \in chained[requests[r].id].waiters
  <2>1. r \notin answered /\ requests'[r] = requests[r]
    BY <1>5, <1>11, <1>15
  <2>2. StepOf(r) /\ requests[r].id \in 0 .. Len(chained)
    BY DEF ChainInv, StepInv, ChainTypes
  <2>3. requests[r].id # 0 /\ r \in chained[requests[r].id].waiters
    BY <1>15, <2>1, <2>2 DEF StepOf
  <2> QED
    BY <1>4, <2>1, <2>2, <2>3
<1>16. ChainTypes' /\ ChannelInv' /\ StepInv'
  <2>1. \A r \in 1 .. Len(requests) : requests'[r].id = requests[r].id /\ requests'[r].id \in 0 .. Len(chained)'
    BY <1>5, <1>11, <1>13 DEF ChainInv, ChainTypes
  <2>2. \A r \in 1 .. Len(requests) : requests'[r].step = "waiting" => r \in chained'[requests'[r].id].waiters
    BY <1>7, <1>15
  <2>3. \A r, a : chains!Pending(r, a) => chains!Pending(r, a)'
    BY <1>9 DEF chains!Pending
  <2>4. ASSUME NEW r \in 1 .. Len(requests), requests'[r].step = "sent" PROVE chains!Pending(r, FALSE)'
    <3>1. requests'[r] = requests[r]
      BY <1>14, <2>4 DEF Moved
    <3> QED
      BY <2>3, <2>4, <3>1 DEF ChainInv, StepInv, StepOf
  <2>5. ASSUME NEW i \in 1 .. Len(channel)', ~channel'[i].abort PROVE requests'[channel'[i].of].step = "sent"
    <3>1. i \in 1 .. Len(channel) /\ channel'[i] = channel[i]
      BY <1>9
    <3>2. channel[i].of \in 1 .. Len(requests) /\ requests[channel[i].of].step = "sent"
      BY <2>5, <3>1 DEF ChainInv, ChannelInv
    <3>3. channel[i].of \notin answered
      BY <1>3, <3>2
    <3> QED
      BY <1>5, <3>1, <3>2, <3>3
  <2>6. /\ \A r \in 1 .. Len(requests) : requests'[r] = requests[r] \/ Moved(r)
        /\ Len(chained) <= Len(chained)' /\ channel' = channel /\ UNCHANGED <<states, aborts, clock>>
    BY <1>9, <1>13, <1>14
  <2> QED
    BY ONLY ChainInv, <1>8, <1>12, <1>13, <2>1, <2>2, <2>3, <2>4, <2>5, <2>6, Changed
<1>17. WaiterInv'
  <2> SUFFICES ASSUME NEW o \in 1 .. Len(chained)
               PROVE  /\ chained'[o].state = "removed" => chained'[o].waiters = {}
                      /\ \A k \in chained'[o].waiters :
                           /\ k \in 1 .. Len(requests) /\ requests'[k].id = o /\ requests'[k].step = "waiting"
                           /\ chained'[o].state = "awaits" => requests'[k].kind = "result"
                           /\ chained'[o].state = "here" =>
                                requests'[k].kind = "next" /\ requests'[k].disclosure = chained'[o].disclosure
    BY <1>12, <1>13 DEF WaiterInv
  <2>1. CASE o \in due
    BY <1>7, <2>1, RemovedFacts
  <2>2. CASE o \notin due
    <3>1. chained'[o] = chained[o]
      BY <1>7, <2>2
    <3>2. ASSUME NEW k \in chained[o].waiters PROVE requests'[k] = requests[k]
      <4>1. k \in 1 .. Len(requests) /\ requests[k].id = o
        BY WaitersOf
      <4> QED
        BY <1>3, <1>5, <2>2, <4>1
    <3> QED
      BY SMTT(30), <3>1, <3>2 DEF ChainInv, WaiterInv
  <2> QED
    BY <2>1, <2>2
<1>18. ExpiryInv'
  <2>1. ASSUME NEW c \in 1 .. Len(chained), chained'[c].state # "removed"
        PROVE  \E i \in 1 .. Len(expiries)' : expiries'[i].id = c
    <3>1. c \notin due /\ chained[c].state # "removed"
      BY <1>7, <2>1, RemovedFacts
    <3>2. PICK i \in 1 .. Len(expiries) : expiries[i].id = c
      BY <3>1 DEF ChainInv, ExpiryInv
    <3>3. i > n
      BY <1>10, <3>1, <3>2
    <3>4. i - n \in 1 .. Len(expiries)' /\ n + (i - n) = i
      BY <1>8, <3>2, <3>3
    <3> QED
      BY <1>8, <3>2, <3>4
  <2>2. \A i \in 1 .. Len(expiries)' : expiries'[i].at <= clock + Validity /\ expiries'[i].id \in 1 .. Len(chained)
    BY <1>8 DEF ChainInv, ExpiryInv
  <2>3. ASSUME NEW i \in 1 .. Len(expiries)', NEW j \in 1 .. Len(expiries)', i < j
        PROVE  expiries'[i].at <= expiries'[j].at
    <3>1. /\ n + i \in 1 .. Len(expiries) /\ n + j \in 1 .. Len(expiries) /\ n + i < n + j
          /\ expiries'[i] = expiries[n + i] /\ expiries'[j] = expiries[n + j]
      BY <1>8, <2>3
    <3> QED
      BY <3>1 DEF ChainInv, ExpiryInv
  <2> QED
    BY <1>9, <1>13, <2>1, <2>2, <2>3 DEF ExpiryInv
<1>19. AnswerInv' /\ chains!OneDisclosure' /\ chains!ReleasedOnce'
  <2>1. \A r \in 1 .. Len(requests) : requests'[r].got \in Telling => requests'[r] = requests[r]
    BY <1>5, <1>11
  <2>2. \A c \in 1 .. Len(chained) : chained'[c].state = "removed" \/ chained'[c] = chained[c]
    BY <1>7, RemovedFacts
  <2> QED
    BY <1>6, <1>12, <2>1, <2>2, QuietAnswers
<1> QED
  BY <1>16, <1>17, <1>18, <1>19 DEF ChainInv

LEMMA ChainStep == ChainInv /\ (chains!ChainedNext \/ UNCHANGED chainsVars) => ChainInv'
<1> SUFFICES ASSUME ChainInv, chains!ChainedNext \/ UNCHANGED chainsVars PROVE ChainInv'
  BY SMTT(30)
<1> USE ChainFacts
<1>1. CASE UNCHANGED chainsVars
  <2>1. UNCHANGED <<requests, states, chained, expiries, channel, aborts, clock>>
    BY <1>1 DEF chainsVars
  <2> QED
    BY <2>1 DEF ChainInv, ChainTypes, ChannelInv, StepInv, StepOf, AnswerInv, WaiterInv, ExpiryInv, Aborted,
         chains!Drips, chains!Pending, chains!OneDisclosure, chains!ReleasedOnce
<1>2. ASSUME NEW how \in Starts, chains!AuthStart(how) PROVE ChainInv'
  BY <1>2, AuthStartStep
<1>3. ASSUME NEW s \in states,
             \/ chains!YiviWaitForResult(s)
             \/ \E d \in Disclosures : chains!YiviNextSession(s, d)
             \/ \E how \in Releases : chains!YiviReleaseNextSession(s, how)
      PROVE  ChainInv'
  BY <1>3, AskingStep
<1>4. ASSUME NEW r \in DOMAIN requests,
             \/ chains!Send(r) \/ chains!SendAbort(r) \/ chains!Respond(r) \/ \E drop \in BOOLEAN : chains!Disconnect(r, drop)
             \/ chains!CreateSession(r) \/ chains!WaitForResult(r) \/ chains!WaitForNextSession(r)
             \/ chains!AbortWaitForNextSession(r) \/ chains!ReleaseNextSession(r)
      PROVE  ChainInv'
  <2>1. r \in 1 .. Len(requests)
    OBVIOUS
  <2> QED
    BY <1>4, <2>1, SendStep, SendAbortStep, RespondStep, DisconnectStep, CreateSessionStep, WaitForResultStep,
       WaitForNextSessionStep, AbortStep, ReleaseNextSessionStep
<1>5. ASSUME NEW n \in DOMAIN expiries, chains!Expire(n) PROVE ChainInv'
  BY <1>5, ExpireStep
<1>6. CASE chains!Tick \/ chains!Restart
  BY <1>6, TickStep, RestartStep
<1> QED
  BY <1>1, <1>2, <1>3, <1>4, <1>5, <1>6 DEF chains!ChainedNext
=============================================================================
