------------------------------- MODULE Voting -------------------------------
(***************************************************************************)
(* A poll or a scheduler in a room (VotingWidget.vue, VotingTypes.ts,      *)
(* PollOptionList.vue, SchedulerOptionItem.vue, Room.ts:                   *)
(* filterRoomWidgetRelatedEvents).  Votes, edits, closing, reopening and   *)
(* the picked option are events that relate to the widget; every client    *)
(* folds those it has into what it shows, all at once when the widget is   *)
(* mounted and the new ones whenever its timeline grows.                   *)
(***************************************************************************)
EXTENDS Integers, Sequences, FiniteSets, SequencesExt

CONSTANTS Clients,   \* users, each with one client
          Creator,   \* the user who made the widget
          Titles,    \* what an option may be (the date of a scheduler's)
          Answers,   \* what may be answered to an option of a scheduler
          MaxEvents, \* bound on the events that relate to the widget
          MaxIds     \* bound on the ids that are given to options

VARIABLES
  kind,     \* "poll" or "scheduler"
  original, \* the options in the event of the widget itself
  events,   \* what relates to it, in the order of the server
  view,     \* view[c]: the mounted widget of c, NoView if it is not
  known,    \* known[c]: how many of the events the timeline of c has
  draft     \* PollMessageInput.vue, SchedulerMessageInput.vue

voteVars == <<kind, original, events, view, known, draft>>

\* PollOption, SchedulerOption
Options == [id : 0..MaxIds, title : Titles]
VoteChoices == IF kind = "poll" THEN {"yes", "redacted"} ELSE Answers \cup {"redacted"}
Fresh(options) == [on |-> TRUE, options |-> options, votes |-> {}, closed |-> FALSE, picked |-> -1, show |-> FALSE]
NoView == [Fresh(<<>>) EXCEPT !.on = FALSE]
NoDraft == [open |-> FALSE, edit |-> FALSE, options |-> <<>>, next |-> 0]

Event(type, c) == [type |-> type, user |-> c, option |-> -1, choice |-> "none", options |-> <<>>]
IsVote(e) == e.type = "vote"

VotingTypeOK ==
  /\ kind \in {"poll", "scheduler"} /\ original \in Seq(Options)
  /\ Len(events) <= MaxEvents
  /\ \A i \in DOMAIN events : events[i].user \in Clients /\ events[i].option \in -1..MaxIds
  /\ known \in [Clients -> 0..Len(events)]
  /\ \A c \in Clients : /\ view[c].options \in Seq(Options) /\ view[c].picked \in -1..MaxIds
                        /\ view[c].votes \subseteq [option : 0..MaxIds, choice : VoteChoices \ {"redacted"}, user : Clients]
  /\ draft.options \in Seq(Options) /\ draft.next \in 0..MaxIds + 1

Ids(options) == {options[i].id : i \in DOMAIN options}

\* Nothing is made yet.
VotingInit ==
  /\ kind \in {"poll", "scheduler"} /\ original = <<>> /\ events = <<>>
  /\ view = [c \in Clients |-> NoView] /\ known = [c \in Clients |-> 0]
  /\ draft = [NoDraft EXCEPT !.open = TRUE]

-----------------------------------------------------------------------------
\* modifyVotingWidgetWithEvent, VotingWidgetEdit: an option that has the title
\* of an old one takes its votes; the others start without.
Edited(v, e) ==
  LET IdOf(t) == CHOOSE i \in Ids(e.options) : \E n \in DOMAIN e.options : e.options[n] = [id |-> i, title |-> t]
      Kept == {o \in ToSet(v.options) : \E n \in DOMAIN e.options : e.options[n].title = o.title}
  IN [v EXCEPT !.options = e.options,
               !.votes = UNION {{[w EXCEPT !.option = IdOf(o.title)] : w \in {x \in v.votes : x.option = o.id}} : o \in Kept}]

\* A vote takes the place of the one before, of the user (poll) or of the user
\* on that option (scheduler).
Voted(v, e) ==
  IF v.closed \/ e.option \notin Ids(v.options) THEN v
  ELSE [v EXCEPT !.votes = {w \in @ : w.user # e.user \/ (kind = "scheduler" /\ w.option # e.option)}
                             \cup {[option |-> e.option, choice |-> e.choice, user |-> e.user]}]

\* updateVotingWidgetWithEvent
Updated(v, e) ==
  CASE e.type = "close" -> [v EXCEPT !.closed = TRUE]
    [] e.type = "open"  -> [v EXCEPT !.closed = FALSE]
    [] e.type = "pick"  -> IF e.option >= 0 THEN [v EXCEPT !.picked = e.option] ELSE v
    [] e.type = "edit"  -> Edited(v, e)
    [] OTHER            -> Voted(v, e)

\* removeRedactedVotes
WithoutRedacted(v) == [v EXCEPT !.votes = {w \in @ : w.choice # "redacted"}]

\* filterRoomWidgetRelatedEvents on the first k events: the last vote of every
\* user (and option), and after the votes whatever else there is.
Superseded(i, k) ==
  \E j \in i + 1..k : /\ IsVote(events[j]) /\ events[j].user = events[i].user
                      /\ kind = "scheduler" => events[j].option = events[i].option
\* (slip: the last event of a user takes the place of those before)
LatestOnly(k, after) ==
  [votes |-> {},
   others |-> {i \in after + 1..k : \A j \in i + 1..k : events[j].user # events[i].user}]
RelatedEvents(k, after) ==
  [votes |-> {i \in after + 1..k : IsVote(events[i]) /\ ~Superseded(i, k)},
   others |-> {i \in after + 1..k : ~IsVote(events[i])}]

\* collectVotes, collectNewVotes: what the events at those places make of v, one
\* after the other, Folded(v, places)[k] the first k of them.
Folded(v, places) ==
  LET now[k \in 0..Len(events)] ==
        IF k = 0 THEN v
        ELSE IF k \in places THEN Updated(now[k - 1], events[k]) ELSE now[k - 1]
  IN now
AllOf(v, places) == Folded(v, places)[Len(events)]
Collected(v, related) == WithoutRedacted(AllOf(AllOf(v, related.votes), related.others))

\* The widget comes into view: the timeline has k events by now.
MountWidget(c) ==
  /\ original # <<>> /\ ~view[c].on
  /\ \E k \in known[c]..Len(events) :
       /\ known' = [known EXCEPT ![c] = k]
       /\ view' = [view EXCEPT ![c] = Collected(Fresh(original), RelatedEvents(k, 0))]
  /\ UNCHANGED <<kind, original, events, draft>>

\* It scrolls away, or the room is left.
UnmountWidget(c) == view[c].on /\ view' = [view EXCEPT ![c] = NoView] /\ UNCHANGED <<kind, original, events, known, draft>>

\* watch(filterRoomWidgetRelatedEvents): one or more events came in.
CollectNewVotes(c) ==
  /\ view[c].on
  /\ \E k \in known[c] + 1..Len(events) :
       /\ known' = [known EXCEPT ![c] = k]
       /\ view' = [view EXCEPT ![c] = Collected(@, RelatedEvents(k, known[c]))]
  /\ UNCHANGED <<kind, original, events, draft>>

-----------------------------------------------------------------------------
Send(es) == Len(events) + Len(es) <= MaxEvents /\ events' = events \o es

HasVoted(c, o, choice) == [option |-> o, choice |-> choice, user |-> c] \in view[c].votes

\* vote: a second click on the same choice takes it back.  The options of a
\* closed poll can still be clicked, the buttons of a closed scheduler are gone.
Vote(c, o, choice) ==
  /\ view[c].on /\ o \in Ids(view[c].options) /\ choice \in VoteChoices \ {"redacted"}
  /\ kind = "scheduler" => ~view[c].closed
  /\ Send(<<[Event("vote", c) EXCEPT !.option = o, !.choice = IF HasVoted(c, o, choice) THEN "redacted" ELSE choice]>>)
  /\ UNCHANGED <<kind, original, view, known, draft>>

CloseWidget ==
  /\ view[Creator].on /\ ~view[Creator].closed
  /\ view' = [view EXCEPT ![Creator].closed = TRUE, ![Creator].picked = -1, ![Creator].show = @ \/ kind = "scheduler"]
  /\ Send(<<Event("close", Creator)>>) /\ UNCHANGED <<kind, original, known, draft>>

ReopenWidget ==
  /\ view[Creator].on /\ view[Creator].closed
  /\ view' = [view EXCEPT ![Creator].closed = FALSE, ![Creator].picked = -1]
  /\ Send(<<Event("open", Creator), Event("pick", Creator)>>) /\ UNCHANGED <<kind, original, known, draft>>

\* SchedulerOptionItem.vue: pickDate, while closedAndPicking.
PickDate(o) ==
  /\ kind = "scheduler" /\ view[Creator].on /\ view[Creator].closed /\ view[Creator].picked = -1
  /\ o \in Ids(view[Creator].options)
  /\ view' = [view EXCEPT ![Creator].picked = o, ![Creator].show = FALSE]
  /\ Send(<<[Event("pick", Creator) EXCEPT !.option = o]>>) /\ UNCHANGED <<kind, original, known, draft>>

-----------------------------------------------------------------------------
\* updateOptionsId: ids go on from the highest of the options that are left.
NextId(options) == IF options = <<>> THEN 0 ELSE 1 + CHOOSE i \in Ids(options) : \A j \in Ids(options) : j <= i

EditWidget ==
  /\ view[Creator].on /\ ~view[Creator].closed /\ ~draft.open
  /\ draft' = [open |-> TRUE, edit |-> TRUE, options |-> view[Creator].options, next |-> NextId(view[Creator].options)]
  /\ UNCHANGED <<kind, original, events, view, known>>

\* A blank option gets a title or a date; addNewOptionsIfAllFilled.
Filled(d) ==
  {[d EXCEPT !.options = Append(@, [id |-> d.next, title |-> t]), !.next = @ + 1] :
     t \in {t \in Titles : d.next <= MaxIds /\ \A n \in DOMAIN d.options : d.options[n].title # t}}

\* removeOption: no two options have the same id.
Removed(d) == {[d EXCEPT !.options = RemoveAt(@, n)] : n \in DOMAIN d.options}

\* What a draft may have become when it is sent, after two changes at most.
Changed(d) == Filled(d) \cup Removed(d)
Drafts(d) == {d} \cup Changed(d) \cup UNION {Changed(x) : x \in Changed(d)}

CloseDraft == draft.open /\ draft.edit /\ draft' = NoDraft /\ UNCHANGED <<kind, original, events, view, known>>

CanSend(d) == Len(d.options) >= 2

\* addPoll, addScheduler; editPoll, editScheduler
SubmitWidget ==
  /\ draft.open /\ draft' = NoDraft
  /\ \E d \in Drafts(draft) :
       /\ CanSend(d)
       /\ IF draft.edit
          THEN Send(<<[Event("edit", Creator) EXCEPT !.options = d.options]>>) /\ UNCHANGED original
          ELSE original' = d.options /\ UNCHANGED events
  /\ UNCHANGED <<kind, view, known>>

VotingNext ==
  \/ \E c \in Clients : \/ MountWidget(c) \/ UnmountWidget(c) \/ CollectNewVotes(c)
                        \/ \E o \in 0..MaxIds, choice \in VoteChoices : Vote(c, o, choice)
  \/ CloseWidget \/ ReopenWidget \/ (\E o \in 0..MaxIds : PickDate(o))
  \/ EditWidget \/ CloseDraft \/ SubmitWidget

VotingSpec == VotingInit /\ [][VotingNext]_voteVars

-----------------------------------------------------------------------------
Abreast(c) == view[c].on /\ known[c] = Len(events)

\* Room.ts, filterRoomWidgetRelatedEvents: "Non-vote events ... are returned
\* alongside votes so they can restore state".  Clients that have all events
\* show the same options and agree whether the widget is closed, however the
\* events came in and however often the widget was mounted in between.
SameWidget ==
  \A c, d \in Clients : Abreast(c) /\ Abreast(d) =>
    view[c].options = view[d].options /\ view[c].closed = view[d].closed

\* VotingWidget.vue: "must be called in chronological timeline order for each
\* event, so old events before new ones": clients that have all events count
\* the same votes.
SameVotes == \A c, d \in Clients : Abreast(c) /\ Abreast(d) => view[c].votes = view[d].votes
=============================================================================
