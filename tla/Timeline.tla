------------------------------ MODULE Timeline ------------------------------
(***************************************************************************)
(* The timeline of one room in the hub client: a window on the history of  *)
(* the room, filled by requests in both directions, by jumps to an event   *)
(* and by sliding sync, all of which overlap in time (TimelineManager.ts,  *)
(* useTimelinePagination.ts, Room.ts).                                     *)
(*                                                                         *)
(* An event is its position in the history; its timestamp, which all the   *)
(* comparisons of the code are about, is that position.                    *)
(***************************************************************************)
EXTENDS Integers, Sequences, FiniteSetsExt

CONSTANTS
  History,        \* what is sent to the room: a sequence of [kind, of]
  Own,            \* the events this user sends
  Early,          \* how many events there are when the client starts
  InListWindow,   \* whether the list delivers the room before it is opened
  Targets,        \* the events a user may jump to (replies, search, threads)
  InitialLimit,   \* SystemDefaults.initialRoomTimelineLimit
  Batch,          \* SystemDefaults.paginationBatchSize
  Window,         \* SystemDefaults.roomTimelineLimit
  MaxIterations,  \* SystemDefaults.maxPaginationIterations
  SyncLimit,      \* SystemDefaults.SubscriptionRoomTimelineLimit
  MaxJumps, MaxFaults   \* bounds on jumps and on requests that fail

Events == 1 .. Len(History)
Kinds  == {"text", "silent", "edit", "hide", "unhide"}

ASSUME HistoryAssumption ==
  /\ History \in Seq([kind : Kinds, of : Nat])
  /\ \A i \in Events :
       History[i].kind \in {"edit", "hide", "unhide"} =>
         History[i].of \in 1 .. i - 1 /\ History[History[i].of].kind = "text"
ASSUME LimitsAssumption ==
  /\ {InitialLimit, Batch, Window, MaxIterations, SyncLimit} \subseteq Nat \ {0}
  /\ {Early, MaxJumps, MaxFaults} \subseteq Nat
  /\ Early \in 1 .. Len(History)
  /\ InListWindow \in BOOLEAN
  /\ Own \subseteq Events
  /\ Targets \subseteq Events

VARIABLES
  sent,     \* how much of the history the server has
  synced,   \* how much of it sliding sync has delivered
  opened,   \* the user has opened the room
  loaded,   \* _timelineEvents
  first,    \* paginationState.firstMessageId, 0 when undefined
  last,     \* paginationState.lastMessageId, 0 when undefined
  edit,     \* editEvents: the edit on record for an event, 0 if none
  shown,    \* ph_edited_ts of a loaded event: the edit it shows
  hide,     \* hideMessageEvents: the event on record that (un)hides an event
  load,     \* the requests under way, see below
  received, \* what this client has been given so far (history variable)
  jumps, faults

vars == <<sent, synced, opened, loaded, first, last, edit, shown, hide, load,
          received, jumps, faults>>

(***************************************************************************)
(* What may be under way: loadLatestTimeline, paginate in each direction,  *)
(* loadToEvent for a jump, and loadToEvent for events that arrive in an    *)
(* empty timeline.                                                         *)
(***************************************************************************)
Loads == {"initial", "previous", "next", "jump", "arrival"}
Dirs  == {"back", "forth"}

\* One loop of performPaginate: the position of the token, the rounds done,
\* what was collected; it is closed when the loop has ended.
Closed        == [open |-> FALSE, cursor |-> 0, rounds |-> 0, got |-> {}]
Paging(e)     == [open |-> TRUE, cursor |-> e, rounds |-> 0, got |-> {}]
Loading(a, b) == [pc |-> "pages", at |-> 0, skip |-> {},
                  page |-> [d \in Dirs |-> IF d = "back" THEN a ELSE b]]
NoLoad        == [Loading(Closed, Closed) EXCEPT !.pc = "idle"]

VisibleWithEdits(S) == {e \in S : History[e].kind \in {"text", "edit"}}   \* slip: edits are listed
Visible(S) == {e \in S : History[e].kind = "text"}
Newest(S)  == IF S = {} THEN 0 ELSE Max(S)
Oldest(S)  == IF S = {} THEN 0 ELSE Min(S)
Latest(n, S) == {e \in S : Cardinality({f \in S : f > e}) < n}
Of(kinds, t, S) == {e \in S : History[e].kind \in kinds /\ History[e].of = t}

(***************************************************************************)
(* prepareEvents: of the events of S, those that edit, hide or show another*)
(* event are put on record unless a newer one is there already.            *)
(***************************************************************************)
Noted(record, kinds, S) ==
  [t \in Events |-> Newest({record[t]} \cup Of(kinds, t, S))]
NotedEditsOfLoaded(S) ==   \* slip: edits of events that are not loaded are lost
  [t \in Events |-> IF t \in loaded THEN Newest({edit[t]} \cup Of({"edit"}, t, S))
                                     ELSE edit[t]]
NotedEdits(S) == Noted(edit, {"edit"}, S)
NotedHides(S) == Noted(hide, {"hide", "unhide"}, S)

\* cleanupHideMessageEvents: forgets what is on record of events not loaded.
KeptNone(record, S) == [t \in Events |-> 0]   \* slip: clears the whole map
Kept(record, S) == [t \in Events |-> IF t \in S THEN record[t] ELSE 0]

\* applyEdits: a loaded event shows the edit on record; events that enter the
\* timeline are fresh objects, and those that leave it are dropped.
Applied(record, S) == [t \in Events |-> IF t \in S THEN record[t] ELSE 0]

(***************************************************************************)
(* ensureListLength(events, newEvents, Window, Backward): the events that  *)
(* were fetched, filled up with those that were there.                     *)
(***************************************************************************)
SliceEnd(n, S) == IF n = 0 THEN S ELSE Latest(n, S)     \* slice(-0) is all of it
SliceStart(n, S) == {e \in S : Cardinality({f \in S : f < e}) < n}
Behind(n, S)   == {e \in S : Cardinality({f \in S : f < e}) >= n}
IndexIn(S, e)  == Cardinality({f \in S : f < e})
EnsureListLength(old, new) ==
  LET room   == Max({0, Window - Cardinality(new)})
      common == old \cap new
      rest   == old \ new
  IN  new \cup
      IF common = {} THEN SliceEnd(room, old)
      ELSE IF IndexIn(old, Min(common)) > 0
           THEN SliceEnd(room, SliceStart(IndexIn(old, Min(common)), rest))
           ELSE SliceStart(room, Behind(IndexIn(old, Max(common)) + 1, rest))

\* commitTimelineEvents, after the events of S have been prepared.
Commit(new, S) ==
  LET list == EnsureListLength(loaded, new) IN
  /\ loaded' = list
  /\ edit' = NotedEdits(S)
  /\ hide' = Kept(NotedHides(S), list)
  /\ shown' = Applied(NotedEdits(S), list)
  /\ received' = received \cup S

-----------------------------------------------------------------------------
TypeOK ==
  /\ sent \in 0 .. Len(History) /\ synced \in 0 .. sent
  /\ opened \in BOOLEAN
  /\ \A e \in loaded : e \in 1 .. sent /\ History[e].kind = "text"
  /\ first \in 0 .. sent /\ last \in 0 .. sent
  /\ {edit, shown, hide} \subseteq [Events -> 0 .. Len(History)]
  /\ load \in [Loads ->
       [pc : {"idle", "context", "pages", "stuck"}, at : 0 .. Len(History),
        skip : SUBSET Events,
        page : [Dirs -> [open : BOOLEAN, cursor : 0 .. Len(History) + 1,
                         rounds : 0 .. MaxIterations, got : SUBSET Events]]]]
  /\ received \subseteq 1 .. sent
  /\ jumps \in 0 .. MaxJumps /\ faults \in 0 .. MaxFaults

Init ==
  /\ sent = Early /\ synced = 0 /\ opened = FALSE
  /\ loaded = {} /\ first = 0 /\ last = 0
  /\ edit = [t \in Events |-> 0] /\ shown = edit /\ hide = edit
  /\ load = [l \in Loads |-> NoLoad]
  /\ received = {} /\ jumps = 0 /\ faults = 0

\* Somebody sends an event to the room.
Send ==
  /\ sent < Len(History)
  /\ sent' = sent + 1
  /\ UNCHANGED <<synced, opened, loaded, first, last, edit, shown, hide, load,
                 received, jumps, faults>>

(***************************************************************************)
(* Opening the room (initTimeline): it is shown at once if the SDK has     *)
(* visible events of it already, else its latest events are requested. A   *)
(* room that has a timeline keeps it.                                      *)
(***************************************************************************)
InSdk == IF InListWindow THEN Latest(SyncLimit, 1 .. sent) ELSE {}

SeedFromLiveTimeline ==
  /\ ~opened /\ loaded = {} /\ Visible(InSdk) # {}
  /\ opened' = TRUE
  /\ Commit(Visible(InSdk), InSdk)
  /\ last' = Max(loaded')
  /\ UNCHANGED <<sent, synced, first, load, jumps, faults>>

LoadLatestTimeline ==
  /\ ~opened /\ loaded = {} /\ Visible(InSdk) = {}
  /\ opened' = TRUE
  /\ load' = [load EXCEPT !["initial"] = Loading(Paging(sent + 1), Closed)]
  /\ edit' = NotedEdits(InSdk) /\ hide' = NotedHides(InSdk)
  /\ received' = received \cup InSdk
  /\ UNCHANGED <<sent, synced, loaded, first, last, shown, jumps, faults>>

\* A room that is left and opened again keeps its timeline, and the requests
\* go on, but the flags of useTimelinePagination start afresh. (It is left when
\* it is of no use: empty, or deaf to scrolling.)
Leave ==
  /\ opened
  /\ \/ \E l \in {"previous", "next"} : load[l].pc = "stuck"
     \/ loaded = {} /\ load["initial"].pc = "idle"
  /\ opened' = FALSE
  /\ load' = [l \in Loads |-> IF load[l].pc = "stuck" THEN NoLoad ELSE load[l]]
  /\ UNCHANGED <<sent, synced, loaded, first, last, edit, shown, hide, received,
                 jumps, faults>>

Return ==
  /\ ~opened /\ loaded # {}
  /\ opened' = TRUE
  /\ UNCHANGED <<sent, synced, loaded, first, last, edit, shown, hide, load,
                 received, jumps, faults>>

-----------------------------------------------------------------------------
(***************************************************************************)
(* Requests. Scrolling to an end of the timeline asks for more of it,      *)
(* unless that is under way or that end of the room is loaded.             *)
(***************************************************************************)
OldestMessageLoaded == first # 0 /\ first \in loaded
NewestMessageLoaded == last # 0 /\ last \in loaded

Ask(l, e) == load' = [load EXCEPT ![l] = [NoLoad EXCEPT !.pc = "context", !.at = e]]

LoadPrevious ==
  /\ opened /\ loaded # {} /\ ~OldestMessageLoaded
  /\ load["previous"].pc = "idle"
  /\ Ask("previous", Min(loaded))
  /\ UNCHANGED <<sent, synced, opened, loaded, first, last, edit, shown, hide,
                 received, jumps, faults>>

LoadNext ==
  /\ opened /\ loaded # {} /\ ~NewestMessageLoaded
  /\ load["next"].pc = "idle"
  /\ Ask("next", Max(loaded))
  /\ UNCHANGED <<sent, synced, opened, loaded, first, last, edit, shown, hide,
                 received, jumps, faults>>

\* scrollToEvent: an event that is not there is loaded first.
ScrollToEvent(e) ==
  /\ opened /\ jumps < MaxJumps /\ load["jump"].pc = "idle"
  /\ e \in Targets /\ e <= sent /\ e \notin loaded
  /\ jumps' = jumps + 1
  /\ Ask("jump", e)
  /\ UNCHANGED <<sent, synced, opened, loaded, first, last, edit, shown, hide,
                 received, faults>>

(***************************************************************************)
(* getEventTimeline gives tokens for what lies on either side of the event.*)
(* paginate follows one of them, and takes note of what is loaded now;     *)
(* loadToEvent follows both, and has the event itself.                     *)
(***************************************************************************)
GotContext(l) ==
  /\ load[l].pc = "context"
  /\ LET e == load[l].at IN
     load' = [load EXCEPT ![l] =
       CASE l = "previous" -> [Loading(Paging(e), Closed) EXCEPT !.at = e, !.skip = loaded]
         [] l = "next"     -> [Loading(Closed, Paging(e)) EXCEPT !.at = e, !.skip = loaded]
         [] OTHER          -> [Loading(Paging(e), Paging(e)) EXCEPT !.at = e]]
  /\ IF l \in {"jump", "arrival"}
     THEN /\ edit' = NotedEdits({load[l].at})
          /\ hide' = NotedHides({load[l].at})
          /\ received' = received \cup {load[l].at}
     ELSE UNCHANGED <<edit, hide, received>>
  /\ UNCHANGED <<sent, synced, opened, loaded, first, last, shown, jumps, faults>>

Limit(l) == IF l \in {"previous", "next"} THEN Batch ELSE InitialLimit

\* The server's answer to createMessagesRequest.
ChunkAhead(d, cursor, n) ==   \* slip: events that were not sent yet
  IF d = "back" THEN {e \in Events : cursor - n <= e /\ e < cursor}
                ELSE {e \in Events : cursor < e /\ e <= cursor + n}
Chunk(d, cursor, n) ==
  IF d = "back" THEN {e \in 1 .. sent : cursor - n <= e /\ e < cursor}
                ELSE {e \in 1 .. sent : cursor < e /\ e <= cursor + n}

(***************************************************************************)
(* One round of performPaginate. A short answer is the end of the room:    *)
(* the first event of a chunk that runs backwards is its newest one, and   *)
(* so is the last event of a chunk that runs forwards.                     *)
(***************************************************************************)
Page(l, d) ==
  /\ load[l].pc = "pages" /\ load[l].page[d].open
  /\ LET p     == load[l].page[d]
         chunk == Chunk(d, p.cursor, Limit(l))
         short == Cardinality(chunk) < Limit(l)
         got   == p.got \cup Visible(chunk)
         more  == /\ ~short
                  /\ Cardinality(got) < Limit(l)
                  /\ p.rounds + 1 < MaxIterations
     IN  /\ load' = [load EXCEPT ![l].page[d] =
                       [open |-> more, rounds |-> p.rounds + 1, got |-> got,
                        cursor |-> IF chunk = {} THEN p.cursor
                                   ELSE IF d = "back" THEN Min(chunk) ELSE Max(chunk)]]
         /\ first' = IF short /\ d = "back"
                     THEN IF l = "initial" THEN Oldest(got)
                          ELSE IF chunk = {} THEN Oldest(loaded) ELSE Max(chunk)
                     ELSE first
         /\ last'  = IF short /\ d = "forth"
                     THEN IF chunk = {} THEN Newest(loaded) ELSE Max(chunk)
                     ELSE last
         /\ edit' = NotedEdits(chunk) /\ hide' = NotedHides(chunk)
         /\ received' = received \cup chunk
  /\ UNCHANGED <<sent, synced, opened, loaded, shown, jumps, faults>>

Collected(l) == load[l].page["back"].got \cup load[l].page["forth"].got
AllPaged(l)  == /\ load[l].pc = "pages"
                /\ \A d \in Dirs : ~load[l].page[d].open

\* The window of paginate: one that grew forwards is cut at its old end, one
\* that grew backwards is not cut.
SlidingBothWays(l, all) == Latest(Window, all)   \* slip: cut in any case
Sliding(l, all) == IF l = "next" THEN Latest(Window, all) ELSE all

\* The end of paginate: what is new is added.
Paginated(l) ==
  /\ l \in {"previous", "next"} /\ AllPaged(l)
  /\ LET new  == (Collected(l) \ load[l].skip) \ loaded
         all  == loaded \cup new
         list == Sliding(l, all)
     IN  IF new # {}
         THEN /\ loaded' = list
              /\ hide' = Kept(hide, list)
              /\ shown' = Applied(edit, list)
         ELSE /\ shown' = Applied(edit, loaded)
              /\ UNCHANGED <<loaded, hide>>
  /\ load' = [load EXCEPT ![l] = NoLoad]
  /\ UNCHANGED <<sent, synced, opened, first, last, edit, received, jumps, faults>>

\* The end of loadLatestTimeline.
InitialLoaded ==
  /\ AllPaged("initial")
  /\ last' = Newest(Collected("initial"))
  /\ Commit(Collected("initial"), {})
  /\ load' = [load EXCEPT !["initial"] = NoLoad]
  /\ UNCHANGED <<sent, synced, opened, first, jumps, faults>>

\* The end of loadToEvent.
LoadedToEvent(l) ==
  /\ l \in {"jump", "arrival"} /\ AllPaged(l)
  /\ Commit(Collected(l) \cup Visible({load[l].at}), {})
  /\ load' = [load EXCEPT ![l] = NoLoad]
  /\ UNCHANGED <<sent, synced, opened, first, last, jumps, faults>>

\* A request fails. Nobody catches that in loadPrevious and loadNext, whose
\* flag stays set; the others have nothing to reset.
RequestFails(l) ==
  /\ faults < MaxFaults
  /\ \/ load[l].pc = "context"
     \/ load[l].pc = "pages" /\ \E d \in Dirs : load[l].page[d].open
  /\ faults' = faults + 1
  /\ load' = [load EXCEPT ![l] =
       IF l \in {"previous", "next"} THEN [NoLoad EXCEPT !.pc = "stuck"] ELSE NoLoad]
  /\ UNCHANGED <<sent, synced, opened, loaded, first, last, edit, shown, hide,
                 received, jumps>>

-----------------------------------------------------------------------------
(***************************************************************************)
(* Sliding sync delivers what is new, at most SyncLimit events. They are   *)
(* added if the end of the room is loaded, or not known, or if one is the  *)
(* user's own; lastMessageId is set before anything is loaded.             *)
(***************************************************************************)
Arriving == Latest(SyncLimit, synced + 1 .. sent)
Welcome  == \/ last = 0
            \/ last \in loaded
            \/ Visible(Arriving) \cap Own # {}
Receive  == /\ synced' = sent
            /\ edit' = NotedEdits(Arriving)
            /\ hide' = NotedHides(Arriving)
            /\ received' = received \cup Arriving

SyncAdds ==
  /\ opened /\ synced < sent
  /\ Visible(Arriving) # {} /\ Welcome /\ loaded # {}
  /\ Receive
  /\ last' = Max(Visible(Arriving))
  /\ loaded' = loaded \cup Visible(Arriving)
  /\ shown' = Applied(edit', loaded')
  /\ UNCHANGED <<sent, opened, first, load, jumps, faults>>

SyncLoads ==
  /\ opened /\ synced < sent
  /\ Visible(Arriving) # {} /\ Welcome /\ loaded = {}
  /\ load["arrival"].pc = "idle"
  /\ Receive
  /\ last' = Max(Visible(Arriving))
  /\ Ask("arrival", Max(Visible(Arriving)))
  /\ UNCHANGED <<sent, opened, loaded, first, shown, jumps, faults>>

SyncLeavesOut ==
  /\ opened /\ synced < sent
  /\ Visible(Arriving) = {} \/ ~Welcome
  /\ Receive
  /\ shown' = Applied(edit', loaded)
  /\ UNCHANGED <<sent, opened, loaded, first, last, load, jumps, faults>>

-----------------------------------------------------------------------------
Next ==
  \/ Send \/ SeedFromLiveTimeline \/ LoadLatestTimeline \/ Leave \/ Return
  \/ LoadPrevious \/ LoadNext \/ \E e \in Events : ScrollToEvent(e)
  \/ \E l \in Loads : \/ GotContext(l) \/ \E d \in Dirs : Page(l, d)
                      \/ Paginated(l) \/ LoadedToEvent(l) \/ RequestFails(l)
  \/ InitialLoaded
  \/ SyncAdds \/ SyncLoads \/ SyncLeavesOut

Spec == Init /\ [][Next]_vars

(***************************************************************************)
(* The server answers, and so does the client's own code; somebody who     *)
(* stays at the top of the timeline keeps asking for what is older.        *)
(***************************************************************************)
Step(l) == \/ GotContext(l) \/ Paginated(l) \/ LoadedToEvent(l)
           \/ \E d \in Dirs : Page(l, d)
FairSpec == /\ Spec
            /\ WF_vars(LoadPrevious) /\ WF_vars(Step("previous"))

-----------------------------------------------------------------------------
Quiet == \A l \in Loads : load[l].pc = "idle"

\* Edits that this client was given are shown (applyEdits), in whatever order
\* pages, jumps and sliding sync brought the edit and the event it edits: once
\* nothing is under way, a loaded event shows the latest edit of it.
EditsShown ==
  Quiet /\ faults = 0 =>
    \A t \in loaded : shown[t] = Newest(Of({"edit"}, t, received))

\* The moderation of a message that is in view is never forgotten or replaced
\* by an older one, whatever cleanupHideMessageEvents throws away meanwhile.
ModerationKept == [][\A t \in loaded \cap loaded' : hide'[t] >= hide[t]]_vars

\* Whoever keeps scrolling up (loadPrevious) gets to the oldest message, unless a
\* request fails and the room is not opened anew, and as long
\* as no run of events that are not shown is longer than one request looks at,
\* and nothing else loads or trims the timeline any more.
OldestReached ==
  <>[](/\ opened /\ loaded # {}
       /\ \A l \in Loads \ {"previous"} : load[l].pc = "idle")
  => <>[](\/ OldestMessageLoaded \/ Min(Visible(1 .. sent)) \in loaded
          \/ load["previous"].pc = "stuck")

\* "Is the oldest message in the room loaded in the timeline?"
\* (isOldestMessageLoaded): what it answers when nothing is under way.
OldestClaim ==
  Quiet /\ OldestMessageLoaded => Min(Visible(1 .. sent)) \in loaded

\* "Returns whether a moderator has hidden this event" (getHideState).
HiddenStaysHidden ==
  Quiet /\ faults = 0 =>
    \A t \in loaded : hide[t] = Newest(Of({"hide", "unhide"}, t, received))
=============================================================================
