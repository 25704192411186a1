------------------------------- MODULE Threads -------------------------------
(***************************************************************************)
(* The threads of a room in the hub client: RoomThread.ts holds the replies *)
(* to one message, Room.ts feeds it from sliding sync, RoomThread.vue is    *)
(* the panel that shows the open thread, rooms.ts has the counts that the   *)
(* bubbles show.  Replies are numbered in the order in which the hub has    *)
(* them.  The Matrix SDK keeps the replies it was told of, and takes a      *)
(* deleted one out of its thread, after RoomThread.ts has looked.           *)
(* The listener that setMatrixThread puts on a thread is called without its *)
(* object, and does nothing.                                                *)
(***************************************************************************)
EXTENDS Integers, Sequences, FiniteSets, FiniteSetsExt

CONSTANTS Threads,    \* messages that are replied to
          PageSize,   \* replies in a page of relations
          SyncLimit,  \* events that a response of sliding sync has at most
          Earlier,    \* replies to each that the client is not told of by sliding sync
          MaxReplies, \* bound on the replies
          MaxDeleted, \* bound on the deletions
          MaxMoves,   \* bound on opening, closing and reloading
          MaxFailed   \* bound on failing requests

NoThread == "none"

VARIABLES
  posted, deleted, byReason, \* at the hub: number of replies; those deleted; by a steward, with a reason
  feed,      \* what sliding sync has still to tell, in order
  lost,      \* history: threads of which sliding sync left something out
  sdk,       \* sdk[t]: whether the SDK has a Thread for t, and its replies
  objs,      \* objs[t]: the TRoomThread objects of t so far
  root,      \* root[t]: the one of the message in the timeline, 0 if it is not there
  fetches,   \* fetchEvents under way, with the page that is asked for
  lengths,   \* threadLengths, -1 if undefined
  currentThreadId, panel,    \* the open thread and what is shown of it
  moves, failed

hubVars   == <<posted, deleted, byReason>>
shownVars == <<currentThreadId, panel>>
threadVars == <<hubVars, feed, lost, sdk, objs, root, fetches, lengths, shownVars, moves, failed>>

Live(t) == 1 .. posted[t] \ deleted[t]

\* A fresh TRoomThread; count is what the hub bundles with the message.
Fresh(t) == [set |-> sdk[t].made, eventsFetched |-> FALSE, redactedEvents |-> {}, count |-> Cardinality(Live(t))]

ThreadsTypeOK ==
  /\ \A t \in Threads :
       /\ posted[t] \in Nat /\ byReason[t] \subseteq deleted[t] /\ deleted[t] \subseteq 1 .. posted[t]
       /\ sdk[t].made \in BOOLEAN /\ sdk[t].held \subseteq 1 .. posted[t]
       /\ root[t] \in 0 .. Len(objs[t]) /\ lengths[t] \in -1 .. posted[t]
       /\ \A i \in DOMAIN objs[t] : objs[t][i].redactedEvents \subseteq deleted[t]
  /\ \A k \in DOMAIN feed : feed[k].thread \in Threads /\ feed[k].kind \in {"reply", "thread", "reason"}
  /\ \A f \in fetches : f.thread \in Threads /\ f.obj \in DOMAIN objs[f.thread] /\ f.more \in BOOLEAN
  /\ lost \subseteq Threads /\ currentThreadId \in Threads \cup {NoThread}
  /\ currentThreadId = NoThread => panel = {}

ThreadsInit ==
  /\ posted = [t \in Threads |-> Earlier]
  /\ deleted = [t \in Threads |-> {}] /\ byReason = [t \in Threads |-> {}]
  /\ feed = <<>> /\ lost = {} /\ sdk = [t \in Threads |-> [made |-> FALSE, held |-> {}]]
  /\ objs = [t \in Threads |-> <<>>] /\ root = [t \in Threads |-> 0]
  /\ fetches = {} /\ lengths = [t \in Threads |-> -1]
  /\ currentThreadId = NoThread /\ panel = {} /\ moves = 0 /\ failed = 0

-----------------------------------------------------------------------------
(* The hub.                                                                *)

Tell(kind, t, n) == feed' = Append(feed, [kind |-> kind, thread |-> t, n |-> n])

Post(t) ==
  /\ MapThenSumSet(LAMBDA u : posted[u], Threads) < MaxReplies
  /\ posted' = [posted EXCEPT ![t] = @ + 1] /\ Tell("reply", t, posted'[t])
  /\ UNCHANGED <<deleted, byReason, lost, sdk, objs, root, fetches, lengths, shownVars, moves, failed>>

Reason(custom) == IF custom THEN "reason" ELSE "thread"
Redact(t, n, custom) ==
  /\ deleted' = [deleted EXCEPT ![t] = @ \cup {n}]
  /\ byReason' = IF custom THEN [byReason EXCEPT ![t] = @ \cup {n}] ELSE byReason
  /\ Tell(Reason(custom), t, n)

\* Somebody deletes a reply of his own, or a steward one of somebody else, who
\* has to give a reason, which takes the place of the one for threads.
DeleteThreadMessage(t, n) ==
  /\ n \in Live(t) /\ MapThenSumSet(LAMBDA u : Cardinality(deleted[u]), Threads) < MaxDeleted
  /\ \E custom \in BOOLEAN : Redact(t, n, custom)
  /\ UNCHANGED <<posted, lost, sdk, objs, root, fetches, lengths, shownVars, moves, failed>>

\* A page of relations: the newest replies before a given one that are left.
Request(run, t, i, before) ==
  LET left == {n \in Live(t) : n < before}
      page == {n \in left : Cardinality({m \in left : m > n}) < PageSize}
  IN [run |-> run, thread |-> t, obj |-> i, page |-> page, more |-> page # left]

-----------------------------------------------------------------------------
(* TRoomThread.                                                            *)

\* What getEvents returns; it sets the length too.
Events(held, obj) == held \ obj.redactedEvents

\* Starts fetchEvents of the object of each thread in which, unless all of the
\* thread was fetched; runs of fetchEvents are not kept from overlapping.
FreeRun == CHOOSE k \in 1 .. Cardinality(fetches) + 1 : \A f \in fetches : f.run # k
Fetching(which, o, r) ==
  {Request(FreeRun, t, r[t], posted[t] + 1) : t \in {u \in which : ~o[u][r[u]].eventsFetched}}

\* Lengths once the objects of the threads in which have counted their events.
Counted(which, s, o, r) ==
  [t \in Threads |-> IF t \in which THEN Cardinality(Events(s[t].held, o[t][r[t]])) ELSE lengths[t]]

\* The open panel reads its thread again: getThreadEvents of RoomThread.vue.
\* A message that is not in the timeline has no thread.
HasThread(t) == t # NoThread /\ root'[t] # 0 /\ objs'[t][root'[t]].set
Reread(counts) ==
  LET t == currentThreadId' IN
  IF HasThread(t)
  THEN /\ panel' = Events(sdk'[t].held, objs'[t][root'[t]])
       /\ lengths' = [counts EXCEPT ![t] = Cardinality(panel')]
  ELSE panel' = {} /\ lengths' = counts

\* slip: the first page is taken for all of them
FirstPageOnly(f) == FALSE
More(f) == f.more

\* A page arrives.  After the last one the object counts, and tells the room.
FetchEvents(f) ==
  LET t == f.thread IN
  /\ f \in fetches /\ UNCHANGED <<hubVars, feed, lost, root, currentThreadId, moves, failed>>
  /\ sdk' = [sdk EXCEPT ![t].held = @ \cup f.page]
  /\ IF More(f)
     THEN /\ fetches' = (fetches \ {f}) \cup {Request(f.run, t, f.obj, Min(f.page))}
          /\ UNCHANGED <<objs, lengths, panel>>
     ELSE /\ fetches' = fetches \ {f}
          /\ objs' = [objs EXCEPT ![t][f.obj].eventsFetched = TRUE]
          /\ Reread([lengths EXCEPT ![t] = Cardinality(Events(sdk'[t].held, objs[t][f.obj]))])

\* The error is swallowed, and nothing asks again.
FetchFails(f) ==
  /\ f \in fetches /\ fetches' = fetches \ {f}
  /\ failed < MaxFailed /\ failed' = failed + 1
  /\ UNCHANGED <<hubVars, feed, lost, sdk, objs, root, lengths, shownVars, moves>>

-----------------------------------------------------------------------------
(* Sliding sync.                                                           *)

\* The first k events that are to be told, in one response; a reply that is
\* deleted by now comes without its content.
Batch(k) == {i \in 1 .. k : i > k - SyncLimit}
Of(batch, kinds, t) == {feed[i].n : i \in {j \in batch : feed[j].kind \in kinds /\ feed[j].thread = t}}
Replies(batch, t) == Of(batch, {"reply"}, t) \ Of(batch, {"thread", "reason"}, t)

\* loadFromSlidingSync: deletions go to the thread that has the reply, replies
\* to the thread if its message is in the timeline, and other threads than the
\* open one get their SDK thread set whether they have one or not.
LoadFromSlidingSync(k) ==
  LET batch == Batch(k)
      touched == {t \in Threads : root[t] # 0 /\ Replies(batch, t) # {}}
      owned == {t \in Threads : /\ root[t] # 0 /\ objs[t][root[t]].set
                                /\ Of(batch, {"thread"}, t) \cap sdk[t].held # {}}
      asking == {t \in touched : t # currentThreadId \/ ~objs[t][root[t]].set}
      toggles == \E t \in Threads : Replies(batch, t) # {} \/ Of(batch, {"thread"}, t) # {}
      counted == Counted(touched \cup owned, sdk', objs', root)
      seeded == [t \in Threads |-> IF counted[t] = -1 /\ root[t] # 0 /\ objs[t][root[t]].count > 0
                                   THEN objs[t][root[t]].count ELSE counted[t]]
  IN
  /\ k \in DOMAIN feed /\ feed' = SubSeq(feed, k + 1, Len(feed))
  /\ lost' = lost \cup {feed[i].thread : i \in (1 .. k) \ batch}
  /\ objs' = [t \in Threads |->
       [i \in DOMAIN objs[t] |->
         IF i # root[t] THEN objs[t][i]
         ELSE [objs[t][i] EXCEPT
                 !.set = @ \/ t \in touched,
                 !.redactedEvents = IF t \in owned THEN @ \cup (Of(batch, {"thread"}, t) \cap sdk[t].held) ELSE @]]]
  /\ sdk' = [t \in Threads |->
       [made |-> sdk[t].made \/ Replies(batch, t) # {},
        held |-> (sdk[t].held \cup Replies(batch, t)) \ Of(batch, {"thread", "reason"}, t)]]
  /\ fetches' = fetches \cup Fetching(asking, objs', root)
  /\ UNCHANGED <<hubVars, root, currentThreadId, moves, failed>>
  /\ IF toggles THEN Reread(seeded) ELSE lengths' = seeded /\ UNCHANGED panel

-----------------------------------------------------------------------------
(* The user.                                                               *)

Move == moves < MaxMoves /\ moves' = moves + 1

\* The thread of a message in the timeline; or of one found by its link or by a
\* search, that could not be loaded.  Only now is a thread asked for that the
\* SDK does not know.
SetCurrentThreadId(t) ==
  LET asks == root[t] # 0 /\ ~objs[t][root[t]].set IN
  /\ Move /\ currentThreadId # t /\ currentThreadId' = t
  /\ IF asks
     THEN /\ objs' = [objs EXCEPT ![t][root[t]].set = TRUE] /\ sdk' = [sdk EXCEPT ![t].made = TRUE]
          /\ fetches' = fetches \cup Fetching({t}, objs', root)
     ELSE UNCHANGED <<objs, sdk, fetches>>
  /\ UNCHANGED <<hubVars, feed, lost, root, failed>>
  /\ Reread(lengths)

CloseThread ==
  /\ currentThreadId # NoThread /\ currentThreadId' = NoThread /\ panel' = {}
  /\ UNCHANGED <<hubVars, feed, lost, sdk, objs, root, fetches, lengths, moves, failed>>

\* The message is read into the timeline, or wrapped anew when it was edited: a
\* new object, which takes the thread that the SDK has.
LoadThread(t) ==
  /\ Move /\ objs' = [objs EXCEPT ![t] = Append(@, Fresh(t))] /\ root' = [root EXCEPT ![t] = Len(objs'[t])]
  /\ fetches' = IF sdk[t].made THEN fetches \cup Fetching({t}, objs', root') ELSE fetches
  /\ UNCHANGED <<hubVars, feed, lost, sdk, lengths, shownVars, failed>>

\* The timeline is read elsewhere.
LeavesTimeline(t) ==
  /\ Move /\ root[t] # 0 /\ root' = [root EXCEPT ![t] = 0]
  /\ UNCHANGED <<hubVars, feed, lost, sdk, objs, fetches, lengths, shownVars, failed>>

ThreadsNext ==
  \/ \E t \in Threads : Post(t) \/ SetCurrentThreadId(t) \/ LoadThread(t) \/ LeavesTimeline(t)
  \/ \E t \in Threads : \E n \in 1 .. posted[t] : DeleteThreadMessage(t, n)
  \/ \E k \in DOMAIN feed : LoadFromSlidingSync(k)
  \/ \E f \in fetches : FetchEvents(f) \/ FetchFails(f)
  \/ CloseThread

ThreadsSpec == ThreadsInit /\ [][ThreadsNext]_threadVars

-----------------------------------------------------------------------------
\* Nothing is under way for the open thread, its object has fetched it, and sliding sync left
\* nothing out.  The last conjunct is about a page that was answered before a
\* reply was deleted, and arrives after that was told.
Settled(t) ==
  /\ currentThreadId = t /\ root[t] # 0 /\ objs[t][root[t]].eventsFetched
  /\ t \notin lost /\ \A f \in fetches : f.thread # t
  /\ \A k \in DOMAIN feed : feed[k].thread # t
  /\ sdk[t].held \cap deleted[t] \subseteq objs[t][root[t]].redactedEvents

\* The open thread has every reply the hub has, however its pages, new replies
\* and deletions came in, and whatever object holds it; a reply that is shown
\* though deleted was deleted by a steward, which is not noticed; and the bubble
\* counts what the panel shows.
ThreadIsWhole ==
  \A t \in Threads : Settled(t) =>
    /\ Live(t) \subseteq panel /\ panel \ Live(t) \subseteq byReason[t]
    /\ lengths[t] = Cardinality(panel)
=============================================================================
