--------------------------------- MODULE Search ---------------------------------
(***************************************************************************)
(* Searching a room (RoomSearch.vue, useSidebar.ts).  A search first shows    *)
(* what the loaded timeline has, then what the server finds, in batches, each *)
(* of which replaces what is shown by all that was found so far.  A search    *)
(* goes on when another is begun, when the term is cleared, when the panel is *)
(* closed and when the room changes; what it finds is kept outside the panel. *)
(***************************************************************************)
EXTENDS Naturals, FiniteSets

CONSTANTS SearchRooms, Terms,
          MaxSearches, MaxBatches, MaxMoves, MaxFaults \* bounds

NoTerm == "no term"
NoResults == [by |-> 0, term |-> NoTerm, batches |-> 0, whole |-> FALSE]

VARIABLES
  room,          \* the room whose page is shown
  mount,         \* how often the panel was opened; odd while it is
  searchTerm, searchResults, searched, isSearching, \* shared by all panels
  moreBatches,   \* isLoadingMoreBatches of the panel
  runs,          \* calls of search under way
  failed,        \* history: searches that failed
  searches, moves, faults

sharedVars == <<searchTerm, searchResults, searched, isSearching>>
searchVars == <<room, mount, sharedVars, moreBatches, runs, failed, searches, moves, faults>>

Run == [by : 1 .. MaxSearches, room : SearchRooms, mount : Nat, batches : 0 .. MaxBatches]
Shown == mount % 2 = 1

SearchTypeOK ==
  /\ room \in SearchRooms /\ mount \in Nat /\ searchTerm \in Terms \cup {NoTerm}
  /\ searchResults \in [by : 0 .. MaxSearches, term : Terms \cup {NoTerm}, batches : 0 .. MaxBatches, whole : BOOLEAN]
  /\ searched \in BOOLEAN /\ isSearching \in BOOLEAN /\ moreBatches \in BOOLEAN
  /\ runs \subseteq Run /\ \A q, r \in runs : q.by = r.by => q = r
  /\ failed \subseteq 1 .. MaxSearches /\ searches \in 0 .. MaxSearches

SearchInit ==
  /\ room \in SearchRooms /\ mount = 0
  /\ searchTerm = NoTerm /\ searchResults = NoResults /\ searched = FALSE /\ isSearching = FALSE
  /\ moreBatches = FALSE /\ runs = {} /\ failed = {} /\ searches = 0 /\ moves = 0 /\ faults = 0

-----------------------------------------------------------------------------
(* The panel.                                                               *)

StateCleared ==
  searchTerm' = NoTerm /\ searchResults' = NoResults /\ searched' = FALSE /\ isSearching' = FALSE

Move == moves < MaxMoves /\ moves' = moves + 1

\* What it keeps to itself starts anew.
OpenTab ==
  /\ ~Shown /\ Move /\ mount' = mount + 1 /\ moreBatches' = FALSE
  /\ UNCHANGED <<room, sharedVars, runs, failed, searches, faults>>
\* For a thread what was found is kept, for other tabs of a room's page it is not.
CloseTab ==
  /\ Shown /\ mount' = mount + 1 /\ (UNCHANGED sharedVars \/ StateCleared)
  /\ UNCHANGED <<room, moreBatches, runs, failed, searches, moves, faults>>

\* clearSearch: whether a search is under way it leaves as it is.
Cleared ==
  searchTerm' = NoTerm /\ searchResults' = NoResults /\ searched' = FALSE /\ UNCHANGED isSearching
ClearSearch ==
  /\ Shown /\ searchTerm # NoTerm /\ Cleared /\ moreBatches' = FALSE
  /\ UNCHANGED <<room, mount, runs, failed, searches, moves, faults>>

Type(t) ==
  /\ Shown /\ t # searchTerm /\ Move /\ searchTerm' = t
  /\ UNCHANGED <<room, mount, searchResults, searched, isSearching, moreBatches, runs, failed, searches, faults>>

\* On a small screen, or over a thread, the sidebar closes and with it goes what
\* is shared; else the panel stays, and clears it but for one thing.
GoTo(r) ==
  /\ r # room /\ Move /\ room' = r
  /\ \/ StateCleared /\ mount' = (IF Shown THEN mount + 1 ELSE mount) /\ UNCHANGED moreBatches
     \/ Shown /\ Cleared /\ moreBatches' = FALSE /\ UNCHANGED mount
  /\ UNCHANGED <<runs, failed, searches, faults>>

-----------------------------------------------------------------------------
(* search.                                                                  *)

\* The loaded timeline has something, or nothing.
Begin ==
  /\ Shown /\ searchTerm # NoTerm /\ searches < MaxSearches /\ searches' = searches + 1
  /\ searchResults' \in {NoResults, [by |-> searches', term |-> searchTerm, batches |-> 0, whole |-> FALSE]}
  /\ searched' = TRUE /\ isSearching' = TRUE /\ moreBatches' = FALSE
  /\ runs' = runs \cup {[by |-> searches', room |-> room, mount |-> mount, batches |-> 0]}
  /\ UNCHANGED <<room, mount, searchTerm, failed, moves, faults>>

\* The flag of the panel that the search was begun in.
Tells(r, b) == moreBatches' = IF r.mount = mount THEN b ELSE moreBatches

\* slip: the batch after the first is taken for the last
OneMore(r, next) == next /\ r.batches < 1
More(r, next) == next

\* A batch comes in, with word of whether there is a next one.  The words
\* around what was found are picked by the term that is typed by now.
Batch(r, next) ==
  /\ r.batches < MaxBatches /\ (next => r.batches + 1 < MaxBatches)
  /\ searchResults' = [by |-> r.by, term |-> searchTerm, batches |-> r.batches + 1, whole |-> ~next]
  /\ isSearching' = IF r.batches = 0 THEN FALSE ELSE isSearching
  /\ IF More(r, next)
     THEN runs' = (runs \ {r}) \cup {[r EXCEPT !.batches = @ + 1]} /\ Tells(r, TRUE)
     ELSE runs' = runs \ {r} /\ IF r.batches = 0 THEN UNCHANGED moreBatches ELSE Tells(r, FALSE)
  /\ UNCHANGED <<room, mount, searchTerm, searched, failed, searches, moves, faults>>

\* The server finds nothing.
NothingFound(r) ==
  /\ r.batches = 0 /\ searchResults' = NoResults /\ isSearching' = FALSE /\ runs' = runs \ {r}
  /\ UNCHANGED <<room, mount, searchTerm, searched, moreBatches, failed, searches, moves, faults>>

Fails(r) ==
  /\ faults < MaxFaults /\ faults' = faults + 1
  /\ failed' = failed \cup {r.by} /\ runs' = runs \ {r} /\ isSearching' = FALSE /\ Tells(r, FALSE)
  /\ UNCHANGED <<room, mount, searchTerm, searchResults, searched, searches, moves>>

SearchNext ==
  \/ OpenTab \/ CloseTab \/ ClearSearch \/ Begin
  \/ \E t \in Terms : Type(t)
  \/ \E r \in SearchRooms : GoTo(r)
  \/ \E r \in runs : (\E next \in BOOLEAN : Batch(r, next)) \/ NothingFound(r) \/ Fails(r)

SearchSpec == SearchInit /\ [][SearchNext]_searchVars

-----------------------------------------------------------------------------
\* When no search is under way none is announced, however many overlapped and
\* whatever failed, was cleared or was left; and what is shown then is all that the
\* search it is from has found, unless that failed.
SearchEnds ==
  runs = {} =>
    /\ ~isSearching /\ (Shown => ~moreBatches)
    /\ searchResults.by \notin failed \cup {0} => searchResults.whole
=============================================================================
