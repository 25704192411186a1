---------------------------- MODULE RoomsProofs ----------------------------
(***************************************************************************)
(* Theorems about the rooms of a hub client, for any numbers of rooms,     *)
(* users and conversations.  For each component an invariant is shown of   *)
(* its own steps; Parts carries it over to the composition.                *)
(***************************************************************************)
EXTENDS MCRooms, Integers, Sequences, SequenceTheorems, FiniteSetTheorems,
        WellFoundedInduction, TLAPS

\* A behaviour that looks at a component starts as it does and takes its steps.
LEMMA Parts ==
  /\ Init =>
       /\ part = "unread" => unread!Init
       /\ part = "entry" => entry!Init
       /\ part = "catalogue" => catalogue!Init
       /\ part = "contacts" => contacts!Init
       /\ part = "threads" => threads!ThreadsInit
       /\ part = "forum" => forum!ForumInit
       /\ part = "experts" => experts!ExpertsInit
  /\ [Next]_vars =>
       /\ part' = part
       /\ part = "unread" => unread!Next \/ UNCHANGED unreadVars
       /\ part = "entry" => entry!Next \/ UNCHANGED entryVars
       /\ part = "catalogue" => catalogue!Next \/ UNCHANGED catalogueVars
       /\ part = "contacts" => contacts!Next \/ UNCHANGED contactsVars
       /\ part = "threads" => threads!ThreadsNext \/ UNCHANGED threadsVars
       /\ part = "forum" => forum!ForumNext \/ UNCHANGED forumVars
       /\ part = "experts" => experts!ExpertsNext \/ UNCHANGED expertsVars
<1>1. ASSUME Init
      PROVE  /\ part = "unread" => unread!Init
             /\ part = "entry" => entry!Init
             /\ part = "catalogue" => catalogue!Init
             /\ part = "contacts" => contacts!Init
             /\ part = "threads" => threads!ThreadsInit
             /\ part = "forum" => forum!ForumInit
             /\ part = "experts" => experts!ExpertsInit
  BY <1>1 DEF Init
<1>2. CASE UNCHANGED vars
  BY <1>1, <1>2 DEF vars
<1>3. CASE Next
  BY <1>1, <1>3 DEF Next, unreadNext, entryNext, catalogueNext, contactsNext, threadsNext,
       forumNext, expertsNext
<1> QED
  BY <1>1, <1>2, <1>3

-----------------------------------------------------------------------------
(* Catalogue: who is in a secured room can disclose what it asks for.      *)

Kinds == {"none", "public", "secured"}
Known == [asks : BOOLEAN, who : SUBSET Users]
FetchState == [by : {"page", "editor", "save"}, got : [CatalogueRooms -> Kinds], has : BOOLEAN]
EditorState ==
  [pc : {"closed", "loading", "reading", "open", "saving", "listing", "stuck"},
   room : CatalogueRooms \cup {NewRoom}, form : SUBSET Users, changed : BOOLEAN, other : BOOLEAN]

\* The directory.  A room that was secured from the start is so in every answer.
DirInv ==
  /\ recent \in BOOLEAN
  /\ publics \in [CatalogueRooms -> Kinds] /\ catalogueShown \in [CatalogueRooms -> Kinds]
  /\ \A r \in CatalogueRooms : catalogueShown[r] \in {"none", publics[r]}
  /\ fetches \in SUBSET FetchState
  /\ \A f \in fetches : ~f.has => f.got = catalogue!Nothing
  /\ \A r \in CatalogueRooms \ {NewRoom} : kind[r] = "secured" =>
       /\ publics[r] \in {"none", "secured"}
       /\ \A f \in fetches : f.has => f.got[r] = "secured"

ServerInv ==
  /\ kind \in [CatalogueRooms -> Kinds]
  /\ policy \in [CatalogueRooms -> SUBSET Users] /\ within \in [CatalogueRooms -> SUBSET Users]
  /\ \A r \in CatalogueRooms : kind[r] = "none" => within[r] = {}

CacheInv ==
  /\ secured \in [CatalogueRooms -> Known] /\ meta \in [CatalogueRooms -> Known]
  /\ metaCalls \in SUBSET [room : CatalogueRooms, said : Known]

\* The editor: without a noted change its form asks for no more than the room.
\* Removals wait only while it is closed.
Waits == {"loading", "reading", "open", "saving", "listing", "stuck"}
EditorInv ==
  /\ editor \in EditorState /\ edits \in 0 .. MaxEdits
  /\ kicks \in SUBSET CatalogueRooms /\ unnoted \in SUBSET CatalogueRooms
  /\ editor.pc = "closed" => editor = catalogue!Closed
  /\ editor.pc \in Waits => kicks = {} /\ editor.room \in CatalogueRooms
  /\ editor.pc \in {"loading", "open"} /\ editor.room = NewRoom => kind[NewRoom] = "none"
  /\ editor.pc = "reading" => editor.room # NewRoom
  /\ editor.pc \in {"loading", "reading"} => ~editor.changed /\ ~editor.other
  /\ editor.room # NewRoom /\ kind[editor.room] = "secured" =>
       /\ editor.pc = "open" /\ ~editor.changed /\ ~editor.other => policy[editor.room] \subseteq editor.form
       /\ editor.pc \in {"open", "saving"} /\ editor.changed => catalogueShown[editor.room] = "secured"

\* The change of a room that is being saved may have a removal to come.
Saving(r) == editor.pc = "saving" /\ editor.room = r /\ r # NewRoom /\ editor.changed
WithinInv ==
  \A r \in CatalogueRooms \ unnoted :
    kind[r] = "secured" /\ ~Saving(r) /\ r \notin kicks => within[r] \subseteq policy[r]

CatalogueInv == DirInv /\ ServerInv /\ CacheInv /\ EditorInv /\ WithinInv

\* A fetch that is begun, or answered with what there is.
LEMMA FetchStep ==
  ASSUME DirInv, NEW by \in {"page", "editor", "save"}, NEW force \in BOOLEAN,
         catalogue!FetchPublicRooms(by, force), UNCHANGED kind
  PROVE  /\ DirInv'
         /\ \A r \in CatalogueRooms : catalogueShown[r] = "secured" => catalogueShown'[r] = "secured"
<1>1. CASE recent /\ ~force
  BY <1>1 DEF catalogue!FetchPublicRooms, DirInv
<1>2. CASE ~(recent /\ ~force)
  <2> DEFINE f == catalogue!Fetch(by, catalogue!Nothing, FALSE)
  <2>1. f \in FetchState /\ ~f.has /\ f.got = catalogue!Nothing
    BY DEF catalogue!Fetch, catalogue!Nothing, FetchState, Kinds
  <2>2. recent' = TRUE /\ fetches' = fetches \cup {f} /\ UNCHANGED <<publics, catalogueShown>>
    BY <1>2 DEF catalogue!FetchPublicRooms
  <2> HIDE DEF f
  <2> QED
    BY <2>1, <2>2 DEF DirInv
<1> QED
  BY <1>1, <1>2

\* Steps that leave the server and the editor alone, and what is shown secured.
LEMMA DirStep ==
  ASSUME CatalogueInv, DirInv', CacheInv',
         UNCHANGED <<kind, policy, within, editor, kicks, unnoted, edits>>,
         \A r \in CatalogueRooms : kind[r] = "secured" /\ r # NewRoom /\ catalogueShown[r] = "secured"
           => catalogueShown'[r] = "secured"
  PROVE  CatalogueInv'
<1>1. ServerInv' /\ WithinInv'
  BY DEF CatalogueInv, ServerInv, WithinInv, Saving
<1>2. EditorInv'
  <2>1. editor.pc \in {"open", "saving"} => editor.room \in CatalogueRooms
    BY DEF CatalogueInv, EditorInv, Waits
  <2> QED
    BY <2>1 DEF CatalogueInv, EditorInv
<1> QED
  BY <1>1, <1>2 DEF CatalogueInv
\* Answers to the fetches of the directory, and what becomes of the editor.
LEMMA AnswerStep ==
  ASSUME CatalogueInv, NEW f \in fetches,
         catalogue!PublicRoomsArrive(f) \/ catalogue!PublicRoomsFail(f)
  PROVE  CatalogueInv'
<1>1. UNCHANGED <<kind, policy, within, recent, secured, meta, metaCalls, kicks, unnoted, edits>>
  BY DEF catalogue!PublicRoomsArrive, catalogue!PublicRoomsFail, catalogue!serverVars, catalogue!metaVars
<1>2. f \in FetchState /\ fetches' = fetches \ {f}
  BY DEF CatalogueInv, DirInv, catalogue!PublicRoomsArrive, catalogue!PublicRoomsFail
<1>3. DirInv'
  <2>1. CASE catalogue!PublicRoomsArrive(f)
    <3>1. publics' = f.got /\ catalogueShown' = f.got /\ f.has
      BY <2>1 DEF catalogue!PublicRoomsArrive
    <3> QED
      BY <1>1, <1>2, <3>1 DEF CatalogueInv, DirInv, FetchState
  <2>2. CASE catalogue!PublicRoomsFail(f)
    BY <1>1, <1>2, <2>2 DEF CatalogueInv, DirInv, catalogue!PublicRoomsFail
  <2> QED
    BY <2>1, <2>2
<1>4. ASSUME NEW r \in CatalogueRooms, r # NewRoom, kind[r] = "secured", catalogueShown[r] = "secured"
      PROVE  catalogueShown'[r] = "secured"
  BY <1>4 DEF CatalogueInv, DirInv, catalogue!PublicRoomsArrive, catalogue!PublicRoomsFail
<1>5. \/ editor' = editor
      \/ editor' = [editor EXCEPT !.pc = "stuck"] /\ editor.pc \in {"loading", "listing"}
      \/ editor.pc = "listing" /\ editor' = catalogue!Closed
      \/ editor.pc = "loading" /\ editor' = [editor EXCEPT !.pc = "reading"] /\ editor.room # NewRoom
      \/ editor.pc = "loading" /\ editor' = [editor EXCEPT !.pc = "open", !.other = editor.room # NewRoom]
  <2>1. editor' = editor \/ catalogue!Answered(f)
    BY DEF catalogue!PublicRoomsArrive, catalogue!PublicRoomsFail
  <2>2. CASE catalogue!Answered(f)
    <3>1. editor.pc \in {"loading", "listing"}
      BY <2>2 DEF catalogue!Answered
    <3> QED
      BY <2>2, <3>1 DEF catalogue!PublicRoomsArrive, catalogue!PublicRoomsFail, catalogue!AfterFetch
  <2> QED
    BY <2>1, <2>2
<1>6. editor \in EditorState
  BY DEF CatalogueInv, EditorInv
<1>7. EditorInv' /\ WithinInv'
  <2>1. CASE editor' = editor
    <3>1. editor.pc \in {"open", "saving"} => editor.room \in CatalogueRooms
      BY DEF CatalogueInv, EditorInv, Waits
    <3> QED
      BY <1>1, <1>4, <2>1, <3>1 DEF CatalogueInv, EditorInv, WithinInv, Saving
  <2>2. CASE editor' = [editor EXCEPT !.pc = "stuck"] /\ editor.pc \in {"loading", "listing"}
    BY <1>1, <1>6, <2>2 DEF CatalogueInv, EditorInv, WithinInv, Saving, EditorState, Waits
  <2>3. CASE editor.pc = "listing" /\ editor' = catalogue!Closed
    BY <1>1, <2>3 DEF CatalogueInv, EditorInv, WithinInv, Saving, EditorState, Waits, catalogue!Closed
  <2>4. CASE editor.pc = "loading" /\ editor' = [editor EXCEPT !.pc = "reading"] /\ editor.room # NewRoom
    BY <1>1, <1>6, <2>4 DEF CatalogueInv, EditorInv, WithinInv, Saving, EditorState, Waits
  <2>5. CASE editor.pc = "loading" /\ editor' = [editor EXCEPT !.pc = "open", !.other = editor.room # NewRoom]
    BY <1>1, <1>6, <2>5 DEF CatalogueInv, EditorInv, WithinInv, Saving, EditorState, Waits
  <2> QED
    BY <1>5, <2>1, <2>2, <2>3, <2>4, <2>5
<1> QED
  BY <1>1, <1>3, <1>7 DEF CatalogueInv, ServerInv, CacheInv

\* A step of the editor that leaves the server, the directory and the removals.
LEMMA FormStep ==
  ASSUME CatalogueInv, NEW e \in EditorState, editor' = e, CacheInv',
         UNCHANGED <<kind, policy, within, recent, publics, catalogueShown, fetches, kicks, unnoted>>,
         edits' \in 0 .. MaxEdits,
         editor.pc # "saving", e.pc # "saving",
         e = catalogue!Closed \/ (e.pc \in Waits \ {"loading"} /\ editor.pc \in Waits /\ e.room = editor.room),
         e.pc = "open" /\ e.room = NewRoom => editor.pc = "open",
         e.pc # "reading",
         e.pc = "open" /\ e.room # NewRoom /\ kind[e.room] = "secured" =>
           /\ ~e.changed /\ ~e.other => policy[e.room] \subseteq e.form
           /\ e.changed => catalogueShown[e.room] = "secured"
  PROVE  CatalogueInv'
<1>1. DirInv' /\ ServerInv'
  BY DEF CatalogueInv, DirInv, ServerInv
<1>2. EditorInv'
  <2>1. CASE e = catalogue!Closed
    BY <2>1 DEF CatalogueInv, EditorInv, catalogue!Closed, Waits
  <2>2. CASE e.pc \in Waits \ {"loading"} /\ editor.pc \in Waits /\ e.room = editor.room
    BY <2>2 DEF CatalogueInv, EditorInv, Waits
  <2> QED
    BY <2>1, <2>2
<1>3. WithinInv'
  BY DEF CatalogueInv, WithinInv, Saving
<1> QED
  BY <1>1, <1>2, <1>3 DEF CatalogueInv

LEMMA EditorStep ==
  ASSUME CatalogueInv,
         \/ catalogue!FillInForm \/ catalogue!EditForm \/ catalogue!CancelEdit \/ catalogue!SubmitFails
  PROVE  CatalogueInv'
<1>1. editor \in EditorState /\ (editor.pc \in Waits => editor.room \in CatalogueRooms)
  BY DEF CatalogueInv, EditorInv
<1>2. CASE catalogue!FillInForm
  <2>1. editor.room \in CatalogueRooms /\ editor.room # NewRoom /\ editor.pc = "reading"
        /\ ~editor.changed /\ ~editor.other
    BY <1>1, <1>2 DEF catalogue!FillInForm, CatalogueInv, EditorInv, Waits
  <2>2. policy[editor.room] \in SUBSET Users
    BY <2>1 DEF CatalogueInv, ServerInv
  <2>3. /\ UNCHANGED <<kind, policy, within, recent, publics, catalogueShown, fetches, kicks, unnoted, edits>>
        /\ UNCHANGED <<meta, metaCalls>>
    BY <1>2 DEF catalogue!FillInForm, catalogue!serverVars, catalogue!dirVars, catalogue!metaVars
  <2>4. edits' \in 0 .. MaxEdits
    BY <2>3 DEF CatalogueInv, EditorInv
  <2>5. CASE kind[editor.room] = "secured"
    <3> DEFINE e == [editor EXCEPT !.pc = "open", !.form = policy[editor.room]]
    <3>1. editor' = e /\ secured' = [secured EXCEPT ![editor.room] = catalogue!Asks(policy[editor.room])]
      BY <1>2, <2>5 DEF catalogue!FillInForm
    <3>2. /\ e \in EditorState /\ e.pc = "open" /\ e.room = editor.room /\ e.form = policy[editor.room]
          /\ ~e.changed
      BY <1>1, <2>1, <2>2 DEF EditorState
    <3>3. CacheInv'
      BY <2>1, <2>2, <2>3, <3>1 DEF CatalogueInv, CacheInv, Known, catalogue!Asks
    <3> HIDE DEF e
    <3> QED
      BY <2>1, <2>3, <2>4, <3>1, <3>2, <3>3, FormStep DEF Waits
  <2>6. CASE kind[editor.room] # "secured"
    <3> DEFINE e == [editor EXCEPT !.pc = "stuck"]
    <3>1. editor' = e /\ UNCHANGED secured
      BY <1>2, <2>6 DEF catalogue!FillInForm
    <3>2. e \in EditorState /\ e.pc = "stuck" /\ e.room = editor.room
      BY <1>1 DEF EditorState
    <3>3. CacheInv'
      BY <2>3, <3>1 DEF CatalogueInv, CacheInv
    <3> HIDE DEF e
    <3> QED
      BY <2>1, <2>3, <2>4, <3>1, <3>2, <3>3, FormStep DEF Waits
  <2> QED
    BY <2>5, <2>6
<1>3. CASE catalogue!EditForm
  <2>1. /\ editor.pc = "open" /\ editor.room \in CatalogueRooms
        /\ editor.room = NewRoom \/ catalogueShown[editor.room] = "secured"
        /\ UNCHANGED <<kind, policy, within, recent, publics, catalogueShown, fetches, kicks, unnoted>>
        /\ UNCHANGED <<secured, meta, metaCalls>>
    BY <1>1, <1>3 DEF catalogue!EditForm, catalogue!serverVars, catalogue!dirVars, catalogue!metaVars,
       catalogue!PublicRoomIsSecure, Waits
  <2>2. edits' \in 0 .. MaxEdits
    BY <1>3, BoundsAssumption DEF catalogue!EditForm, CatalogueInv, EditorInv
  <2>3. CacheInv'
    BY SMTT(30), <2>1 DEF CatalogueInv, CacheInv
  <2>4. PICK S \in SUBSET Users :
          \/ editor' = [editor EXCEPT !.form = S, !.changed = TRUE]
          \/ editor.form \subseteq S /\ editor' = [editor EXCEPT !.form = S]
          \/ editor' = [editor EXCEPT !.form = S, !.other = TRUE]
    BY <1>3 DEF catalogue!EditForm, catalogue!Narrow, catalogue!RemoveAttribute, catalogue!AddUniqueValue,
       catalogue!Relabel
  <2>5. PICK e : e = editor'
    OBVIOUS
  <2>6. /\ e \in EditorState /\ e.pc = "open" /\ e.room = editor.room
        /\ ~e.changed /\ ~e.other => ~editor.changed /\ ~editor.other /\ editor.form \subseteq e.form
    BY <1>1, <2>1, <2>4, <2>5 DEF EditorState
  <2>7. editor.room # NewRoom /\ kind[editor.room] = "secured" /\ ~e.changed /\ ~e.other
          => policy[editor.room] \subseteq e.form
    BY <2>1, <2>6 DEF CatalogueInv, EditorInv
  <2> QED
    BY <2>1, <2>2, <2>3, <2>5, <2>6, <2>7, FormStep DEF Waits
<1>4. CASE catalogue!CancelEdit \/ catalogue!SubmitFails
  <2>1. /\ editor.pc \in {"open", "stuck"} /\ UNCHANGED <<secured, meta, metaCalls, edits>>
        /\ UNCHANGED <<kind, policy, within, recent, publics, catalogueShown, fetches, kicks, unnoted>>
        /\ editor' = catalogue!Closed \/ editor' = [editor EXCEPT !.pc = "stuck"]
    BY <1>4 DEF catalogue!CancelEdit, catalogue!SubmitFails, catalogue!serverVars, catalogue!dirVars,
       catalogue!metaVars
  <2>2. PICK e : e = editor'
    OBVIOUS
  <2>3. /\ e \in EditorState
        /\ \/ e = catalogue!Closed /\ e.pc = "closed"
           \/ e.pc = "stuck" /\ e.room = editor.room
    <3>1. CASE e = catalogue!Closed
      BY <3>1 DEF EditorState, catalogue!Closed
    <3>2. CASE e = [editor EXCEPT !.pc = "stuck"]
      BY <1>1, <3>2 DEF EditorState
    <3> QED
      BY <2>1, <2>2, <3>1, <3>2
  <2>4. CacheInv' /\ edits' \in 0 .. MaxEdits
    BY <2>1 DEF CatalogueInv, CacheInv, EditorInv
  <2> QED
    BY <2>1, <2>2, <2>3, <2>4, FormStep DEF Waits
<1> QED
  BY <1>2, <1>3, <1>4

\* The editor is opened when no removal waits.
LEMMA OpenStep ==
  ASSUME CatalogueInv, NEW r \in CatalogueRooms, catalogue!OpenEditor(r)
  PROVE  CatalogueInv'
<1>1. /\ editor = catalogue!Closed /\ kicks = {} /\ (r = NewRoom => kind[r] = "none")
      /\ catalogue!FetchPublicRooms("editor", FALSE)
      /\ UNCHANGED <<kind, policy, within, secured, meta, metaCalls, kicks, unnoted, edits>>
  BY DEF catalogue!OpenEditor, catalogue!serverVars, catalogue!metaVars
<1>2. /\ DirInv'
      /\ \A q \in CatalogueRooms : catalogueShown[q] = "secured" => catalogueShown'[q] = "secured"
  BY <1>1, FetchStep DEF CatalogueInv
<1> DEFINE e == [catalogue!Closed EXCEPT !.pc = "loading", !.room = r]
<1>3. /\ e \in EditorState /\ e.pc = "loading" /\ e.room = r /\ e.form = {}
      /\ e.changed = FALSE /\ e.other = FALSE
  <2>1. catalogue!Closed \in EditorState
    BY DEF catalogue!Closed, EditorState
  <2>2. catalogue!Closed.form = {} /\ catalogue!Closed.changed = FALSE /\ catalogue!Closed.other = FALSE
    BY DEF catalogue!Closed
  <2> QED
    BY <2>1, <2>2 DEF EditorState
<1>4. \/ editor' = e
      \/ editor' = [e EXCEPT !.pc = "reading"] /\ r # NewRoom
      \/ editor' = [e EXCEPT !.pc = "open", !.other = r # NewRoom]
  <2>1. editor' = IF recent THEN catalogue!AfterFetch(e, publics[r] = "secured") ELSE e
    BY DEF catalogue!OpenEditor
  <2>2. e.pc = "loading" /\ e.room = r
    BY <1>3
  <2> HIDE DEF e
  <2> QED
    BY <2>1, <2>2 DEF catalogue!AfterFetch
<1>5. EditorInv' /\ WithinInv'
  <2> HIDE DEF e
  <2>1. editor.pc = "closed"
    BY <1>1 DEF catalogue!Closed
  <2>2. WithinInv'
    BY <1>1, <1>3, <1>4, <2>1 DEF CatalogueInv, WithinInv, Saving
  <2>3. CASE editor' = e
    BY <1>1, <1>3, <2>2, <2>3 DEF CatalogueInv, EditorInv, EditorState, Waits
  <2>4. CASE editor' = [e EXCEPT !.pc = "reading"] /\ r # NewRoom
    BY <1>1, <1>3, <2>2, <2>4 DEF CatalogueInv, EditorInv, EditorState, Waits
  <2>5. CASE editor' = [e EXCEPT !.pc = "open", !.other = r # NewRoom]
    BY <1>1, <1>3, <2>2, <2>5 DEF CatalogueInv, EditorInv, EditorState, Waits
  <2> QED
    BY <1>4, <2>2, <2>3, <2>4, <2>5
<1> QED
  BY <1>1, <1>2, <1>5 DEF CatalogueInv, ServerInv, CacheInv

\* What is submitted asks for what the form says: without a noted change for no
\* more than the room asked for.
LEMMA SubmitStep ==
  ASSUME CatalogueInv, NEW asSecured \in BOOLEAN, catalogue!Submit(asSecured)
  PROVE  CatalogueInv'
<1> DEFINE r == editor.room  e == [editor EXCEPT !.pc = "saving"]
           k == IF kind[r] # "none" THEN kind[r] ELSE IF asSecured THEN "secured" ELSE "public"
<1>1. /\ editor \in EditorState /\ editor.pc = "open" /\ r \in CatalogueRooms /\ kicks = {}
      /\ r = NewRoom => kind[r] = "none"
      /\ r # NewRoom => kind[r] # "none" /\ asSecured = (catalogueShown[r] = "secured")
  BY DEF catalogue!Submit, catalogue!PublicRoomIsSecure, CatalogueInv, EditorInv, Waits
<1>2. /\ editor' = e /\ kind' = [kind EXCEPT ![r] = k]
      /\ policy' = IF asSecured THEN [policy EXCEPT ![r] = editor.form] ELSE policy
      /\ unnoted' = IF editor.other THEN unnoted \cup {r} ELSE unnoted
      /\ UNCHANGED <<within, recent, publics, catalogueShown, fetches, secured, meta, metaCalls, kicks, edits>>
  BY DEF catalogue!Submit, catalogue!dirVars, catalogue!metaVars
<1>3. /\ e \in EditorState /\ e.pc = "saving" /\ e.room = r /\ e.changed = editor.changed
      /\ e.form = editor.form /\ editor.form \in SUBSET Users
  BY <1>1 DEF EditorState
<1>4. \A q \in CatalogueRooms \ {NewRoom} : kind'[q] = kind[q]
  BY <1>1, <1>2 DEF CatalogueInv, ServerInv
<1>5. k \in Kinds /\ k # "none" /\ (r # NewRoom => k = kind[r])
  BY <1>1 DEF CatalogueInv, ServerInv, Kinds
<1>6. kind'[r] = k /\ (r # NewRoom => kind'[r] = kind[r])
  BY <1>1, <1>2, <1>5 DEF CatalogueInv, ServerInv
<1> HIDE DEF e, k
<1>7. DirInv' /\ CacheInv'
  BY <1>2, <1>4 DEF CatalogueInv, DirInv, CacheInv
<1>8. ServerInv'
  BY <1>1, <1>2, <1>3, <1>5 DEF CatalogueInv, ServerInv
<1>9. EditorInv'
  BY <1>1, <1>2, <1>3, <1>6 DEF CatalogueInv, EditorInv, Waits
<1>10. WithinInv'
  <2> SUFFICES ASSUME NEW q \in CatalogueRooms \ unnoted', kind'[q] = "secured", ~Saving(q)', q \notin kicks'
               PROVE  within'[q] \subseteq policy'[q]
    BY DEF WithinInv
  <2>1. q \notin unnoted /\ within'[q] = within[q] /\ q \notin kicks
    BY <1>2
  <2>2. CASE q # r
    <3>1. kind[q] = "secured" /\ policy'[q] = policy[q]
      BY <1>1, <1>2, <2>2 DEF CatalogueInv, ServerInv
    <3> QED
      BY <1>1, <2>1, <2>2, <3>1 DEF CatalogueInv, WithinInv, Saving
  <2>3. CASE q = r
    <3>1. CASE r = NewRoom
      BY <1>1, <2>1, <2>3, <3>1 DEF CatalogueInv, ServerInv
    <3>2. CASE r # NewRoom
      <4>1. ~editor.changed /\ ~editor.other /\ kind[r] = "secured"
        BY <1>1, <1>2, <1>3, <1>6, <2>3, <3>2 DEF Saving, EditorState
      <4>2. within[r] \subseteq policy[r] /\ policy[r] \subseteq editor.form
        BY <1>1, <2>1, <2>3, <3>2, <4>1 DEF CatalogueInv, EditorInv, WithinInv, Saving
      <4> QED
        BY <1>1, <1>2, <2>1, <2>3, <4>2 DEF CatalogueInv, ServerInv
    <3> QED
      BY <3>1, <3>2
  <2> QED
    BY <2>2, <2>3
<1> QED
  BY <1>7, <1>8, <1>9, <1>10 DEF CatalogueInv

\* A new room is saved, and listed if it is secured.
LEMMA AddedStep ==
  ASSUME CatalogueInv, catalogue!Added
  PROVE  CatalogueInv'
<1>1. /\ editor \in EditorState /\ editor.pc = "saving" /\ editor.room = NewRoom
      /\ NewRoom \in CatalogueRooms /\ kicks = {}
      /\ UNCHANGED <<kind, policy, within, meta, metaCalls, kicks, unnoted, edits>>
  BY DEF catalogue!Added, catalogue!serverVars, catalogue!metaVars, CatalogueInv, EditorInv, Waits
<1>2. ServerInv'
  BY <1>1 DEF CatalogueInv, ServerInv
<1>3. CacheInv'
  <2>1. policy[NewRoom] \in SUBSET Users
    BY <1>1 DEF CatalogueInv, ServerInv
  <2>2. catalogue!Asks(policy[NewRoom]) \in Known
    BY <2>1 DEF Known, catalogue!Asks
  <2>3. secured' = secured \/ secured' = [secured EXCEPT ![NewRoom] = catalogue!Asks(policy[NewRoom])]
    BY DEF catalogue!Added
  <2> QED
    BY <1>1, <2>2, <2>3 DEF CatalogueInv, CacheInv
<1>4. DirInv'
  <2>1. CASE kind[NewRoom] = "secured"
    BY <1>1, <2>1, FetchStep DEF catalogue!Added, CatalogueInv
  <2>2. CASE kind[NewRoom] # "secured"
    BY <1>1, <2>2 DEF catalogue!Added, catalogue!dirVars, CatalogueInv, DirInv
  <2> QED
    BY <2>1, <2>2
<1>5. EditorInv' /\ WithinInv'
  <2>1. CASE editor' = [editor EXCEPT !.pc = "listing"]
    BY <1>1, <2>1 DEF CatalogueInv, EditorInv, EditorState, WithinInv, Saving, Waits
  <2>2. CASE editor' = catalogue!Closed
    BY <1>1, <2>2 DEF CatalogueInv, EditorInv, EditorState, WithinInv, Saving, Waits, catalogue!Closed
  <2> QED
    BY <2>1, <2>2 DEF catalogue!Added
<1> QED
  BY <1>2, <1>3, <1>4, <1>5 DEF CatalogueInv

\* A change that was noted is followed by the removal of all users: the room is
\* among those that are shown as secured, as it was when the form was changed.
LEMMA ChangedStep ==
  ASSUME CatalogueInv, catalogue!ChangeSecuredRoom
  PROVE  CatalogueInv'
<1> DEFINE r == editor.room
<1>1. /\ editor \in EditorState /\ editor.pc = "saving" /\ r # NewRoom /\ r \in CatalogueRooms /\ kicks = {}
      /\ UNCHANGED <<kind, policy, within, recent, publics, catalogueShown, fetches, metaCalls, unnoted, edits>>
      /\ editor' = catalogue!Closed
      /\ kicks' = IF editor.changed /\ catalogueShown[r] = "secured" THEN {r} ELSE {}
  BY DEF catalogue!ChangeSecuredRoom, catalogue!serverVars, catalogue!dirVars, catalogue!Kicks,
     catalogue!PublicRoomIsSecure, CatalogueInv, EditorInv, Waits
<1>2. ServerInv' /\ DirInv'
  BY <1>1 DEF CatalogueInv, ServerInv, DirInv
<1>3. CacheInv'
  <2>1. editor.form \in SUBSET Users
    BY <1>1 DEF EditorState
  <2>2. secured' \in [CatalogueRooms -> Known]
    BY <1>1, <2>1 DEF catalogue!ChangeSecuredRoom, CatalogueInv, CacheInv, Known, catalogue!Asks
  <2>3. meta' \in [CatalogueRooms -> Known]
    BY <1>1 DEF catalogue!ChangeSecuredRoom, CatalogueInv, CacheInv, Known, catalogue!Unknown
  <2> QED
    BY <1>1, <2>2, <2>3 DEF CatalogueInv, CacheInv
<1>4. EditorInv'
  BY <1>1 DEF CatalogueInv, EditorInv, EditorState, Waits, catalogue!Closed
<1>5. WithinInv'
  <2> SUFFICES ASSUME NEW q \in CatalogueRooms \ unnoted, kind[q] = "secured", q \notin kicks'
               PROVE  within[q] \subseteq policy[q]
    BY <1>1 DEF WithinInv
  <2>1. q = r => ~editor.changed
    BY <1>1 DEF CatalogueInv, EditorInv
  <2> QED
    BY <1>1, <2>1 DEF CatalogueInv, WithinInv, Saving
<1> QED
  BY <1>2, <1>3, <1>4, <1>5 DEF CatalogueInv

LEMMA RemoveStep ==
  ASSUME CatalogueInv, NEW r \in CatalogueRooms,
         catalogue!RemoveRoom(r) \/ catalogue!KickUsersFromSecuredRoom(r)
  PROVE  CatalogueInv'
<1>1. CASE catalogue!RemoveRoom(r)
  <2>1. /\ editor = catalogue!Closed /\ UNCHANGED <<recent, publics, fetches, metaCalls, editor, unnoted, edits>>
        /\ kind' = [kind EXCEPT ![r] = "none"] /\ policy' = [policy EXCEPT ![r] = {}]
        /\ within' = [within EXCEPT ![r] = {}]
        /\ catalogueShown' = [catalogueShown EXCEPT ![r] = "none"]
        /\ secured' = [secured EXCEPT ![r] = catalogue!Unknown] /\ meta' = [meta EXCEPT ![r] = catalogue!Unknown]
        /\ kicks \subseteq kicks' /\ kicks' \subseteq kicks \cup {r}
    BY <1>1 DEF catalogue!RemoveRoom
  <2>2. DirInv'
    BY <2>1 DEF CatalogueInv, ServerInv, DirInv, Kinds
  <2>3. ServerInv'
    BY <2>1 DEF CatalogueInv, ServerInv, Kinds
  <2>4. CacheInv'
    BY <2>1 DEF CatalogueInv, CacheInv, Known, catalogue!Unknown
  <2>5. editor.pc = "closed" /\ editor'.pc = "closed"
    BY <2>1 DEF catalogue!Closed
  <2>6. EditorInv'
    BY <2>1, <2>5 DEF CatalogueInv, EditorInv, Waits
  <2>7. WithinInv'
    BY <2>1, <2>5 DEF CatalogueInv, ServerInv, WithinInv, Saving
  <2> QED
    BY <2>2, <2>3, <2>4, <2>6, <2>7 DEF CatalogueInv
<1>2. CASE catalogue!KickUsersFromSecuredRoom(r)
  <2>1. /\ r \in kicks /\ kicks' = kicks \ {r} /\ within' = [within EXCEPT ![r] = {}]
        /\ UNCHANGED <<kind, policy, recent, publics, catalogueShown, fetches, secured, meta, metaCalls, editor,
                       unnoted, edits>>
    BY <1>2 DEF catalogue!KickUsersFromSecuredRoom, catalogue!dirVars, catalogue!metaVars
  <2>2. DirInv' /\ CacheInv' /\ ServerInv'
    BY <2>1 DEF CatalogueInv, ServerInv, DirInv, CacheInv
  <2>3. EditorInv'
    BY <2>1 DEF CatalogueInv, EditorInv, Waits
  <2>4. WithinInv'
    BY <2>1 DEF CatalogueInv, ServerInv, WithinInv, Saving
  <2> QED
    BY <2>2, <2>3, <2>4 DEF CatalogueInv
<1> QED
  BY <1>1, <1>2

LEMMA CatalogueStep == CatalogueInv /\ (catalogue!Next \/ UNCHANGED catalogueVars) => CatalogueInv'
<1> SUFFICES ASSUME CatalogueInv, catalogue!Next \/ UNCHANGED catalogueVars PROVE CatalogueInv'
  OBVIOUS
<1>1. CASE UNCHANGED catalogueVars
  BY <1>1 DEF catalogueVars, CatalogueInv, DirInv, ServerInv, CacheInv, EditorInv, WithinInv, Saving
<1>2. ASSUME NEW r \in CatalogueRooms, NEW u \in Users, catalogue!Enter(u, r) PROVE CatalogueInv'
  <2>1. /\ kind[r] = "secured" /\ u \in policy[r] /\ within' = [within EXCEPT ![r] = @ \cup {u}]
        /\ UNCHANGED <<kind, policy, recent, publics, catalogueShown, fetches, secured, meta, metaCalls, editor,
                       kicks, unnoted, edits>>
    BY <1>2 DEF catalogue!Enter, catalogue!dirVars, catalogue!metaVars
  <2>2. DirInv' /\ CacheInv' /\ EditorInv'
    BY <2>1 DEF CatalogueInv, DirInv, CacheInv, EditorInv
  <2>3. ServerInv'
    BY <2>1 DEF CatalogueInv, ServerInv
  <2>4. WithinInv'
    BY <2>1 DEF CatalogueInv, ServerInv, WithinInv, Saving
  <2> QED
    BY <2>2, <2>3, <2>4 DEF CatalogueInv
<1>3. ASSUME NEW force \in BOOLEAN, catalogue!PageFetches(force) PROVE CatalogueInv'
  <2>1. /\ catalogue!FetchPublicRooms("page", force)
        /\ UNCHANGED <<kind, policy, within, secured, meta, metaCalls, editor, kicks, unnoted, edits>>
    BY <1>3 DEF catalogue!PageFetches, catalogue!serverVars, catalogue!metaVars
  <2>2. /\ DirInv'
        /\ \A r \in CatalogueRooms : catalogueShown[r] = "secured" => catalogueShown'[r] = "secured"
    BY <2>1, FetchStep DEF CatalogueInv
  <2>3. CacheInv'
    BY <2>1 DEF CatalogueInv, CacheInv
  <2> QED
    BY <2>1, <2>2, <2>3, DirStep
<1>4. ASSUME NEW f \in fetches, catalogue!PublicRoomsSaid(f) PROVE CatalogueInv'
  <2> DEFINE g == catalogue!Fetch(f.by, kind, TRUE)
  <2>1. g \in FetchState /\ g.has /\ g.got = kind
    BY DEF catalogue!Fetch, FetchState, CatalogueInv, DirInv, ServerInv
  <2>2. /\ fetches' = (fetches \ {f}) \cup {g}
        /\ UNCHANGED <<kind, policy, within, recent, publics, catalogueShown, secured, meta, metaCalls, editor,
                       kicks, unnoted, edits>>
    BY <1>4 DEF catalogue!PublicRoomsSaid, catalogue!serverVars, catalogue!metaVars
  <2> HIDE DEF g
  <2>3. DirInv'
    BY <2>1, <2>2 DEF CatalogueInv, DirInv
  <2>4. CacheInv'
    BY <2>2 DEF CatalogueInv, CacheInv
  <2> QED
    BY <2>2, <2>3, <2>4, DirStep
<1>5. CASE \/ catalogue!ReloadTimePasses
           \/ \E r \in CatalogueRooms : catalogue!AskMetadata(r)
           \/ \E c \in metaCalls : catalogue!MetadataArrives(c)
  <2>1. UNCHANGED <<kind, policy, within, publics, catalogueShown, fetches, secured, editor,
                    kicks, unnoted, edits>>
    BY <1>5 DEF catalogue!ReloadTimePasses, catalogue!AskMetadata, catalogue!MetadataArrives,
       catalogue!serverVars, catalogue!dirVars, catalogue!metaVars
  <2>2. DirInv'
    BY <1>5, <2>1 DEF CatalogueInv, DirInv, catalogue!ReloadTimePasses, catalogue!AskMetadata,
       catalogue!MetadataArrives, catalogue!dirVars
  <2>3. CacheInv'
    <3>1. CASE catalogue!ReloadTimePasses
      BY <2>1, <3>1 DEF CatalogueInv, CacheInv, catalogue!ReloadTimePasses, catalogue!metaVars
    <3>2. ASSUME NEW r \in CatalogueRooms, catalogue!AskMetadata(r) PROVE CacheInv'
      <4>1. policy[r] \in SUBSET Users
        BY DEF CatalogueInv, ServerInv
      <4>2. catalogue!Asks(policy[r]) \in Known
        BY <4>1 DEF Known, catalogue!Asks
      <4>3. [room |-> r, said |-> catalogue!Asks(policy[r])] \in [room : CatalogueRooms, said : Known]
        BY <4>2
      <4> QED
        BY <2>1, <3>2, <4>3 DEF CatalogueInv, CacheInv, catalogue!AskMetadata
    <3>3. ASSUME NEW c \in metaCalls, catalogue!MetadataArrives(c) PROVE CacheInv'
      BY <2>1, <3>3 DEF CatalogueInv, CacheInv, catalogue!MetadataArrives
    <3> QED
      BY <1>5, <3>1, <3>2, <3>3
  <2> QED
    BY <2>1, <2>2, <2>3, DirStep
<1> QED
  BY <1>1, <1>2, <1>3, <1>4, <1>5, AnswerStep, EditorStep, OpenStep, SubmitStep, AddedStep, ChangedStep,
     RemoveStep DEF catalogue!Next

LEMMA CatalogueStart == catalogue!Init => CatalogueInv
<1> SUFFICES ASSUME catalogue!Init PROVE CatalogueInv
  OBVIOUS
<1>1. DirInv
  BY DEF catalogue!Init, catalogue!Nothing, DirInv, Kinds
<1>2. ServerInv
  BY DEF catalogue!Init, ServerInv, Kinds
<1>3. CacheInv
  BY DEF catalogue!Init, CacheInv, catalogue!Unknown, Known
<1>4. EditorInv
  BY BoundsAssumption DEF catalogue!Init, catalogue!Closed, EditorInv, EditorState, Waits
<1>5. WithinInv
  BY DEF catalogue!Init, WithinInv
<1> QED
  BY <1>1, <1>2, <1>3, <1>4, <1>5 DEF CatalogueInv

LEMMA CatalogueTypes == CatalogueInv => catalogue!TypeOK
<1> SUFFICES ASSUME CatalogueInv PROVE catalogue!TypeOK
  OBVIOUS
<1>1. /\ editor.pc \in {"closed", "loading", "reading", "open", "saving", "listing", "stuck"}
      /\ editor.pc \in {"reading", "open", "saving", "stuck"} => editor.room \in CatalogueRooms
  BY DEF CatalogueInv, EditorInv, EditorState, Waits
<1>2. /\ \A f \in fetches : f.by \in {"page", "editor", "save"} /\ (~f.has => f.got = catalogue!Nothing)
      /\ \A r \in CatalogueRooms : catalogueShown[r] \in {"none", publics[r]}
  BY DEF CatalogueInv, DirInv, FetchState
<1>3. \A c \in {secured, meta} : c \in [CatalogueRooms -> [asks : BOOLEAN, who : SUBSET Users]]
  BY DEF CatalogueInv, CacheInv, Known
<1> QED
  BY <1>1, <1>2, <1>3 DEF catalogue!TypeOK, CatalogueInv, DirInv, ServerInv, CacheInv, EditorInv, Kinds, Known

\* When the editor of a secured room is left and the removal it started is
\* over, everybody in the room can disclose what it now asks for, unless the
\* editor did not note the change (EditRoom.vue, attributeChanged and
\* kickUsersFromSecuredRoom): without a noted change the form asks for no more
\* than the room did, and a noted one was made in a room that was shown as
\* secured, as it still is when it is saved.
THEOREM AdmittedCanDisclose == Spec => []AdmittedSatisfy
<1> DEFINE I == part = "catalogue" => CatalogueInv
<1>1. Init => I
  BY Parts, CatalogueStart
<1>2. I /\ [Next]_vars => I'
  BY Parts, CatalogueStep
<1>3. I => AdmittedSatisfy
  BY DEF CatalogueInv, WithinInv, Saving, AdmittedSatisfy, catalogue!AdmittedSatisfy
<1> QED
  BY <1>1, <1>2, <1>3, PTL DEF Spec

-----------------------------------------------------------------------------
(* Contacts: one room for the direct messages of two people.               *)

\* A set of places in a sequence has a last one.
LEMMA LastPlace ==
  ASSUME NEW n \in Nat, NEW S \in SUBSET (1 .. n), S # {}
  PROVE  \E i \in S : \A j \in S : j <= i
<1> DEFINE R == OpToRel(<, Nat)  U == {b \in Nat : \A j \in S : j <= b}
<1>1. IsWellFoundedOn(R, Nat)
  BY NatLessThanWellFounded
<1>2. U \subseteq Nat /\ n \in U
  OBVIOUS
<1>3. \A x, y \in Nat : y < x => <<y, x>> \in R
  BY DEF OpToRel
<1> HIDE DEF R
<1>4. PICK b \in U : \A y \in U : <<y, b>> \notin R
  <2> HIDE DEF U
  <2> QED
    BY <1>1, <1>2, WFMin
<1>5. b \in S
  <2> SUFFICES ASSUME b \notin S PROVE FALSE
    OBVIOUS
  <2>1. PICK j \in S : j <= b
    OBVIOUS
  <2>2. b \in Nat /\ b # 0 /\ b - 1 \in Nat
    BY <2>1
  <2>3. \A k \in S : k <= b - 1
    BY <2>2
  <2>4. b - 1 \in U /\ b - 1 < b
    BY <2>2, <2>3
  <2> QED
    BY <1>3, <1>4, <2>2, <2>4
<1> QED
  BY <1>5

MemOf == [ContactsUsers -> {"none", "invite", "join", "leave"}]
Conv == [type : Types, mem : MemOf]
Creation == [type : Types, with : SUBSET contacts!Others]
In(i) == contacts!Members(convs[i].mem)
Dm(i) == convs[i].type = "dm"

ConvsInv ==
  /\ convs \in Seq(Conv) /\ contactsView \in Seq(MemOf) /\ Len(contactsView) = Len(convs)
  /\ calls \in SUBSET Creation /\ IsFiniteSet(calls)
  /\ Len(convs) + Cardinality(calls) + changes <= MaxConvs

SideInv ==
  /\ selected \in 0 .. Len(convs) /\ last \in 0 .. Len(convs)
  /\ tab \in {"none", "dm", "newdm"} /\ (tab = "dm" => selected # 0)

RestInv ==
  /\ admins \subseteq contacts!Others /\ setup \in [on : BOOLEAN, ids : SUBSET contacts!Others]
  /\ blind \in BOOLEAN /\ changes \in 0 .. MaxChanges

\* A room for direct messages is of this user and one other, and is created for
\* one other.
PairInv ==
  /\ \A i \in 1 .. Len(convs) : Dm(i) => \E u \in contacts!Others : In(i) \subseteq {Me, u}
  /\ \A c \in calls : c.type = "dm" => \E u \in contacts!Others : c.with = {u}

\* Nobody is in two of them with this user, or in one while another is created.
OnceInv ==
  ~blind =>
    /\ \A i, j \in 1 .. Len(convs) : \A u \in contacts!Others :
         i # j /\ Dm(i) /\ Dm(j) => ~(In(i) = {Me, u} /\ In(j) = {Me, u})
    /\ \A c \in calls : \A i \in 1 .. Len(convs) : c.type = "dm" /\ Dm(i) => In(i) # c.with \cup {Me}

ContactsInv == ConvsInv /\ SideInv /\ RestInv /\ PairInv /\ OnceInv

\* A step in which the users of a conversation become fewer, at most.
LEMMA FewerStep ==
  ASSUME ContactsInv, Len(convs') = Len(convs), UNCHANGED <<calls, blind>>,
         \A i \in 1 .. Len(convs) : /\ convs'[i].type = convs[i].type
                                    /\ Dm(i) => In(i)' \subseteq In(i)
  PROVE  PairInv' /\ OnceInv'
<1>1. \A i \in 1 .. Len(convs) : (Dm(i)' <=> Dm(i)) /\ (Dm(i) => In(i)' \subseteq In(i))
  BY DEF Dm
<1>2. PairInv'
  BY <1>1 DEF ContactsInv, PairInv
<1>3. ASSUME NEW i \in 1 .. Len(convs), NEW u \in contacts!Others, Dm(i), In(i)' = {Me, u}
      PROVE  In(i) = {Me, u}
  <2>1. PICK v \in contacts!Others : In(i) \subseteq {Me, v}
    BY <1>3 DEF ContactsInv, PairInv
  <2> QED
    BY <1>1, <1>3, <2>1 DEF contacts!Others
<1>4. ASSUME NEW c \in calls, NEW i \in 1 .. Len(convs), c.type = "dm", Dm(i), In(i)' = c.with \cup {Me}
      PROVE  In(i) = c.with \cup {Me}
  <2>1. PICK u \in contacts!Others : c.with = {u}
    BY <1>4 DEF ContactsInv, PairInv
  <2> QED
    BY <1>3, <1>4, <2>1
<1>5. OnceInv'
  BY <1>1, <1>3, <1>4 DEF ContactsInv, OnceInv
<1> QED
  BY <1>2, <1>5

\* The memberships of one conversation change.
LEMMA RoomStep ==
  ASSUME ConvsInv, NEW i \in 1 .. Len(convs), NEW m \in MemOf, convs' = [convs EXCEPT ![i].mem = m]
  PROVE  /\ convs' \in Seq(Conv) /\ Len(convs') = Len(convs)
         /\ \A k \in 1 .. Len(convs) :
              convs'[k].type = convs[k].type /\ convs'[k].mem = IF k = i THEN m ELSE convs[k].mem
<1>1. \A k \in 1 .. Len(convs) : convs[k] \in Conv
  BY ElementOfSeq DEF ConvsInv
<1>2. PICK x : x = [convs[i] EXCEPT !.mem = m]
  OBVIOUS
<1>3. x \in Conv /\ x.type = convs[i].type /\ x.mem = m
  BY <1>1, <1>2 DEF Conv
<1>4. convs' = [convs EXCEPT ![i] = x]
  BY <1>2
<1>5. convs \in Seq(Conv) /\ DOMAIN convs = 1 .. Len(convs)
  BY LenProperties DEF ConvsInv
<1>6. convs' \in Seq(Conv) /\ Len(convs') = Len(convs)
  BY <1>3, <1>4, <1>5, ExceptSeq
<1>7. \A k \in 1 .. Len(convs) : convs'[k] = IF k = i THEN x ELSE convs[k]
  BY <1>4, <1>5
<1> QED
  BY <1>3, <1>6, <1>7

\* A step that opens or closes the sidebar leaves it in shape.
LEMMA SideStep ==
  ASSUME SideInv, ConvsInv, Len(convs') \in Nat, Len(convs) <= Len(convs'),
         \/ UNCHANGED <<selected, tab, last>> \/ contacts!Close
         \/ \E i \in 1 .. Len(convs') : contacts!OpenDMRoom(i)
  PROVE  SideInv'
<1>1. Len(convs) \in Nat
  BY LenProperties DEF ConvsInv
<1> QED
  BY <1>1 DEF SideInv, contacts!Close, contacts!OpenDMRoom

LEMMA ContactsCardinality == \A S : contacts!Cardinality(S) = Cardinality(S)
  BY DEF contacts!Cardinality, Cardinality

LEMMA AfterStep ==
  \A k : In(k)' = contacts!Members(convs'[k].mem) /\ (Dm(k)' <=> convs'[k].type = "dm")
  BY DEF In, Dm, contacts!Members

\* A conversation is created only when the client finds none: while it knows of
\* all others there is none.
LEMMA CreateStep ==
  ASSUME ContactsInv, NEW type \in Types, NEW with \in SUBSET contacts!Others,
         type = "dm" => \E u \in contacts!Others : with = {u},
         contacts!CreatePrivateRoomWith(type, with), UNCHANGED <<contactsView, changes>>
  PROVE  ConvsInv' /\ SideInv' /\ PairInv' /\ OnceInv' /\ blind' \in BOOLEAN
<1> DEFINE F == contacts!Found(type, with \cup {Me})  i == contacts!PrivateRoomWithMembers(type, with \cup {Me})
<1>1. Len(convs) \in Nat /\ Len(contactsView) = Len(convs) /\ convs \in Seq(Conv) /\ contactsView \in Seq(MemOf)
  BY LenProperties DEF ContactsInv, ConvsInv
<1>2. F \in SUBSET (1 .. Len(convs))
  BY <1>1 DEF contacts!Found
<1>3. (F = {} => i = 0) /\ (F # {} => i \in F)
  <2>1. F # {} => \E k \in F : \A j \in F : j <= k
    BY <1>1, <1>2, LastPlace
  <2> QED
    BY <2>1 DEF contacts!PrivateRoomWithMembers
<1>4. \A k \in F : convs[k].type = type /\ contacts!Members(contactsView[k]) = with \cup {Me}
  BY DEF contacts!Found
<1> HIDE DEF F, i
<1>5. CASE i # 0 /\ contactsView[i][Me] \in {"join", "invite"}
  <2>1. i \in 1 .. Len(convs) /\ contacts!OpenDMRoom(i) /\ UNCHANGED <<calls, blind>>
    BY <1>2, <1>3, <1>5 DEF contacts!CreatePrivateRoomWith, i
  <2>2. PICK m : m = [convs[i].mem EXCEPT ![Me] = "join"]
    OBVIOUS
  <2>3. \/ UNCHANGED convs
        \/ convs[i].mem[Me] = "invite" /\ convs' = [convs EXCEPT ![i].mem[Me] = "join"]
    BY <1>5 DEF contacts!CreatePrivateRoomWith, i
  <2>4. /\ convs' \in Seq(Conv) /\ Len(convs') = Len(convs)
        /\ \A k \in 1 .. Len(convs) : convs'[k].type = convs[k].type /\ In(k)' \subseteq In(k)
    <3>1. CASE UNCHANGED convs
      BY <1>1, <3>1 DEF In
    <3>2. CASE convs[i].mem[Me] = "invite" /\ convs' = [convs EXCEPT ![i].mem[Me] = "join"]
      <4>1. convs' = [convs EXCEPT ![i].mem = m]
        BY <2>2, <3>2
      <4>2. convs[i].mem \in MemOf
        <5>1. convs[i] \in Conv
          BY <1>1, <2>1, ElementOfSeq
        <5> QED
          BY <5>1 DEF Conv
      <4>3. m \in MemOf /\ contacts!Members(m) = contacts!Members(convs[i].mem)
        BY <2>2, <3>2, <4>2 DEF MemOf, contacts!Members
      <4> QED
        <5>1. ConvsInv
          BY DEF ContactsInv
        <5>2. /\ convs' \in Seq(Conv) /\ Len(convs') = Len(convs)
              /\ \A k \in 1 .. Len(convs) :
                   convs'[k].type = convs[k].type /\ convs'[k].mem = IF k = i THEN m ELSE convs[k].mem
          BY <2>1, <4>1, <4>3, <5>1, RoomStep
        <5>3. \A k \in 1 .. Len(convs) : contacts!Members(convs'[k].mem) = contacts!Members(convs[k].mem)
          BY <4>3, <5>2
        <5> QED
          BY <5>2, <5>3, AfterStep DEF In
    <3> QED
      BY <2>3, <3>1, <3>2
  <2>5. ConvsInv'
    BY <2>1, <2>4 DEF ContactsInv, ConvsInv
  <2>6. SideInv'
    BY <1>1, <2>1, <2>4, SideStep DEF ContactsInv
  <2>7. PairInv' /\ OnceInv'
    BY <2>1, <2>4, FewerStep
  <2> QED
    BY <2>1, <2>5, <2>6, <2>7 DEF ContactsInv, RestInv
<1>6. CASE ~(i # 0 /\ contactsView[i][Me] \in {"join", "invite"})
  <2> DEFINE c == [type |-> type, with |-> with]
  <2>1. /\ contacts!WithinBounds /\ calls' = calls \cup {c} /\ UNCHANGED <<convs, selected, tab, last>>
        /\ blind' = (blind \/ contactsView # [j \in 1 .. Len(convs) |-> convs[j].mem]
                     \/ \E d \in calls : d.type = type /\ d.with = with)
    BY <1>6 DEF contacts!CreatePrivateRoomWith, i, contacts!sideVars
  <2>2. c \in Creation /\ c.type = type /\ c.with = with
    BY DEF Creation
  <2> HIDE DEF c
  <2>3. ConvsInv'
    <3>1. Len(convs) + Cardinality(calls) + changes < MaxConvs
      BY <2>1, ContactsCardinality DEF contacts!WithinBounds
    <3>2. /\ IsFiniteSet(calls) /\ Cardinality(calls) \in Nat /\ IsFiniteSet(calls')
          /\ Cardinality(calls') = Cardinality(calls) \/ Cardinality(calls') = Cardinality(calls) + 1
      BY <2>1, FS_AddElement, FS_CardinalityType DEF ContactsInv, ConvsInv
    <3> QED
      BY <1>1, <2>1, <2>2, <3>1, <3>2, BoundsAssumption DEF ContactsInv, ConvsInv, RestInv
  <2>4. SideInv'
    BY <2>1 DEF ContactsInv, SideInv
  <2>5. PairInv'
    BY <2>1, <2>2 DEF ContactsInv, PairInv, In, Dm
  <2>6. ASSUME ~blind', NEW k \in 1 .. Len(convs), type = "dm", Dm(k) PROVE In(k) # with \cup {Me}
    <3>1. contactsView[k] = convs[k].mem
      BY <2>1, <2>6
    <3>2. F = {}
      <4> SUFFICES ASSUME F # {} PROVE FALSE
        OBVIOUS
      <4>1. i \in F /\ i \in 1 .. Len(convs)
        BY <1>2, <1>3
      <4>2. Me \in contacts!Members(contactsView[i])
        BY <1>4, <4>1
      <4> QED
        BY <1>1, <1>6, <4>1, <4>2 DEF contacts!Members
    <3> QED
      BY <1>1, <2>6, <3>1, <3>2 DEF F, contacts!Found, In, Dm
  <2>7. OnceInv'
    <3>1. \A k : In(k)' = In(k) /\ (Dm(k)' <=> Dm(k))
      BY <2>1 DEF In, Dm
    <3>2. ~blind' => ~blind
      BY <2>1
    <3>3. ASSUME ~blind', NEW d \in calls', NEW k \in 1 .. Len(convs), d.type = "dm", Dm(k)
          PROVE  In(k) # d.with \cup {Me}
      <4>1. CASE d = c
        BY <2>2, <2>6, <3>3, <4>1
      <4>2. CASE d \in calls
        BY <3>2, <3>3, <4>2 DEF ContactsInv, OnceInv
      <4> QED
        BY <2>1, <3>3, <4>1, <4>2
    <3> QED
      BY <2>1, <3>1, <3>2, <3>3 DEF ContactsInv, OnceInv
  <2>8. blind' \in BOOLEAN
    BY <2>1 DEF ContactsInv, RestInv
  <2> QED
    BY <2>3, <2>4, <2>5, <2>7, <2>8
<1> QED
  BY <1>5, <1>6

\* A new room: that of a creation, or one to which this user is invited.
LEMMA AppendStep ==
  ASSUME ContactsInv, NEW x \in Conv, convs' = Append(convs, x),
         contactsView' = Append(contactsView, contacts!Nobody)
  PROVE  /\ convs' \in Seq(Conv) /\ contactsView' \in Seq(MemOf)
         /\ Len(convs) \in Nat /\ Len(convs') = Len(convs) + 1 /\ Len(contactsView') = Len(convs')
         /\ \A k \in 1 .. Len(convs) : convs'[k] = convs[k]
         /\ convs'[Len(convs')] = x
<1>1. contacts!Nobody \in MemOf
  BY DEF contacts!Nobody, MemOf
<1> QED
  BY <1>1, AppendProperties, LenProperties DEF ContactsInv, ConvsInv

LEMMA NewRoomStep ==
  ASSUME ContactsInv, NEW x \in Conv, convs' = Append(convs, x),
         contactsView' = Append(contactsView, contacts!Nobody), UNCHANGED blind, calls' \subseteq calls,
         x.type = "dm" => \E u \in contacts!Others : contacts!Members(x.mem) = {Me, u},
         ~blind /\ x.type = "dm" =>
           \A i \in 1 .. Len(convs) : Dm(i) => In(i) # contacts!Members(x.mem),
         ~blind /\ x.type = "dm" =>
           \A c \in calls' : c.type = "dm" => contacts!Members(x.mem) # c.with \cup {Me}
  PROVE  PairInv' /\ OnceInv'
<1>0. PICK n : n = Len(convs')
  OBVIOUS
<1>1. /\ Len(convs) \in Nat /\ n = Len(convs) + 1
      /\ \A k \in 1 .. Len(convs) : convs'[k] = convs[k]
      /\ convs'[n] = x
  BY <1>0, AppendStep
<1>2. /\ \A k \in 1 .. Len(convs) : In(k)' = In(k) /\ (Dm(k)' <=> Dm(k))
      /\ In(n)' = contacts!Members(x.mem) /\ (Dm(n)' <=> x.type = "dm")
  BY <1>1, AfterStep DEF In, Dm
<1>3. \A k \in 1 .. n : k = n \/ k \in 1 .. Len(convs)
  BY <1>1
<1>4. PairInv'
  <2>1. \A k \in 1 .. n : Dm(k)' => \E u \in contacts!Others : In(k)' \subseteq {Me, u}
    BY <1>2, <1>3 DEF ContactsInv, PairInv
  <2> QED
    BY <1>0, <2>1 DEF ContactsInv, PairInv
<1>5. ASSUME ~blind, NEW i \in 1 .. n, NEW j \in 1 .. n, NEW u \in contacts!Others,
             i # j, Dm(i)', Dm(j)', In(i)' = {Me, u}, In(j)' = {Me, u}
      PROVE  FALSE
  <2>1. CASE i = n
    <3>1. j \in 1 .. Len(convs) /\ In(j) = {Me, u} /\ Dm(j) /\ x.type = "dm" /\ contacts!Members(x.mem) = {Me, u}
      BY <1>2, <1>3, <1>5, <2>1
    <3> QED
      BY <1>5, <3>1
  <2>2. CASE j = n
    <3>1. i \in 1 .. Len(convs) /\ In(i) = {Me, u} /\ Dm(i) /\ x.type = "dm" /\ contacts!Members(x.mem) = {Me, u}
      BY <1>2, <1>3, <1>5, <2>2
    <3> QED
      BY <1>5, <3>1
  <2>3. CASE i \in 1 .. Len(convs) /\ j \in 1 .. Len(convs)
    BY <1>2, <1>5, <2>3 DEF ContactsInv, OnceInv
  <2> QED
    BY <1>3, <2>1, <2>2, <2>3
<1>6. ASSUME ~blind, NEW c \in calls', NEW i \in 1 .. n, c.type = "dm", Dm(i)' PROVE In(i)' # c.with \cup {Me}
  <2>1. CASE i = n
    BY <1>2, <1>6, <2>1
  <2>2. CASE i \in 1 .. Len(convs)
    BY <1>2, <1>6, <2>2 DEF ContactsInv, OnceInv
  <2> QED
    BY <1>3, <2>1, <2>2
<1> QED
  BY <1>0, <1>4, <1>5, <1>6 DEF OnceInv

\* The server creates the room of a creation.
LEMMA CreatedStep ==
  ASSUME ContactsInv, NEW c \in calls, contacts!Created(c)
  PROVE  ContactsInv'
<1>1. PICK x : x = [type |-> c.type,
                    mem |-> [u \in ContactsUsers |-> IF u = Me THEN "join"
                                                     ELSE IF u \in c.with THEN "invite" ELSE "none"]]
  OBVIOUS
<1>2. /\ calls' = calls \ {c} /\ convs' = Append(convs, x)
      /\ contactsView' = Append(contactsView, contacts!Nobody)
      /\ contacts!OpenDMRoom(Len(convs')) \/ UNCHANGED <<selected, tab, last>>
      /\ UNCHANGED <<admins, setup, blind, changes>>
  BY <1>1 DEF contacts!Created, contacts!sideVars
<1>3. c \in Creation
  BY DEF ContactsInv, ConvsInv
<1>4. x \in Conv /\ x.type = c.type /\ contacts!Members(x.mem) = c.with \cup {Me}
  <2>1. x.mem \in MemOf /\ x.type = c.type
    BY <1>1 DEF MemOf
  <2>2. contacts!Members(x.mem) = c.with \cup {Me}
    BY <1>1, <1>3, ContactsAssumption DEF contacts!Members, Creation, contacts!Others
  <2> QED
    BY <1>1, <1>3, <2>1, <2>2 DEF Conv, Creation
<1>5. /\ convs' \in Seq(Conv) /\ contactsView' \in Seq(MemOf)
      /\ Len(convs) \in Nat /\ Len(convs') = Len(convs) + 1 /\ Len(contactsView') = Len(convs')
  BY <1>2, <1>4, AppendStep
<1>6. ConvsInv'
  <2>1. /\ IsFiniteSet(calls) /\ Cardinality(calls) \in Nat /\ IsFiniteSet(calls')
        /\ Cardinality(calls') = Cardinality(calls) - 1
    BY <1>2, FS_RemoveElement, FS_CardinalityType DEF ContactsInv, ConvsInv
  <2> QED
    BY <1>2, <1>5, <2>1 DEF ContactsInv, ConvsInv, RestInv
<1>7. SideInv'
  BY <1>2, <1>5, SideStep DEF ContactsInv
<1>8. c.type = "dm" => \E u \in contacts!Others : contacts!Members(x.mem) = {Me, u}
  BY <1>4 DEF ContactsInv, PairInv
<1>9. ~blind /\ c.type = "dm" =>
        \A i \in 1 .. Len(convs) : Dm(i) => In(i) # contacts!Members(x.mem)
  BY <1>4 DEF ContactsInv, OnceInv
<1>10. ASSUME c.type = "dm", NEW d \in calls', d.type = "dm", contacts!Members(x.mem) = d.with \cup {Me}
       PROVE  FALSE
  <2>1. d \in calls /\ d # c /\ d \in Creation
    BY <1>2 DEF ContactsInv, ConvsInv
  <2>2. (\E u \in contacts!Others : c.with = {u}) /\ (\E u \in contacts!Others : d.with = {u})
    BY <1>10, <2>1 DEF ContactsInv, PairInv
  <2>3. c.with = d.with
    BY <1>4, <1>10, <2>2 DEF contacts!Others
  <2> QED
    BY <1>3, <1>10, <2>1, <2>3 DEF Creation
<1>11. PairInv' /\ OnceInv'
  BY <1>2, <1>4, <1>8, <1>9, <1>10, NewRoomStep
<1> QED
  BY <1>2, <1>6, <1>7, <1>11 DEF ContactsInv, RestInv

\* Another user starts a conversation with this one, when there is none.
LEMMA InvitedStep ==
  ASSUME ContactsInv, NEW u \in contacts!Others, contacts!IsInvited(u)
  PROVE  ContactsInv'
<1>1. PICK x : x = [type |-> "dm", mem |-> [contacts!Nobody EXCEPT ![u] = "join", ![Me] = "invite"]]
  OBVIOUS
<1>2. /\ convs' = Append(convs, x) /\ contactsView' = Append(contactsView, contacts!Nobody)
      /\ contacts!WithinBounds /\ ~contacts!Exists("dm", {u, Me}) /\ \A c \in calls : c.with # {u}
      /\ UNCHANGED <<calls, admins, setup, selected, tab, last, blind, changes>>
  BY <1>1 DEF contacts!IsInvited, contacts!sideVars
<1>3. x \in Conv /\ x.type = "dm" /\ contacts!Members(x.mem) = {Me, u}
  <2>1. PICK m : m = [contacts!Nobody EXCEPT ![u] = "join", ![Me] = "invite"]
    OBVIOUS
  <2>2. m \in MemOf /\ contacts!Members(m) = {Me, u}
    BY <2>1, ContactsAssumption DEF contacts!Nobody, MemOf, contacts!Members, contacts!Others
  <2> QED
    BY <1>1, <2>1, <2>2, ContactsAssumption DEF Conv
<1>4. /\ convs' \in Seq(Conv) /\ contactsView' \in Seq(MemOf)
      /\ Len(convs) \in Nat /\ Len(convs') = Len(convs) + 1 /\ Len(contactsView') = Len(convs')
  BY <1>2, <1>3, AppendStep
<1>5. ConvsInv'
  <2>1. Len(convs) + Cardinality(calls) + changes < MaxConvs /\ Cardinality(calls) \in Nat
    BY <1>2, ContactsCardinality, FS_CardinalityType DEF contacts!WithinBounds, ContactsInv, ConvsInv
  <2> QED
    BY <1>2, <1>4, <2>1, BoundsAssumption DEF ContactsInv, ConvsInv, RestInv
<1>6. SideInv'
  BY <1>2, <1>4, SideStep DEF ContactsInv
<1>7. \A i \in 1 .. Len(convs) : Dm(i) => In(i) # {Me, u}
  BY <1>2 DEF contacts!Exists, In, Dm
<1>8. ASSUME NEW c \in calls, c.type = "dm", {Me, u} = c.with \cup {Me} PROVE FALSE
  <2>1. PICK v \in contacts!Others : c.with = {v}
    BY <1>8 DEF ContactsInv, PairInv
  <2> QED
    BY <1>2, <1>8, <2>1 DEF contacts!Others
<1>9. PairInv' /\ OnceInv'
  BY <1>2, <1>3, <1>7, <1>8, NewRoomStep
<1> QED
  BY <1>2, <1>5, <1>6, <1>9 DEF ContactsInv, RestInv

\* Users accept, decline and leave.
LEMMA LeaveStep ==
  ASSUME ContactsInv, NEW i \in 1 .. Len(convs),
         \/ \E u \in ContactsUsers, m \in {"join", "leave"} : contacts!MemberMoves(i, u, m)
         \/ contacts!LeaveConversation(i)
  PROVE  ContactsInv'
<1>1. convs[i] \in Conv /\ Len(convs) \in Nat /\ ConvsInv
  BY ElementOfSeq, LenProperties DEF ContactsInv, ConvsInv
<1>2. /\ UNCHANGED <<contactsView, admins, calls, setup, blind, changes>>
      /\ UNCHANGED <<selected, tab, last>> \/ contacts!Close
  BY DEF contacts!MemberMoves, contacts!LeaveConversation, contacts!sideVars
<1>3. PICK u \in ContactsUsers, v \in {"join", "leave"} :
        /\ convs' = [convs EXCEPT ![i].mem[u] = v]
        /\ v = "join" => convs[i].mem[u] \in {"invite", "join"}
  BY ContactsAssumption DEF contacts!MemberMoves, contacts!LeaveConversation
<1>4. PICK m : m = [convs[i].mem EXCEPT ![u] = v]
  OBVIOUS
<1>5. m \in MemOf /\ contacts!Members(m) \subseteq contacts!Members(convs[i].mem)
  BY <1>1, <1>3, <1>4 DEF Conv, MemOf, contacts!Members
<1>6. convs' = [convs EXCEPT ![i].mem = m]
  BY <1>3, <1>4
<1>7. /\ convs' \in Seq(Conv) /\ Len(convs') = Len(convs)
      /\ \A k \in 1 .. Len(convs) :
           convs'[k].type = convs[k].type /\ convs'[k].mem = IF k = i THEN m ELSE convs[k].mem
  BY <1>1, <1>5, <1>6, RoomStep
<1>8. \A k \in 1 .. Len(convs) : contacts!Members(convs'[k].mem) \subseteq contacts!Members(convs[k].mem)
  BY <1>5, <1>7
<1>9. PairInv' /\ OnceInv'
  BY <1>2, <1>7, <1>8, AfterStep, FewerStep DEF In
<1>10. ConvsInv'
  BY <1>2, <1>7 DEF ContactsInv, ConvsInv
<1>11. SideInv'
  BY <1>1, <1>2, <1>7, SideStep DEF ContactsInv
<1> QED
  BY <1>2, <1>9, <1>10, <1>11 DEF ContactsInv, RestInv

\* The page, its panel, the administrators that change, and what sync tells.
LEMMA ViewStep ==
  ASSUME ContactsInv,
         \/ contacts!Synced \/ contacts!ToggleNewConversation \/ contacts!OpenPage \/ contacts!FetchAdminIds
         \/ \E S \in SUBSET contacts!Others : contacts!AdminsChange(S)
         \/ \E i \in 1 .. Len(convs) : contacts!OpenConversation(i)
  PROVE  ContactsInv'
<1>1. Len(convs) \in Nat /\ \A k \in 1 .. Len(convs) : convs[k].mem \in MemOf
  <2>1. \A k \in 1 .. Len(convs) : convs[k] \in Conv
    BY ElementOfSeq DEF ContactsInv, ConvsInv
  <2> QED
    BY <2>1, LenProperties DEF Conv, ContactsInv, ConvsInv
<1>2. UNCHANGED <<convs, calls, blind>>
  BY DEF contacts!Synced, contacts!ToggleNewConversation, contacts!OpenPage, contacts!FetchAdminIds,
     contacts!AdminsChange, contacts!OpenConversation, contacts!roomVars
<1>3. PairInv' /\ OnceInv'
  BY <1>1, <1>2, FewerStep, AfterStep DEF In
<1>4. SideInv'
  <2>1. CASE contacts!Synced \/ contacts!FetchAdminIds \/ \E S \in SUBSET contacts!Others : contacts!AdminsChange(S)
    BY <1>2, <2>1 DEF contacts!Synced, contacts!FetchAdminIds, contacts!AdminsChange, contacts!sideVars,
       ContactsInv, SideInv
  <2>2. CASE contacts!ToggleNewConversation \/ \E i \in 1 .. Len(convs) : contacts!OpenConversation(i)
    BY <1>1, <1>2, <2>2 DEF contacts!ToggleNewConversation, contacts!OpenConversation, contacts!Close,
       contacts!OpenDMRoom, ContactsInv, SideInv
  <2>3. CASE contacts!OpenPage
    <3> DEFINE L == contacts!Listed  t == contacts!FindTargetRoom
    <3>1. L \in SUBSET (1 .. Len(convs))
      BY DEF contacts!Listed
    <3>2. L # {} => (CHOOSE i \in L : \A j \in L : j <= i) \in 1 .. Len(convs)
      <4>1. L # {} => \E i \in L : \A j \in L : j <= i
        BY <1>1, <3>1, LastPlace
      <4> QED
        BY <3>1, <4>1
    <3>3. t \in 0 .. Len(convs)
      BY <1>1 DEF contacts!FindTargetRoom, ContactsInv, SideInv
    <3>4. \E i \in 1 .. Len(convs) : contacts!OpenDMRoom(i)
      <4> HIDE DEF L, t
      <4>1. PICK i : i = IF t # 0 \/ L = {} THEN t ELSE CHOOSE k \in L : \A j \in L : j <= k
        OBVIOUS
      <4>2. i # 0 /\ contacts!OpenDMRoom(i)
        BY <2>3, <4>1 DEF contacts!OpenPage, L, t
      <4>3. i \in 1 .. Len(convs)
        BY <1>1, <3>2, <3>3, <4>1, <4>2
      <4> QED
        BY <4>2, <4>3
    <3> QED
      BY <1>1, <1>2, <3>4 DEF contacts!OpenDMRoom, SideInv
  <2> QED
    BY <2>1, <2>2, <2>3
<1>5. /\ changes' \in 0 .. MaxChanges /\ changes \in Nat
      /\ changes' = changes \/ (changes' = changes + 1 /\ contacts!WithinBounds)
  BY BoundsAssumption DEF contacts!Synced, contacts!ToggleNewConversation, contacts!OpenPage,
     contacts!FetchAdminIds, contacts!AdminsChange, contacts!OpenConversation, ContactsInv, RestInv
<1>6. RestInv'
  <2>1. admins' \subseteq contacts!Others
    BY DEF contacts!Synced, contacts!ToggleNewConversation, contacts!OpenPage,
       contacts!FetchAdminIds, contacts!AdminsChange, contacts!OpenConversation, ContactsInv, RestInv
  <2>2. UNCHANGED setup \/ setup' = [on |-> TRUE, ids |-> admins]
    BY DEF contacts!Synced, contacts!ToggleNewConversation, contacts!OpenPage,
       contacts!FetchAdminIds, contacts!AdminsChange, contacts!OpenConversation
  <2>3. setup' \in [on : BOOLEAN, ids : SUBSET contacts!Others]
    <3>1. admins \in SUBSET contacts!Others /\ setup \in [on : BOOLEAN, ids : SUBSET contacts!Others]
      BY DEF ContactsInv, RestInv
    <3>2. [on |-> TRUE, ids |-> admins] \in [on : BOOLEAN, ids : SUBSET contacts!Others]
      BY <3>1
    <3>3. CASE UNCHANGED setup
      BY <3>1, <3>3
    <3>4. CASE setup' = [on |-> TRUE, ids |-> admins]
      BY <3>2, <3>4
    <3> QED
      BY <2>2, <3>3, <3>4
  <2> QED
    BY <1>2, <1>5, <2>1, <2>3 DEF ContactsInv, RestInv
<1>7. contactsView' \in Seq(MemOf) /\ Len(contactsView') = Len(convs)
  <2>1. CASE contacts!Synced
    <3>1. contactsView' = [i \in 1 .. Len(convs) |-> convs[i].mem]
      BY <2>1 DEF contacts!Synced
    <3> QED
      BY <1>1, <3>1, SeqDef, LenProperties
  <2>2. CASE UNCHANGED contactsView
    BY <2>2 DEF ContactsInv, ConvsInv
  <2> QED
    BY <2>1, <2>2 DEF contacts!ToggleNewConversation, contacts!OpenPage,
       contacts!FetchAdminIds, contacts!AdminsChange, contacts!OpenConversation, contacts!roomVars
<1>8. Len(convs) + Cardinality(calls) + changes' <= MaxConvs
  <2>1. Cardinality(calls) \in Nat
    BY FS_CardinalityType DEF ContactsInv, ConvsInv
  <2>2. contacts!WithinBounds => Len(convs) + Cardinality(calls) + changes < MaxConvs
    BY ContactsCardinality DEF contacts!WithinBounds
  <2> QED
    BY <1>1, <1>5, <2>1, <2>2, BoundsAssumption DEF ContactsInv, ConvsInv
<1>9. ConvsInv'
  BY <1>2, <1>7, <1>8 DEF ContactsInv, ConvsInv
<1> QED
  BY <1>3, <1>4, <1>6, <1>9 DEF ContactsInv


\* The administrators are fetched, and their room is found or created.
LEMMA SetUpStep ==
  ASSUME ContactsInv, contacts!SetUpAdminRoom
  PROVE  ContactsInv'
<1> DEFINE A == contacts!AdminRooms  f == contacts!FindAdminContactRoom  ids == setup.ids
<1>1. /\ setup' = contacts!NoSetup /\ UNCHANGED <<contactsView, admins, changes>>
      /\ Len(convs) \in Nat /\ ids \in SUBSET contacts!Others
  BY LenProperties DEF contacts!SetUpAdminRoom, ContactsInv, ConvsInv, RestInv
<1>2. CASE A = {}
  <2>1. contacts!CreatePrivateRoomWith("admin", ids)
    BY <1>2 DEF contacts!SetUpAdminRoom
  <2>2. "admin" \in Types
    BY ContactsAssumption
  <2>3. ConvsInv' /\ SideInv' /\ PairInv' /\ OnceInv' /\ blind' \in BOOLEAN
    <3> HIDE DEF ids
    <3> QED
      BY <1>1, <2>1, <2>2, CreateStep
  <2> QED
    BY <1>1, <2>3 DEF contacts!NoSetup, ContactsInv, RestInv
<1>3. CASE A # {}
  <2>1. /\ contacts!HandleExistingAdminRoom(f, ids) /\ UNCHANGED <<calls, blind>>
        /\ contacts!OpenDMRoom(f) \/ UNCHANGED <<selected, tab, last>>
    BY <1>3 DEF contacts!SetUpAdminRoom, contacts!sideVars
  <2>2. f \in A
    <3>1. A \in SUBSET (1 .. Len(convs))
      BY DEF contacts!AdminRooms
    <3>2. \E i \in A : \A j \in A : j <= i
      <4> HIDE DEF A
      <4> QED
        BY <1>1, <1>3, <3>1, LastPlace
    <3> QED
      BY <3>2 DEF contacts!FindAdminContactRoom
  <2>3. f \in 1 .. Len(convs) /\ ~Dm(f)
    BY <2>2 DEF contacts!AdminRooms, Dm
  <2>4. PICK m : m = [u \in ContactsUsers |->
          CASE u \in contacts!FindNewAdminId(f, ids) /\ convs[f].mem[u] # "join" -> "invite"
            [] u \in contacts!RemoveOldAdminId(f, ids) /\ contactsView[f][u] = "join" /\ convs[f].mem[u] = "join" -> "leave"
            [] OTHER -> convs[f].mem[u]]
    OBVIOUS
  <2>5. convs' = [convs EXCEPT ![f].mem = m]
    <3> HIDE DEF f, ids
    <3> QED
      BY <2>1, <2>4 DEF contacts!HandleExistingAdminRoom
  <2> HIDE DEF f, ids, A
  <2>6. m \in MemOf
    <3>1. convs[f].mem \in MemOf
      <4>1. convs[f] \in Conv
        BY <2>3, ElementOfSeq DEF ContactsInv, ConvsInv
      <4> QED
        BY <4>1 DEF Conv
    <3> QED
      BY <2>4, <3>1 DEF MemOf
  <2>7. /\ convs' \in Seq(Conv) /\ Len(convs') = Len(convs)
        /\ \A k \in 1 .. Len(convs) :
             convs'[k].type = convs[k].type /\ convs'[k].mem = IF k = f THEN m ELSE convs[k].mem
    BY <2>3, <2>5, <2>6, RoomStep DEF ContactsInv
  <2>8. \A k \in 1 .. Len(convs) : Dm(k) => contacts!Members(convs'[k].mem) \subseteq contacts!Members(convs[k].mem)
    BY <2>3, <2>7
  <2>9. PairInv' /\ OnceInv'
    BY <2>1, <2>7, <2>8, AfterStep, FewerStep DEF In
  <2>10. ConvsInv'
    BY <1>1, <2>1, <2>7 DEF ContactsInv, ConvsInv
  <2>11. SideInv'
    BY <1>1, <2>1, <2>3, <2>7, SideStep DEF ContactsInv
  <2> QED
    BY <1>1, <2>1, <2>9, <2>10, <2>11 DEF contacts!NoSetup, ContactsInv, RestInv
<1> QED
  BY <1>2, <1>3

\* A click on a user, on a group, or on the stewards of a room.
LEMMA ConversationStep ==
  ASSUME ContactsInv, NEW type \in Types, NEW with \in SUBSET contacts!Others,
         contacts!StartConversation(type, with)
  PROVE  ContactsInv'
<1>1. /\ contacts!CreatePrivateRoomWith(type, with) /\ UNCHANGED <<contactsView, admins, setup, changes>>
      /\ type = "dm" => contacts!Cardinality(with) = 1
  BY DEF contacts!StartConversation
<1>2. ASSUME type = "dm" PROVE \E u \in contacts!Others : with = {u}
  <2>1. IsFiniteSet(with)
    BY ContactsAssumption, FS_Subset DEF contacts!Others
  <2>2. PICK u : with = {u}
    BY <1>1, <1>2, <2>1, ContactsCardinality, FS_Singleton
  <2> QED
    BY <2>2
<1>3. ConvsInv' /\ SideInv' /\ PairInv' /\ OnceInv' /\ blind' \in BOOLEAN
  BY <1>1, <1>2, CreateStep
<1> QED
  BY <1>1, <1>3 DEF ContactsInv, RestInv

LEMMA ContactsStep ==
  ASSUME ContactsInv, contacts!Next \/ UNCHANGED contactsVars
  PROVE  ContactsInv'
<1>1. CASE UNCHANGED contactsVars
  <2>1. /\ UNCHANGED <<convs, contactsView, admins, calls, setup, selected, tab, last, blind, changes>>
        /\ \A k : In(k)' = In(k) /\ (Dm(k)' <=> Dm(k))
    BY <1>1 DEF contactsVars, In, Dm
  <2>2. ConvsInv' /\ SideInv' /\ RestInv'
    BY <2>1 DEF ContactsInv, ConvsInv, SideInv, RestInv
  <2>3. PairInv' /\ OnceInv'
    BY <2>1 DEF ContactsInv, PairInv, OnceInv
  <2> QED
    BY <2>2, <2>3 DEF ContactsInv
<1>2. CASE contacts!Next
  <2>1. ASSUME NEW i \in 1 .. Len(convs),
               \/ \E u \in ContactsUsers, m \in {"join", "leave"} : contacts!MemberMoves(i, u, m)
               \/ contacts!LeaveConversation(i)
        PROVE  ContactsInv'
    BY <2>1, LeaveStep
  <2>2. ASSUME NEW c \in calls, contacts!Created(c) PROVE ContactsInv'
    BY <2>2, CreatedStep
  <2>3. ASSUME NEW u \in contacts!Others, contacts!IsInvited(u) PROVE ContactsInv'
    BY <2>3, InvitedStep
  <2>4. ASSUME NEW type \in Types, NEW with \in SUBSET contacts!Others, contacts!StartConversation(type, with)
        PROVE  ContactsInv'
    BY <2>4, ConversationStep
  <2>5. ASSUME \/ contacts!Synced \/ contacts!ToggleNewConversation \/ contacts!OpenPage
               \/ contacts!FetchAdminIds
               \/ \E S \in SUBSET contacts!Others : contacts!AdminsChange(S)
               \/ \E i \in 1 .. Len(convs) : contacts!OpenConversation(i)
        PROVE  ContactsInv'
    BY <2>5, ViewStep
  <2>6. ASSUME contacts!SetUpAdminRoom PROVE ContactsInv'
    BY <2>6, SetUpStep
  <2> QED
    BY <1>2, <2>1, <2>2, <2>3, <2>4, <2>5, <2>6 DEF contacts!Next
<1> QED
  BY <1>1, <1>2

LEMMA ContactsStart == contacts!Init => ContactsInv
<1> SUFFICES ASSUME contacts!Init PROVE ContactsInv
  OBVIOUS
<1>1. convs = <<>> /\ contactsView = <<>> /\ calls = {} /\ changes = 0 /\ Len(convs) = 0
  BY EmptySeq DEF contacts!Init
<1>2. ConvsInv
  BY <1>1, EmptySeq, FS_EmptySet, BoundsAssumption DEF ConvsInv
<1>3. SideInv
  BY <1>1 DEF contacts!Init, SideInv
<1>4. RestInv
  <2>1. admins \in SUBSET contacts!Others /\ setup = [on |-> FALSE, ids |-> {}] /\ blind = FALSE
    BY DEF contacts!Init, contacts!NoSetup
  <2>2. setup \in [on : BOOLEAN, ids : SUBSET contacts!Others]
    BY <2>1
  <2>3. changes \in 0 .. MaxChanges
    BY <1>1, BoundsAssumption
  <2>4. admins \subseteq contacts!Others /\ blind \in BOOLEAN
    BY <2>1
  <2> QED
    BY <2>2, <2>3, <2>4 DEF RestInv
<1>5. PairInv /\ OnceInv
  BY <1>1 DEF PairInv, OnceInv
<1> QED
  BY <1>2, <1>3, <1>4, <1>5 DEF ContactsInv

LEMMA ContactsTypes == ContactsInv => contacts!TypeOK
<1> SUFFICES ASSUME ContactsInv PROVE contacts!TypeOK
  OBVIOUS
<1>1. /\ Len(convs) \in Nat /\ Cardinality(calls) \in Nat /\ changes \in Nat
      /\ \A i \in 1 .. Len(convs) : convs[i] \in Conv /\ contactsView[i] \in MemOf
  BY LenProperties, ElementOfSeq, FS_CardinalityType DEF ContactsInv, ConvsInv, RestInv
<1>2. Len(convs) <= MaxConvs
  BY <1>1, BoundsAssumption DEF ContactsInv, ConvsInv
<1> QED
  BY <1>1, <1>2 DEF contacts!TypeOK, ContactsInv, ConvsInv, SideInv, RestInv, Conv, MemOf, Creation

\* A conversation is not started anew while there is one (pubhubs.ts,
\* createPrivateRoomWith): as long as every room was created by a client that
\* knew of all others, no two rooms are for direct messages of the same two
\* people.  A room for direct messages is of two people and never gets more, and
\* there is none of the two for whom one is being created.
THEOREM OneRoomForTwo == Spec => []OneConversation
<1> DEFINE I == part = "contacts" => ContactsInv
<1>1. Init => I
  BY Parts, ContactsStart
<1>2. I /\ [Next]_vars => I'
  BY Parts, ContactsStep
<1>3. I => OneConversation
  <2> SUFFICES ASSUME ContactsInv PROVE contacts!OneConversation
    BY DEF OneConversation
  <2> SUFFICES ASSUME ~blind, NEW i \in 1 .. Len(convs), NEW j \in 1 .. Len(convs),
                      i # j, Dm(i), Dm(j), Me \in In(i), contacts!Cardinality(In(i)) > 1
               PROVE  In(i) # In(j)
    BY DEF contacts!OneConversation, In, Dm
  <2>1. PICK u \in contacts!Others : In(i) \subseteq {Me, u}
    BY DEF ContactsInv, PairInv
  <2>2. In(i) # {Me}
    <3>1. contacts!Cardinality({Me}) = 1
      BY ContactsCardinality, FS_Singleton
    <3> QED
      BY <3>1
  <2>3. In(i) = {Me, u}
    BY <2>1, <2>2
  <2> QED
    BY <2>3 DEF ContactsInv, OnceInv
<1> QED
  BY <1>1, <1>2, <1>3, PTL DEF Spec

-----------------------------------------------------------------------------
(* Unread: what was computed is not lost.                                  *)

\* Infos of rooms, and those that fit what was sent: a room that came to the hub
\* client after its rooms were loaded has none until it has a timeline.
Nats == [vis : Nat, all : Nat]
Infos == [Rooms -> Nats]
Fits ==
  [r \in Rooms |->
    {x \in Nats : /\ x.vis <= Len(history[r]) /\ x.all <= Len(history[r])
                  /\ roomsLoaded /\ r \in joined /\ view[r].got = 0 => x = unread!NoInfo}]
Fitting == {c \in Infos : \A r \in Rooms : c[r] \in Fits[r]}
Asking == [what : {"load"}] \cup [what : {"save"}, info : Fitting]
Saves == {i \in DOMAIN queue : queue[i].what = "save"}

Views == [from : Nat, got : Nat, rcpt : Nat, reach : Nat, opened : BOOLEAN, marker : Nat, seen : SUBSET Nat]
ViewsInv ==
  /\ joined \in SUBSET Rooms /\ listed \in SUBSET joined
  /\ history \in [Rooms -> Seq(unread!Kinds)] /\ receipt \in [Rooms -> Nat] /\ view \in [Rooms -> Views]
  /\ \A r \in Rooms :
       /\ Len(history[r]) <= Horizon /\ receipt[r] <= Len(history[r])
       /\ view[r].from <= view[r].got /\ view[r].got <= Len(history[r])
       /\ view[r].rcpt <= receipt[r] /\ view[r].marker <= view[r].got
       /\ view[r].seen \subseteq 1 .. view[r].got
  /\ \A r \in listed : view[r].got > 0
MarksInv ==
  /\ shown \in [Rooms -> {"read", "unread", "unknown"}] /\ aggregate \in {"read", "unread", "unknown"}
  /\ roomsLoaded \in BOOLEAN /\ dirty \in BOOLEAN /\ tracking \in BOOLEAN /\ saveTimer \in BOOLEAN
  /\ ready \in {"idle", "asked", "ready"} /\ reloads \in 0 .. MaxReloads
  /\ queue # <<>> => ready = "asked"
StoredInv ==
  /\ cache \in Fitting /\ store \in Fitting /\ disk \in Fitting /\ queue \in Seq(Asking)
  /\ learnt \in Infos /\ due \in Infos
  /\ \A r \in Rooms : /\ learnt[r].vis <= Len(history[r]) /\ learnt[r].all <= Len(history[r])
                      /\ due[r].vis <= Len(history[r]) /\ due[r].all <= Len(history[r])

\* The cache has what was computed, and what is to be saved; unless a save is
\* scheduled, the last one that waits has that as well, or else the disk.
KnownInv ==
  /\ \A r \in joined : unread!AtLeast(cache[r], learnt[r]) /\ unread!AtLeast(cache[r], due[r])
  /\ ~saveTimer =>
       /\ Saves = {} => \A r \in joined : unread!AtLeast(disk[r], due[r])
       /\ \A i \in Saves : (\A j \in Saves : j <= i) =>
            \A r \in joined : unread!AtLeast(queue[i].info[r], due[r])

UnreadInv == ViewsInv /\ MarksInv /\ StoredInv /\ KnownInv

LEMMA UnreadMax ==
  ASSUME NEW n \in Nat, NEW S \in SUBSET (0 .. n), S # {}
  PROVE  unread!Max(S) \in S /\ \A e \in S : e <= unread!Max(S)
<1> DEFINE T == {k \in 1 .. n + 1 : k - 1 \in S}
<1>1. PICK e \in S : TRUE
  OBVIOUS
<1>2. e + 1 \in T
  OBVIOUS
<1>3. PICK k \in T : \A j \in T : j <= k
  <2>1. n + 1 \in Nat /\ T \in SUBSET (1 .. n + 1)
    OBVIOUS
  <2> HIDE DEF T
  <2> QED
    BY <1>2, <2>1, LastPlace
<1>4. k - 1 \in S /\ \A f \in S : k - 1 >= f
  <2>1. \A f \in S : f + 1 \in T
    OBVIOUS
  <2>2. ASSUME NEW f \in S PROVE k - 1 >= f
    <3>1. f + 1 <= k
      BY <1>3, <2>1
    <3> QED
      BY <3>1
  <2> QED
    BY <2>2
<1> DEFINE m == unread!Max(S)
<1>5. m \in S /\ \A f \in S : m >= f
  BY <1>4 DEF unread!Max
<1> HIDE DEF m
<1>6. \A f \in S : f <= m
  BY <1>5
<1> QED
  BY <1>5, <1>6 DEF m

\* Merged information is at least both, and no more than that.
LEMMA Merged ==
  ASSUME NEW a \in Nats, NEW b \in Nats
  PROVE  /\ unread!Merge(a, b) \in Nats
         /\ unread!Merge(a, b).vis = IF a.vis >= b.vis THEN a.vis ELSE b.vis
         /\ unread!Merge(a, b).all = IF a.all >= b.all THEN a.all ELSE b.all
<1>1. ASSUME NEW x \in Nat, NEW y \in Nat PROVE unread!Max({x, y}) = IF x >= y THEN x ELSE y
  <2> DEFINE m == IF x >= y THEN x ELSE y
  <2>1. m \in {x, y} /\ \A z \in {x, y} : m >= z
    OBVIOUS
  <2>2. \A w \in {x, y} : (\A z \in {x, y} : w >= z) => w = m
    OBVIOUS
  <2> QED
    BY <2>1, <2>2 DEF unread!Max
<1> QED
  BY <1>1 DEF unread!Merge, Nats

\* What is computed of a room fits its live timeline.
LEMMA ComputedFits ==
  ASSUME NEW r \in Rooms, NEW v \in Views, NEW x
  PROVE  /\ unread!Computed(r, v, x) \in Nats
         /\ unread!Computed(r, v, x).vis <= v.got /\ unread!Computed(r, v, x).all <= v.got
         /\ unread!UnreadState(r, v, x) \in {"read", "unread"}
<1> DEFINE S == unread!Sent(r, v.from, v.got, {"other", "own"})
                  \cup IF v.reach = 0 THEN {} ELSE unread!Sent(r, v.reach, v.got, {"other", "own"})
<1>0. v.got \in Nat /\ v.from \in Nat
  BY DEF Views
<1>1. S \cup {0} \in SUBSET (0 .. v.got) /\ S \cup {0} # {}
  BY <1>0 DEF unread!Sent
<1>2. unread!LastVisible(r, v) = unread!Max(S \cup {0})
  BY DEF unread!LastVisible, unread!Newest
<1> HIDE DEF S
<1>3. unread!LastVisible(r, v) \in 0 .. v.got
  BY <1>0, <1>1, <1>2, UnreadMax
<1>4. unread!UnreadState(r, v, x) \in {"read", "unread"}
  BY DEF unread!UnreadState, unread!ComputeUnreadState
<1> QED
  BY <1>0, <1>3, <1>4 DEF unread!Computed, Nats


\* More is fitting when more was sent and no room lost its timeline.
LEMMA FittingGrows ==
  ASSUME \A r \in Rooms : Len(history[r]) \in Nat /\ Len(history'[r]) \in Nat /\ Len(history[r]) <= Len(history'[r]),
         \A r \in Rooms : roomsLoaded' /\ r \in joined' /\ view'[r].got = 0 =>
           Len(history[r]) = 0 \/ (roomsLoaded /\ r \in joined /\ view[r].got = 0)
  PROVE  Fitting \subseteq Fitting' /\ Asking \subseteq Asking' /\ Seq(Asking) \subseteq Seq(Asking')
<1>1. ASSUME NEW r \in Rooms, NEW x \in Fits[r] PROVE x \in Fits'[r]
  <2>1. x \in Nats /\ x.vis <= Len(history[r]) /\ x.all <= Len(history[r])
    BY DEF Fits
  <2>2. x.vis \in Nat /\ x.all \in Nat
    BY <2>1 DEF Nats
  <2>3. Len(history[r]) = 0 => x = unread!NoInfo
    BY <2>1, <2>2 DEF Nats, unread!NoInfo
  <2>4. roomsLoaded /\ r \in joined /\ view[r].got = 0 => x = unread!NoInfo
    BY DEF Fits
  <2>5. x.vis <= Len(history'[r]) /\ x.all <= Len(history'[r])
    BY <2>1, <2>2
  <2>6. roomsLoaded' /\ r \in joined' /\ view'[r].got = 0 => x = unread!NoInfo
    BY <2>3, <2>4
  <2> QED
    BY <2>1, <2>5, <2>6 DEF Fits
<1>2. Fitting \subseteq Fitting'
  BY <1>1 DEF Fitting
<1>3. Asking \subseteq Asking'
  BY <1>2 DEF Asking
<1>4. Seq(Asking) \subseteq Seq(Asking')
  <2> SUFFICES ASSUME NEW s \in Seq(Asking) PROVE s \in Seq(Asking')
    OBVIOUS
  <2> QED
    BY <1>3
<1> QED
  BY <1>2, <1>3, <1>4

\* updateStoredUnreadInfo only adds to what is known, and schedules a save when
\* there is more to save than was.
LEMMA NotedStep ==
  ASSUME UnreadInv, ViewsInv', \A r \in Rooms : Len(history[r]) <= Len(history'[r]),
         NEW c \in Fitting', \A r \in joined' : unread!AtLeast(c[r], learnt[r]) /\ unread!AtLeast(c[r], due[r]),
         NEW S \in SUBSET Rooms, NEW v, v = view', unread!UpdateStored(S, v, c)
  PROVE  /\ cache' \in Fitting' /\ learnt' \in Infos /\ due' \in Infos /\ saveTimer' \in BOOLEAN
         /\ \A r \in Rooms : /\ learnt'[r].vis <= Len(history'[r]) /\ learnt'[r].all <= Len(history'[r])
                             /\ due'[r].vis <= Len(history'[r]) /\ due'[r].all <= Len(history'[r])
         /\ \A r \in joined' : unread!AtLeast(cache'[r], learnt'[r]) /\ unread!AtLeast(cache'[r], due'[r])
         /\ ~saveTimer' => ~saveTimer /\ due' = due
<1> DEFINE news(r) == unread!Computed(r, v[r], c[r])
           d(r) == unread!Merge(c[r], news(r))
           l(r) == unread!Merge(learnt[r], news(r))
<1>1. ASSUME NEW r \in Rooms
      PROVE  /\ c[r] \in Nats /\ learnt[r] \in Nats /\ due[r] \in Nats /\ news(r) \in Nats
             /\ c[r].vis <= Len(history'[r]) /\ c[r].all <= Len(history'[r])
             /\ news(r).vis <= Len(history'[r]) /\ news(r).all <= Len(history'[r])
             /\ roomsLoaded' /\ r \in joined' /\ view'[r].got = 0 =>
                  c[r] = unread!NoInfo /\ news(r).vis = 0 /\ news(r).all = 0
             /\ learnt[r].vis <= Len(history'[r]) /\ learnt[r].all <= Len(history'[r])
             /\ due[r].vis <= Len(history'[r]) /\ due[r].all <= Len(history'[r])
             /\ Len(history'[r]) \in Nat
  <2>1. v[r] \in Views /\ v[r].got <= Len(history'[r]) /\ Len(history'[r]) \in Nat /\ v[r].got \in Nat /\ v[r] = view'[r]
    BY LenProperties DEF ViewsInv, Views
  <2>2. news(r) \in Nats /\ news(r).vis <= v[r].got /\ news(r).all <= v[r].got
    BY <2>1, ComputedFits
  <2>3. news(r).vis \in Nat /\ news(r).all \in Nat
    BY <2>2 DEF Nats
  <2>4. c[r] \in Nats /\ c[r].vis <= Len(history'[r]) /\ c[r].all <= Len(history'[r])
        /\ (roomsLoaded' /\ r \in joined' /\ view'[r].got = 0 => c[r] = unread!NoInfo)
    BY DEF Fitting, Fits
  <2>5. learnt[r] \in Nats /\ due[r] \in Nats /\ Len(history[r]) \in Nat
    BY LenProperties DEF UnreadInv, StoredInv, Infos, ViewsInv
  <2>6. /\ learnt[r].vis <= Len(history[r]) /\ learnt[r].all <= Len(history[r])
        /\ due[r].vis <= Len(history[r]) /\ due[r].all <= Len(history[r])
    BY DEF UnreadInv, StoredInv
  <2>7. /\ learnt[r].vis <= Len(history'[r]) /\ learnt[r].all <= Len(history'[r])
        /\ due[r].vis <= Len(history'[r]) /\ due[r].all <= Len(history'[r])
    BY SMTT(30), <2>1, <2>5, <2>6 DEF Nats
  <2> HIDE DEF news
  <2>8. news(r).vis <= Len(history'[r]) /\ news(r).all <= Len(history'[r])
    BY <2>1, <2>2, <2>3
  <2>9. view'[r].got = 0 => news(r).vis = 0 /\ news(r).all = 0
    BY <2>1, <2>2, <2>3
  <2> QED
    BY <2>1, <2>2, <2>4, <2>5, <2>7, <2>8, <2>9
<1>2. /\ cache' = [r \in Rooms |-> IF r \in S THEN d(r) ELSE c[r]]
      /\ learnt' = [r \in Rooms |-> IF r \in S THEN l(r) ELSE learnt[r]]
      /\ saveTimer' = (saveTimer \/ \E r \in S : cache'[r] # c[r])
      /\ due' = IF \E r \in S : cache'[r] # c[r] THEN cache' ELSE due
  BY DEF unread!UpdateStored
<1>3. ASSUME NEW r \in Rooms
      PROVE  /\ d(r) \in Nats /\ l(r) \in Nats
             /\ d(r).vis = IF c[r].vis >= news(r).vis THEN c[r].vis ELSE news(r).vis
             /\ d(r).all = IF c[r].all >= news(r).all THEN c[r].all ELSE news(r).all
             /\ l(r).vis = IF learnt[r].vis >= news(r).vis THEN learnt[r].vis ELSE news(r).vis
             /\ l(r).all = IF learnt[r].all >= news(r).all THEN learnt[r].all ELSE news(r).all
  <2> HIDE DEF news
  <2> QED
    BY <1>1, Merged
<1> HIDE DEF d, l, news
<1>4. ASSUME NEW r \in Rooms
      PROVE  /\ cache'[r] \in Nats /\ learnt'[r] \in Nats
             /\ cache'[r].vis <= Len(history'[r]) /\ cache'[r].all <= Len(history'[r])
             /\ learnt'[r].vis <= Len(history'[r]) /\ learnt'[r].all <= Len(history'[r])
             /\ cache'[r].vis >= c[r].vis /\ cache'[r].all >= c[r].all
             /\ r \in joined' => unread!AtLeast(cache'[r], learnt'[r]) /\ unread!AtLeast(cache'[r], due[r])
  <2>1. /\ cache'[r] = IF r \in S THEN d(r) ELSE c[r]
        /\ learnt'[r] = IF r \in S THEN l(r) ELSE learnt[r]
    BY <1>2
  <2>2. /\ c[r].vis \in Nat /\ c[r].all \in Nat /\ learnt[r].vis \in Nat /\ learnt[r].all \in Nat
        /\ news(r).vis \in Nat /\ news(r).all \in Nat /\ due[r].vis \in Nat /\ due[r].all \in Nat
    BY <1>1 DEF Nats
  <2>3. r \in joined' => /\ c[r].vis >= learnt[r].vis /\ c[r].all >= learnt[r].all
                         /\ c[r].vis >= due[r].vis /\ c[r].all >= due[r].all
    BY DEF unread!AtLeast
  <2>4. CASE r \in S
    BY SMTT(30), <1>1, <1>3, <2>1, <2>2, <2>3, <2>4 DEF unread!AtLeast
  <2>5. CASE r \notin S
    BY <1>1, <2>1, <2>2, <2>3, <2>5 DEF unread!AtLeast
  <2> QED
    BY <2>4, <2>5
<1>5. ASSUME NEW r \in Rooms, roomsLoaded', r \in joined', view'[r].got = 0
      PROVE  cache'[r] = unread!NoInfo
  <2>1. c[r] = unread!NoInfo /\ news(r).vis = 0 /\ news(r).all = 0
    BY <1>1, <1>5
  <2>2. c[r].vis = 0 /\ c[r].all = 0
    BY <2>1 DEF unread!NoInfo
  <2>3. d(r).vis = 0 /\ d(r).all = 0
    BY <1>3, <2>1, <2>2
  <2>4. d(r) = unread!NoInfo
    BY <1>3, <2>3 DEF Nats, unread!NoInfo
  <2> QED
    BY <1>2, <2>1, <2>4
<1>6. cache' \in Fitting'
  <2>1. cache' = [r \in Rooms |-> cache'[r]]
    BY <1>2
  <2>2. cache' \in Infos
    BY <1>4, <2>1 DEF Infos
  <2> QED
    BY <1>4, <1>5, <2>2 DEF Fitting, Fits
<1>7. learnt' \in Infos
  BY <1>2, <1>4 DEF Infos
<1>8. CASE \E r \in S : cache'[r] # c[r]
  <2>1. due' = cache' /\ saveTimer' = TRUE
    BY <1>2, <1>8
  <2>2. \A r \in joined' : unread!AtLeast(cache'[r], cache'[r])
    BY <1>4 DEF unread!AtLeast, Nats, ViewsInv
  <2>3. cache' \in Infos
    BY <1>6 DEF Fitting
  <2> QED
    BY <1>4, <1>6, <1>7, <2>1, <2>2, <2>3 DEF ViewsInv
<1>9. CASE ~\E r \in S : cache'[r] # c[r]
  <2>1. due' = due /\ saveTimer' = saveTimer
    BY <1>2, <1>9 DEF UnreadInv, MarksInv
  <2> QED
    BY <1>1, <1>4, <1>6, <1>7, <2>1 DEF ViewsInv, UnreadInv, StoredInv, MarksInv
<1> QED
  BY <1>8, <1>9


\* When nothing is noted and nothing is stored, all that was known stays known.
LEMMA QuietStep ==
  ASSUME UnreadInv, ViewsInv', MarksInv', joined' \subseteq joined, UNCHANGED cache, UNCHANGED <<learnt, due>>, UNCHANGED <<store, queue, disk, saveTimer>>,
         \A r \in Rooms : Len(history[r]) <= Len(history'[r]),
         \A r \in Rooms : roomsLoaded' /\ r \in joined' /\ view'[r].got = 0 =>
           Len(history[r]) = 0 \/ (roomsLoaded /\ r \in joined /\ view[r].got = 0)
  PROVE  UnreadInv'
<1>1. \A r \in Rooms : Len(history[r]) \in Nat /\ Len(history'[r]) \in Nat
  BY LenProperties DEF UnreadInv, ViewsInv
<1>2. Fitting \subseteq Fitting' /\ Seq(Asking) \subseteq Seq(Asking')
  BY ONLY <1>1, FittingGrows, \A r \in Rooms : Len(history[r]) <= Len(history'[r]),
     \A r \in Rooms : roomsLoaded' /\ r \in joined' /\ view'[r].got = 0 =>
       Len(history[r]) = 0 \/ (roomsLoaded /\ r \in joined /\ view[r].got = 0)
<1>3. ASSUME NEW r \in Rooms
      PROVE  /\ learnt[r].vis <= Len(history'[r]) /\ learnt[r].all <= Len(history'[r])
             /\ due[r].vis <= Len(history'[r]) /\ due[r].all <= Len(history'[r])
  <2>1. learnt[r] \in Nats /\ due[r] \in Nats
    BY DEF UnreadInv, StoredInv, Infos
  <2>2. /\ learnt[r].vis \in Nat /\ learnt[r].all \in Nat /\ due[r].vis \in Nat /\ due[r].all \in Nat
    BY <2>1 DEF Nats
  <2>3. /\ learnt[r].vis <= Len(history[r]) /\ learnt[r].all <= Len(history[r])
        /\ due[r].vis <= Len(history[r]) /\ due[r].all <= Len(history[r])
    BY DEF UnreadInv, StoredInv
  <2> QED
    BY SMTT(30), <1>1, <2>2, <2>3
<1>4. StoredInv'
  BY <1>2, <1>3 DEF UnreadInv, StoredInv
<1>5. KnownInv'
  BY DEF UnreadInv, KnownInv, Saves
<1> QED
  BY <1>4, <1>5 DEF UnreadInv

\* What is computed of the rooms of S is noted, and nothing is stored.
LEMMA NotingStep ==
  ASSUME UnreadInv, ViewsInv', joined' \subseteq joined, UNCHANGED <<aggregate, tracking, store, ready, queue, disk, reloads>>,
         roomsLoaded' \in BOOLEAN,
         UNCHANGED history,
         \A r \in Rooms : roomsLoaded' /\ r \in joined' /\ view'[r].got = 0 =>
           Len(history[r]) = 0 \/ (roomsLoaded /\ r \in joined /\ view[r].got = 0),
         NEW S \in SUBSET Rooms, NEW v, v = view', unread!Notify(S, v, cache)
  PROVE  UnreadInv'
<1>1. \A r \in Rooms : Len(history[r]) \in Nat /\ Len(history'[r]) \in Nat /\ Len(history[r]) <= Len(history'[r])
  BY LenProperties DEF UnreadInv, ViewsInv
<1>2. Fitting \subseteq Fitting' /\ Seq(Asking) \subseteq Seq(Asking')
  BY ONLY <1>1, FittingGrows,
     \A r \in Rooms : roomsLoaded' /\ r \in joined' /\ view'[r].got = 0 =>
       Len(history[r]) = 0 \/ (roomsLoaded /\ r \in joined /\ view[r].got = 0)
<1> DEFINE c == cache
<1>3. /\ c \in Fitting' /\ unread!UpdateStored(S, v, c)
      /\ \A r \in joined' : unread!AtLeast(c[r], learnt[r]) /\ unread!AtLeast(c[r], due[r])
  BY <1>2 DEF UnreadInv, StoredInv, KnownInv, unread!Notify
<1>4. /\ cache' \in Fitting' /\ learnt' \in Infos /\ due' \in Infos /\ saveTimer' \in BOOLEAN
      /\ \A r \in Rooms : /\ learnt'[r].vis <= Len(history'[r]) /\ learnt'[r].all <= Len(history'[r])
                          /\ due'[r].vis <= Len(history'[r]) /\ due'[r].all <= Len(history'[r])
      /\ \A r \in joined' : unread!AtLeast(cache'[r], learnt'[r]) /\ unread!AtLeast(cache'[r], due'[r])
      /\ ~saveTimer' => ~saveTimer /\ due' = due
  <2> HIDE DEF c
  <2> QED
    BY <1>1, <1>3, NotedStep
<1>5. MarksInv'
  <2>1. shown' \in [Rooms -> {"read", "unread", "unknown"}] /\ dirty' = TRUE
    BY ComputedFits DEF UnreadInv, MarksInv, ViewsInv, unread!Notify
  <2> QED
    BY <1>4, <2>1 DEF UnreadInv, MarksInv
<1>6. StoredInv'
  BY <1>2, <1>4 DEF UnreadInv, StoredInv
<1>7. KnownInv'
  BY <1>4 DEF UnreadInv, KnownInv, Saves
<1> QED
  BY <1>5, <1>6, <1>7 DEF UnreadInv

\* What sliding sync delivers of a room is its newest part.
LEMMA DeliveredFits ==
  ASSUME ViewsInv, NEW r \in Rooms, NEW limit \in {ListLimit, RoomLimit}
  PROVE  /\ unread!Delivered(r, limit) \in Views
         /\ unread!Delivered(r, limit).got = Len(history[r])
         /\ unread!Delivered(r, limit).from <= Len(history[r])
         /\ \E from \in Nat : unread!Delivered(r, limit) = [view[r] EXCEPT !.got = Len(history[r]), !.from = from]
<1> DEFINE n == Len(history[r])
           start == IF n <= limit THEN 0 ELSE n - limit + 1
           w == view[r]
           m == unread!Min({w.from, start})
<1>1. n \in Nat /\ limit \in Nat /\ limit # 0 /\ w \in Views /\ w.from <= w.got /\ w.got <= n
  BY LenProperties, BoundsAssumption DEF ViewsInv
<1>2. start \in Nat /\ start <= n
  BY <1>1
<1>3. w.from \in Nat /\ w.got \in Nat
  BY <1>1 DEF Views
<1> HIDE DEF start, n, w
<1>4. m = IF start <= w.from THEN start ELSE w.from
  <2>1. ASSUME NEW x \in Nat, NEW y \in Nat PROVE unread!Min({x, y}) = IF y <= x THEN y ELSE x
    <3> DEFINE k == IF y <= x THEN y ELSE x
    <3>1. k \in {x, y} /\ \A z \in {x, y} : k <= z
      OBVIOUS
    <3>2. \A b \in {x, y} : (\A z \in {x, y} : b <= z) => b = k
      OBVIOUS
    <3> QED
      BY <3>1, <3>2 DEF unread!Min
  <2> QED
    BY <1>2, <1>3, <2>1
<1>5. m \in Nat /\ m <= n
  BY <1>1, <1>2, <1>3, <1>4
<1> DEFINE from == IF w.got > 0 /\ start <= w.got + 1 THEN m ELSE start
<1>6. unread!Delivered(r, limit) = [w EXCEPT !.got = n, !.from = from]
  BY DEF unread!Delivered, n, start, w
<1>7. from \in Nat /\ from <= n
  BY <1>2, <1>5
<1> HIDE DEF from, m
<1>8. [w EXCEPT !.got = n, !.from = from] \in Views
  BY <1>1, <1>7 DEF Views
<1> QED
  BY <1>1, <1>6, <1>7, <1>8 DEF Views, n, w


\* The view of a room changes to w, and a receipt may be posted.
LEMMA OneView ==
  ASSUME ViewsInv, NEW r \in Rooms, NEW w \in Views, view' = [view EXCEPT ![r] = w], UNCHANGED history,
         receipt' = receipt \/ receipt' = [receipt EXCEPT ![r] = Len(history[r])],
         w.from <= w.got, w.got <= Len(history[r]), w.rcpt <= view[r].rcpt \/ w.rcpt = receipt[r],
         w.marker <= w.got, w.seen \subseteq 1 .. w.got,
         joined' \subseteq joined, listed' \subseteq joined' \cap listed, r \in listed' => w.got > 0
  PROVE  ViewsInv'
<1>1. ASSUME NEW q \in Rooms
      PROVE /\ Len(history[q]) \in Nat /\ receipt[q] \in Nat /\ receipt'[q] \in Nat
            /\ receipt[q] <= receipt'[q] /\ receipt'[q] <= Len(history[q])
            /\ view'[q] = IF q = r THEN w ELSE view[q]
  BY LenProperties DEF ViewsInv
<1>2. receipt' \in [Rooms -> Nat] /\ view' \in [Rooms -> Views]
  BY <1>1 DEF ViewsInv
<1>3. ASSUME NEW q \in Rooms
      PROVE  /\ view'[q].from <= view'[q].got /\ view'[q].got <= Len(history[q])
             /\ view'[q].rcpt <= receipt'[q] /\ view'[q].marker <= view'[q].got
             /\ view'[q].seen \subseteq 1 .. view'[q].got
  <2>1. view[q] \in Views /\ view[r] \in Views
    BY DEF ViewsInv
  <2>2. view[q].rcpt \in Nat /\ w.rcpt \in Nat /\ view[r].rcpt \in Nat
    BY <2>1 DEF Views
  <2>3. view[q].rcpt <= receipt[q] /\ view[r].rcpt <= receipt[r]
    BY DEF ViewsInv
  <2>4. view[q].rcpt <= receipt'[q] /\ (q = r => w.rcpt <= receipt'[q])
    BY <1>1, <2>2, <2>3
  <2> QED
    BY <1>1, <2>4 DEF ViewsInv
<1> QED
  BY <1>1, <1>2, <1>3 DEF ViewsInv

\* Only views change, or the marks that are of them.
LEMMA ViewedStep ==
  ASSUME UnreadInv, NEW r \in Rooms
  PROVE  /\ unread!LoadOlder(r) => UnreadInv'
         /\ \A e \in 1 .. Horizon : unread!BecomesVisible(r, e) => UnreadInv'
<1>0. ViewsInv /\ MarksInv /\ view[r] \in Views /\ Len(history[r]) \in Nat
  BY LenProperties DEF UnreadInv, ViewsInv
<1>1. /\ view[r].from <= view[r].got /\ view[r].got <= Len(history[r])
      /\ view[r].rcpt <= receipt[r] /\ view[r].marker <= view[r].got
      /\ view[r].seen \subseteq 1 .. view[r].got /\ (r \in listed => view[r].got > 0)
      /\ view[r].rcpt \in Nat /\ view[r].got \in Nat /\ view[r].reach \in Nat /\ view[r].seen \in SUBSET Nat
      /\ listed \subseteq joined
  BY <1>0 DEF ViewsInv, Views
<1>2. ASSUME NEW w \in Views, view' = [view EXCEPT ![r] = w], w.got = view[r].got,
             UNCHANGED <<history, joined, listed, roomsLoaded, receipt>>, UNCHANGED <<cache, learnt, due, store, queue, disk, saveTimer>>,
             ViewsInv', MarksInv'
      PROVE  UnreadInv'
  <2>1. joined' \subseteq joined /\ \A q \in Rooms : Len(history[q]) <= Len(history'[q])
    BY <1>0, <1>2, LenProperties DEF ViewsInv
  <2>2. \A q \in Rooms : view'[q].got = view[q].got
    BY <1>0, <1>2 DEF ViewsInv
  <2> QED
    BY <1>2, <2>1, <2>2, QuietStep
<1>3. CASE unread!LoadOlder(r)
  <2> DEFINE w == [view[r] EXCEPT !.reach = @ - 1]
  <2>1. w \in Views /\ view' = [view EXCEPT ![r] = w]
    BY <1>0, <1>1, <1>3 DEF unread!LoadOlder, Views
  <2>2. w.from = view[r].from /\ w.got = view[r].got /\ w.rcpt = view[r].rcpt /\ w.marker = view[r].marker /\ w.seen = view[r].seen
    BY <1>0 DEF Views
  <2>3. UNCHANGED <<history, joined, listed, roomsLoaded, receipt>> /\ UNCHANGED <<cache, learnt, due, store, queue, disk, saveTimer>>
        /\ UNCHANGED <<shown, aggregate, dirty, tracking, ready, reloads>>
    BY <1>3 DEF unread!LoadOlder, unread!serverVars, unread!listVars, unread!cacheVars, unread!storeVars
  <2> HIDE DEF w
  <2>6. /\ joined' \subseteq joined /\ listed' \subseteq joined' \cap listed /\ (r \in listed' => w.got > 0)
        /\ w.from <= w.got /\ w.got <= Len(history[r]) /\ w.rcpt <= view[r].rcpt
        /\ w.marker <= w.got /\ w.seen \subseteq 1 .. w.got
    BY <1>0, <1>1, <2>2, <2>3
  <2>4. ViewsInv'
    BY <1>0, <2>1, <2>3, <2>6, OneView
  <2>5. MarksInv'
    BY <1>0, <2>3 DEF MarksInv
  <2> QED
    BY <1>2, <2>1, <2>2, <2>3, <2>4, <2>5
<1>4. ASSUME NEW e \in 1 .. Horizon, unread!BecomesVisible(r, e) PROVE UnreadInv'
  <2> DEFINE w == [view[r] EXCEPT !.seen = @ \cup {e}]
  <2>0. e \in 1 .. view[r].got
    BY <1>0, <1>1, <1>4 DEF unread!BecomesVisible, unread!Sent
  <2>1. w \in Views /\ view' = [view EXCEPT ![r] = w]
    BY <1>0, <1>1, <1>4, <2>0 DEF unread!BecomesVisible, Views
  <2>2. w.from = view[r].from /\ w.got = view[r].got /\ w.rcpt = view[r].rcpt /\ w.marker = view[r].marker
        /\ w.seen = view[r].seen \cup {e}
    BY <1>0 DEF Views
  <2>3. UNCHANGED <<history, joined, listed, roomsLoaded, receipt>> /\ UNCHANGED <<cache, learnt, due, store, queue, disk, saveTimer>>
        /\ UNCHANGED <<shown, aggregate, dirty, tracking, ready, reloads>>
    BY <1>4 DEF unread!BecomesVisible, unread!serverVars, unread!listVars, unread!cacheVars, unread!storeVars
  <2> HIDE DEF w
  <2>6. /\ joined' \subseteq joined /\ listed' \subseteq joined' \cap listed /\ (r \in listed' => w.got > 0)
        /\ w.from <= w.got /\ w.got <= Len(history[r]) /\ w.rcpt <= view[r].rcpt
        /\ w.marker <= w.got /\ w.seen \subseteq 1 .. w.got
    BY <1>0, <1>1, <2>0, <2>2, <2>3
  <2>4. ViewsInv'
    BY <1>0, <2>1, <2>3, <2>6, OneView
  <2>5. MarksInv'
    BY <1>0, <2>3 DEF MarksInv
  <2> QED
    BY <1>2, <2>1, <2>2, <2>3, <2>4, <2>5
<1> QED
  BY <1>3, <1>4

\* A view changes, and what is computed of its room is noted.
LEMMA ChangedViewStep ==
  ASSUME UnreadInv, NEW r \in Rooms, NEW w \in Views, view' = [view EXCEPT ![r] = w],
         UNCHANGED <<history, joined, listed, roomsLoaded>>,
         receipt' = receipt \/ receipt' = [receipt EXCEPT ![r] = Len(history[r])],
         w.from <= w.got, w.got <= Len(history[r]), w.rcpt <= view[r].rcpt \/ w.rcpt = receipt[r],
         w.marker <= w.got, w.seen \subseteq 1 .. w.got, w.got = view[r].got \/ w.got > 0,
         NEW S \in SUBSET Rooms, unread!Notify(S, view', cache),
         UNCHANGED <<aggregate, tracking, store, ready, queue, disk, reloads>>
  PROVE  UnreadInv'
<1>0. ViewsInv /\ MarksInv /\ roomsLoaded' \in BOOLEAN
  BY DEF UnreadInv, MarksInv
<1>1. joined' \subseteq joined /\ listed' \subseteq joined' \cap listed /\ (r \in listed' => w.got > 0)
  BY <1>0 DEF ViewsInv
<1>2. ViewsInv'
  BY <1>0, <1>1, OneView
<1>3. \A q \in Rooms : view'[q].got = 0 => view[q].got = 0
  BY <1>0 DEF ViewsInv
<1>4. PICK v : v = view'
  OBVIOUS
<1>5. unread!Notify(S, v, cache)
  BY <1>4
<1>6. \A q \in Rooms : roomsLoaded' /\ q \in joined' /\ view'[q].got = 0 =>
           Len(history[q]) = 0 \/ (roomsLoaded /\ q \in joined /\ view[q].got = 0)
  BY <1>3
<1>7. roomsLoaded' \in BOOLEAN /\ UNCHANGED history /\ UNCHANGED <<aggregate, tracking, store, ready, queue, disk, reloads>>
  BY <1>0
<1> QED
  BY ONLY UnreadInv, S \in SUBSET Rooms, <1>1, <1>2, <1>4, <1>5, <1>6, <1>7, NotingStep

LEMMA NotifiedStep ==
  ASSUME UnreadInv, NEW r \in Rooms
  PROVE  /\ \A limit \in {ListLimit, RoomLimit} : unread!TimelineEvent(r, limit) => UnreadInv'
         /\ unread!ReceiptEvent(r) => UnreadInv'
         /\ unread!OpenRoom(r) => UnreadInv'
         /\ unread!CloseRoom(r) => UnreadInv'
<1>0. ViewsInv /\ MarksInv /\ view[r] \in Views /\ Len(history[r]) \in Nat
  BY LenProperties DEF UnreadInv, ViewsInv
<1>1. /\ view[r].from <= view[r].got /\ view[r].got <= Len(history[r])
      /\ view[r].rcpt <= receipt[r] /\ view[r].marker <= view[r].got /\ receipt[r] <= Len(history[r])
      /\ view[r].seen \subseteq 1 .. view[r].got /\ (r \in listed => view[r].got > 0)
      /\ view[r].rcpt \in Nat /\ view[r].got \in Nat /\ view[r].reach \in Nat /\ view[r].seen \in SUBSET Nat
      /\ view[r].marker \in Nat /\ view[r].from \in Nat
      /\ listed \subseteq Rooms /\ receipt[r] \in Nat /\ view \in [Rooms -> Views]
  BY <1>0 DEF ViewsInv, Views
<1>2. ASSUME NEW limit \in {ListLimit, RoomLimit}, unread!TimelineEvent(r, limit) PROVE UnreadInv'
  <2> DEFINE w == unread!Delivered(r, limit)
  <2>1. w \in Views /\ w.got = Len(history[r]) /\ w.from <= Len(history[r])
        /\ \E from \in Nat : w = [view[r] EXCEPT !.got = Len(history[r]), !.from = from]
    BY <1>0, DeliveredFits
  <2> HIDE DEF w
  <2>2. w.rcpt = view[r].rcpt /\ w.marker = view[r].marker /\ w.seen = view[r].seen
    BY <1>0, <2>1 DEF Views
  <2>3. w.marker <= w.got /\ w.seen \subseteq 1 .. w.got /\ w.from <= w.got /\ w.got <= Len(history[r]) /\ w.rcpt <= view[r].rcpt
    BY <1>0, <1>1, <2>1, <2>2
  <2>4. view' = [view EXCEPT ![r] = w] /\ unread!Notify({r} \cap listed, view', cache) /\ w.got > 0
    BY <1>2, <2>1 DEF unread!TimelineEvent, w
  <2>5. UNCHANGED <<history, joined, listed, roomsLoaded, receipt>> /\ UNCHANGED <<aggregate, tracking, store, ready, queue, disk, reloads>>
    BY <1>2 DEF unread!TimelineEvent, unread!serverVars, unread!storeVars
  <2>6. {r} \cap listed \in SUBSET Rooms
    OBVIOUS
  <2> QED
    BY <2>1, <2>3, <2>4, <2>5, <2>6, ChangedViewStep
<1>3. CASE unread!ReceiptEvent(r)
  <2> DEFINE w == [view[r] EXCEPT !.rcpt = receipt[r]]
  <2>1. w \in Views /\ view' = [view EXCEPT ![r] = w] /\ unread!Notify({r} \cap listed, view', cache)
    BY <1>0, <1>1, <1>3 DEF unread!ReceiptEvent, Views
  <2>2. w.from = view[r].from /\ w.got = view[r].got /\ w.rcpt = receipt[r] /\ w.marker = view[r].marker /\ w.seen = view[r].seen
    BY <1>0 DEF Views
  <2>3. UNCHANGED <<history, joined, listed, roomsLoaded, receipt>> /\ UNCHANGED <<aggregate, tracking, store, ready, queue, disk, reloads>>
    BY <1>3 DEF unread!ReceiptEvent, unread!serverVars, unread!storeVars
  <2> HIDE DEF w
  <2>4. {r} \cap listed \in SUBSET Rooms
    OBVIOUS
  <2> QED
    BY <1>1, <2>1, <2>2, <2>3, <2>4, ChangedViewStep
<1>4. CASE unread!OpenRoom(r)
  <2> DEFINE d == unread!Delivered(r, RoomLimit)
             reach == IF d.reach > 0 THEN d.reach ELSE unread!Max({1, view[r].from})
             marker == unread!Max({d.marker, view[r].rcpt})
             w == [d EXCEPT !.opened = TRUE, !.reach = reach, !.marker = marker]
  <2>1. d \in Views /\ d.got = Len(history[r]) /\ d.from <= Len(history[r])
        /\ \E from \in Nat : d = [view[r] EXCEPT !.got = Len(history[r]), !.from = from]
    BY <1>0, DeliveredFits
  <2>2. view' = [view EXCEPT ![r] = w] /\ unread!Notify({r}, view', cache) /\ r \in listed
    BY <1>4 DEF unread!OpenRoom
  <2> HIDE DEF d
  <2>3. d.rcpt = view[r].rcpt /\ d.marker = view[r].marker /\ d.seen = view[r].seen /\ d.reach \in Nat
    BY <1>0, <2>1 DEF Views
  <2>4. ASSUME NEW x \in Nat, NEW y \in Nat PROVE unread!Max({x, y}) \in {x, y}
    <3> DEFINE m == IF x >= y THEN x ELSE y
    <3>1. m \in {x, y} /\ \A z \in {x, y} : m >= z
      OBVIOUS
    <3> QED
      BY <3>1 DEF unread!Max
  <2>10. unread!Max({1, view[r].from}) \in {1, view[r].from} /\ marker \in {d.marker, view[r].rcpt}
    <3>1. 1 \in Nat /\ view[r].from \in Nat /\ d.marker \in Nat /\ view[r].rcpt \in Nat
      BY <1>1, <2>3
    <3>2. unread!Max({1, view[r].from}) \in {1, view[r].from}
      BY <2>4, <3>1
    <3>3. marker \in {d.marker, view[r].rcpt}
      BY <2>4, <3>1
    <3> QED
      BY <3>2, <3>3
  <2>5. reach \in Nat /\ marker \in {d.marker, view[r].rcpt}
    BY <1>1, <2>3, <2>10
  <2> HIDE DEF reach, marker
  <2>6. w \in Views /\ w.from = d.from /\ w.got = d.got /\ w.rcpt = d.rcpt /\ w.marker = marker /\ w.seen = d.seen
    BY <1>1, <2>1, <2>3, <2>5 DEF Views
  <2> HIDE DEF w
  <2>7. /\ w.from <= w.got /\ w.got <= Len(history[r]) /\ w.rcpt <= view[r].rcpt
        /\ w.marker <= w.got /\ w.seen \subseteq 1 .. w.got /\ w.got > 0
    BY SMTT(30), <1>0, <1>1, <2>1, <2>2, <2>3, <2>5, <2>6
  <2>8. UNCHANGED <<history, joined, listed, roomsLoaded, receipt>> /\ UNCHANGED <<aggregate, tracking, store, ready, queue, disk, reloads>>
    BY <1>4 DEF unread!OpenRoom, unread!serverVars, unread!storeVars
  <2>9. {r} \in SUBSET Rooms
    OBVIOUS
  <2> QED
    BY <2>2, <2>6, <2>7, <2>8, <2>9, ChangedViewStep
<1>5. CASE unread!CloseRoom(r)
  <2> DEFINE w == [view[r] EXCEPT !.opened = FALSE, !.seen = {}]
  <2>1. w \in Views /\ view' = [view EXCEPT ![r] = w] /\ unread!Notify({r} \cap listed, view', cache)
    BY <1>0, <1>1, <1>5 DEF unread!CloseRoom, Views
  <2>2. w.from = view[r].from /\ w.got = view[r].got /\ w.rcpt = view[r].rcpt /\ w.marker = view[r].marker /\ w.seen = {}
    BY <1>0 DEF Views
  <2>3. UNCHANGED <<history, joined, listed, roomsLoaded>> /\ UNCHANGED <<aggregate, tracking, store, ready, queue, disk, reloads>>
        /\ (receipt' = receipt \/ receipt' = [receipt EXCEPT ![r] = Len(history[r])])
    BY <1>5 DEF unread!CloseRoom, unread!storeVars
  <2> HIDE DEF w
  <2>4. {r} \cap listed \in SUBSET Rooms
    OBVIOUS
  <2>5. /\ w.from <= w.got /\ w.got <= Len(history[r]) /\ w.rcpt <= view[r].rcpt
        /\ w.marker <= w.got /\ w.seen \subseteq 1 .. w.got /\ w.got = view[r].got
    BY <1>1, <2>2
  <2> QED
    BY <2>1, <2>3, <2>4, <2>5, ChangedViewStep
<1> QED
  BY <1>2, <1>3, <1>4, <1>5


\* No information is always fitting, and unlike other information, of any room.
LEMMA NoInfoFits ==
  /\ unread!NoInfo \in Nats /\ unread!NoInfo.vis = 0 /\ unread!NoInfo.all = 0
  /\ ViewsInv => \A r \in Rooms : unread!NoInfo \in Fits[r]
<1>1. unread!NoInfo \in Nats /\ unread!NoInfo.vis = 0 /\ unread!NoInfo.all = 0
  BY DEF unread!NoInfo, Nats
<1> QED
  BY <1>1, LenProperties DEF ViewsInv, Fits

\* What is kept of the cache when it is saved is all of it, for rooms that were not left.
LEMMA KeptFits ==
  ASSUME UnreadInv
  PROVE  unread!Kept \in Fitting /\ \A r \in joined : unread!Kept[r] = cache[r]
<1>1. cache \in Infos /\ \A r \in Rooms : cache[r] \in Fits[r] /\ cache[r] \in Nats
  BY DEF UnreadInv, StoredInv, Fitting, Infos
<1>2. \A r \in Rooms : unread!NoInfo \in Fits[r] /\ unread!NoInfo \in Nats
  BY NoInfoFits DEF UnreadInv
<1>3. CASE ~roomsLoaded
  BY <1>1, <1>3 DEF unread!Kept, Fitting
<1>4. CASE roomsLoaded
  <2>1. unread!Kept = [r \in Rooms |-> IF view[r].got > 0 THEN cache[r] ELSE unread!NoInfo]
    BY <1>4 DEF unread!Kept
  <2>2. unread!Kept \in Fitting
    BY <1>1, <1>2, <2>1 DEF Fitting, Infos
  <2>3. ASSUME NEW r \in joined PROVE unread!Kept[r] = cache[r]
    <3>1. r \in Rooms /\ view[r].got \in Nat
      BY DEF UnreadInv, ViewsInv, Views
    <3>2. view[r].got = 0 => cache[r] = unread!NoInfo
      BY <1>1, <1>4, <3>1 DEF Fits
    <3> QED
      BY <2>1, <3>1, <3>2
  <2> QED
    BY <2>2, <2>3
<1> QED
  BY <1>3, <1>4

\* loadUnreadInfoCache, and the rooms of the list are computed again.
LEMMA LoadedStep ==
  ASSUME UnreadInv, UNCHANGED <<joined, history, receipt, view>>, UNCHANGED <<listed, roomsLoaded>>,
         NEW s \in Fitting, unread!Notify(listed, view, unread!Loaded(s))
  PROVE  /\ ViewsInv' /\ Fitting' = Fitting /\ Asking' = Asking
         /\ cache' \in Fitting' /\ learnt' \in Infos /\ due' \in Infos /\ saveTimer' \in BOOLEAN
         /\ \A r \in Rooms : /\ learnt'[r].vis <= Len(history'[r]) /\ learnt'[r].all <= Len(history'[r])
                             /\ due'[r].vis <= Len(history'[r]) /\ due'[r].all <= Len(history'[r])
         /\ \A r \in joined' : unread!AtLeast(cache'[r], learnt'[r]) /\ unread!AtLeast(cache'[r], due'[r])
         /\ ~saveTimer' => ~saveTimer /\ due' = due
         /\ shown' \in [Rooms -> {"read", "unread", "unknown"}] /\ dirty' = TRUE
<1>1. ViewsInv'
  BY DEF UnreadInv, ViewsInv
<1>2. Fits' = Fits
  BY DEF Fits
<1>3. Fitting' = Fitting
  BY <1>2 DEF Fitting
<1>4. Asking' = Asking
  BY <1>3 DEF Asking
<1> DEFINE c == unread!Loaded(s)
<1>5. ASSUME NEW r \in Rooms
      PROVE  /\ c[r] \in Fits[r] /\ c[r] \in Nats
             /\ c[r].vis >= cache[r].vis /\ c[r].all >= cache[r].all /\ cache[r] \in Nats
  <2>1. s[r] \in Fits[r] /\ cache[r] \in Fits[r] /\ s[r] \in Nats /\ cache[r] \in Nats
    BY DEF UnreadInv, StoredInv, Fitting, Infos
  <2>2. s[r].vis \in Nat /\ s[r].all \in Nat /\ cache[r].vis \in Nat /\ cache[r].all \in Nat
    BY <2>1 DEF Nats
  <2>3. c[r] = unread!Merge(s[r], cache[r])
    BY DEF unread!Loaded
  <2>4. /\ c[r] \in Nats
        /\ c[r].vis = IF s[r].vis >= cache[r].vis THEN s[r].vis ELSE cache[r].vis
        /\ c[r].all = IF s[r].all >= cache[r].all THEN s[r].all ELSE cache[r].all
    BY <2>1, <2>3, Merged
  <2>5. c[r].vis <= Len(history[r]) /\ c[r].all <= Len(history[r])
    BY <2>1, <2>4 DEF Fits
  <2>6. ASSUME roomsLoaded, r \in joined, view[r].got = 0 PROVE c[r] = unread!NoInfo
    <3>1. s[r] = unread!NoInfo /\ cache[r] = unread!NoInfo
      BY <2>1, <2>6 DEF Fits
    <3>2. c[r].vis = 0 /\ c[r].all = 0
      BY <2>4, <3>1, NoInfoFits
    <3> QED
      BY <2>4, <3>2 DEF Nats, unread!NoInfo
  <2>7. c[r] \in Fits[r]
    BY <2>4, <2>5, <2>6 DEF Fits
  <2> HIDE DEF c
  <2> QED
    BY <2>1, <2>2, <2>4, <2>7
<1>6. c \in Fitting
  BY <1>5 DEF Fitting, Infos, unread!Loaded
<1>7. \A r \in joined' : unread!AtLeast(c[r], learnt[r]) /\ unread!AtLeast(c[r], due[r])
  <2> SUFFICES ASSUME NEW r \in joined PROVE unread!AtLeast(c[r], learnt[r]) /\ unread!AtLeast(c[r], due[r])
    OBVIOUS
  <2>1. r \in Rooms /\ unread!AtLeast(cache[r], learnt[r]) /\ unread!AtLeast(cache[r], due[r])
    BY DEF UnreadInv, ViewsInv, KnownInv
  <2>2. learnt[r] \in Nats /\ due[r] \in Nats
    BY <2>1 DEF UnreadInv, StoredInv, Infos
  <2> HIDE DEF c
  <2> QED
    BY <1>5, <2>1, <2>2 DEF unread!AtLeast, Nats
<1>8. \A r \in Rooms : Len(history[r]) <= Len(history'[r])
  BY LenProperties DEF UnreadInv, ViewsInv
<1>9. unread!Notify(listed, view, c)
  OBVIOUS
<1> HIDE DEF c
<1>10. PICK v : v = view'
  OBVIOUS
<1>11. unread!UpdateStored(listed, v, c) /\ listed \in SUBSET Rooms /\ c \in Fitting'
  BY <1>3, <1>6, <1>9, <1>10 DEF unread!Notify, UnreadInv, ViewsInv
<1>12. /\ cache' \in Fitting' /\ learnt' \in Infos /\ due' \in Infos /\ saveTimer' \in BOOLEAN
       /\ \A r \in Rooms : /\ learnt'[r].vis <= Len(history'[r]) /\ learnt'[r].all <= Len(history'[r])
                           /\ due'[r].vis <= Len(history'[r]) /\ due'[r].all <= Len(history'[r])
       /\ \A r \in joined' : unread!AtLeast(cache'[r], learnt'[r]) /\ unread!AtLeast(cache'[r], due'[r])
       /\ ~saveTimer' => ~saveTimer /\ due' = due
  BY ONLY UnreadInv, <1>1, <1>7, <1>8, <1>10, <1>11, NotedStep
<1>13. shown' \in [Rooms -> {"read", "unread", "unknown"}] /\ dirty' = TRUE
  BY <1>9, ComputedFits DEF UnreadInv, MarksInv, ViewsInv, unread!Notify
<1> QED
  BY <1>1, <1>3, <1>4, <1>12, <1>13

LEMMA TrackStep == UnreadInv /\ unread!Track => UnreadInv'
<1> SUFFICES ASSUME UnreadInv, unread!Track PROVE UnreadInv'
  OBVIOUS
<1>0. UNCHANGED <<joined, history, receipt, view>> /\ UNCHANGED <<listed, roomsLoaded>> /\ UNCHANGED <<aggregate, store, disk, reloads>>
      /\ tracking' = TRUE /\ dirty' = TRUE
  BY DEF unread!Track, unread!serverVars
<1>1. CASE ready = "ready"
  <2>1. unread!Notify(listed, view, unread!Loaded(store)) /\ UNCHANGED <<ready, queue>> /\ store \in Fitting
    BY <1>1 DEF unread!Track, UnreadInv, StoredInv
  <2>2. /\ ViewsInv' /\ Fitting' = Fitting /\ Asking' = Asking
        /\ cache' \in Fitting' /\ learnt' \in Infos /\ due' \in Infos /\ saveTimer' \in BOOLEAN
        /\ \A r \in Rooms : /\ learnt'[r].vis <= Len(history'[r]) /\ learnt'[r].all <= Len(history'[r])
                            /\ due'[r].vis <= Len(history'[r]) /\ due'[r].all <= Len(history'[r])
        /\ \A r \in joined' : unread!AtLeast(cache'[r], learnt'[r]) /\ unread!AtLeast(cache'[r], due'[r])
        /\ ~saveTimer' => ~saveTimer /\ due' = due
        /\ shown' \in [Rooms -> {"read", "unread", "unknown"}]
    BY ONLY UnreadInv, <1>0, <2>1, LoadedStep
  <2>3. MarksInv' /\ StoredInv'
    BY <1>0, <2>1, <2>2 DEF UnreadInv, MarksInv, StoredInv
  <2>4. KnownInv'
    BY <1>0, <2>1, <2>2 DEF UnreadInv, KnownInv, Saves
  <2> QED
    BY <2>2, <2>3, <2>4 DEF UnreadInv
<1>2. CASE ready # "ready"
  <2> DEFINE load == [what |-> "load"]
  <2>1. ready' = "asked" /\ queue' = Append(queue, load) /\ UNCHANGED <<shown, cache, saveTimer, learnt, due>>
    BY <1>2 DEF unread!Track, unread!Ask, unread!cacheVars
  <2>2. ViewsInv' /\ MarksInv'
    BY <1>0, <2>1 DEF UnreadInv, ViewsInv, MarksInv
  <2>3. Fits' = Fits
    BY <1>0 DEF Fits
  <2>4. Fitting' = Fitting /\ Asking' = Asking
    BY <2>3 DEF Fitting, Asking
  <2>5. load \in Asking /\ queue \in Seq(Asking)
    BY DEF Asking, UnreadInv, StoredInv
  <2>6. queue' \in Seq(Asking)
    BY <2>1, <2>5, AppendProperties
  <2>7. StoredInv'
    BY <1>0, <2>1, <2>4, <2>6 DEF UnreadInv, StoredInv
  <2>8. Saves' = Saves /\ \A i \in Saves : queue'[i] = queue[i]
    <3>1. DOMAIN queue' = DOMAIN queue \cup {Len(queue) + 1} /\ queue'[Len(queue) + 1] = load
          /\ DOMAIN queue = 1 .. Len(queue) /\ \A i \in 1 .. Len(queue) : queue'[i] = queue[i]
      BY <2>1, <2>5, AppendProperties, LenProperties
    <3> QED
      BY <3>1 DEF Saves
  <2>9. KnownInv'
    BY <1>0, <2>1, <2>8 DEF UnreadInv, KnownInv
  <2> QED
    BY <2>2, <2>7, <2>9 DEF UnreadInv
<1> QED
  BY <1>1, <1>2

LEMMA SaveStep == UnreadInv /\ unread!SaveTimeout => UnreadInv'
<1> SUFFICES ASSUME UnreadInv, unread!SaveTimeout PROVE UnreadInv'
  OBVIOUS
<1> DEFINE k == unread!Kept
<1>0. UNCHANGED <<joined, history, receipt, view>> /\ UNCHANGED <<listed, roomsLoaded, shown>> /\ UNCHANGED <<aggregate, dirty, tracking, reloads>>
      /\ UNCHANGED <<learnt, due>> /\ saveTimer' = FALSE /\ cache' = k
  BY DEF unread!SaveTimeout, unread!serverVars, unread!listVars
<1>1. k \in Fitting /\ \A r \in joined : k[r] = cache[r]
  BY KeptFits
<1>2. /\ ready = "ready" => store' = k /\ disk' = k /\ UNCHANGED <<ready, queue>>
      /\ ready # "ready" => /\ ready' = "asked" /\ queue' = Append(queue, [what |-> "save", info |-> k])
                            /\ UNCHANGED <<store, disk>>
  BY DEF unread!SaveTimeout, unread!Ask
<1> HIDE DEF k
<1>3. Fits' = Fits
  BY <1>0 DEF Fits
<1>4. Fitting' = Fitting /\ Asking' = Asking
  BY <1>3 DEF Fitting, Asking
<1>5. ViewsInv'
  BY <1>0 DEF UnreadInv, ViewsInv
<1>6. \A r \in joined' : unread!AtLeast(cache'[r], learnt'[r]) /\ unread!AtLeast(cache'[r], due'[r]) /\ unread!AtLeast(k[r], due'[r])
  BY <1>0, <1>1 DEF UnreadInv, KnownInv
<1>7. CASE ready = "ready"
  <2>1. queue = <<>> /\ queue' = <<>>
    BY <1>2, <1>7 DEF UnreadInv, MarksInv
  <2>2. MarksInv' /\ StoredInv'
    BY <1>0, <1>1, <1>2, <1>4, <1>7 DEF UnreadInv, MarksInv, StoredInv
  <2>3. Saves' = {}
    BY <2>1 DEF Saves
  <2>4. KnownInv'
    BY <1>0, <1>2, <1>6, <1>7, <2>3 DEF KnownInv
  <2> QED
    BY <1>5, <2>2, <2>4 DEF UnreadInv
<1>8. CASE ready # "ready"
  <2> DEFINE save == [what |-> "save", info |-> k]
             n == Len(queue) + 1
  <2>1. save \in Asking /\ queue \in Seq(Asking)
    BY <1>1 DEF Asking, UnreadInv, StoredInv
  <2>2. queue' \in Seq(Asking)
    BY <1>2, <1>8, <2>1, AppendProperties
  <2>3. MarksInv' /\ StoredInv'
    BY <1>0, <1>1, <1>2, <1>4, <1>8, <2>2 DEF UnreadInv, MarksInv, StoredInv
  <2>4. n \in Nat /\ DOMAIN queue' = 1 .. n /\ queue'[n] = save
    BY <1>2, <1>8, <2>1, AppendProperties, LenProperties
  <2>5. n \in Saves' /\ Saves' \subseteq 1 .. n
    BY <2>4 DEF Saves
  <2>6. ASSUME NEW i \in Saves', \A j \in Saves' : j <= i PROVE queue'[i].info = k
    <3>1. i = n
      BY <2>4, <2>5, <2>6
    <3> QED
      BY <2>4, <3>1
  <2> HIDE DEF n
  <2>7. KnownInv'
    BY <1>6, <2>5, <2>6 DEF KnownInv
  <2> QED
    BY <1>5, <2>3, <2>7 DEF UnreadInv
<1> QED
  BY <1>7, <1>8


\* Who waited for the store goes on, with what was found; the last save is what
\* the store and the disk have then.
LEMMA ResumeStep ==
  ASSUME UnreadInv, NEW found \in Fitting, unread!Resume(found)
  PROVE  UnreadInv'
<1>0. UNCHANGED <<joined, history, receipt, view>> /\ UNCHANGED <<listed, roomsLoaded>> /\ UNCHANGED <<aggregate, tracking, reloads>>
      /\ ready' = "ready" /\ queue' = <<>>
  BY DEF unread!Resume, unread!serverVars
<1>1. queue \in Seq(Asking) /\ Len(queue) \in Nat /\ DOMAIN queue = 1 .. Len(queue)
  BY LenProperties DEF UnreadInv, StoredInv
<1>2. \A i \in Saves : queue[i].info \in Fitting
  <2>1. ASSUME NEW i \in Saves PROVE queue[i].info \in Fitting
    <3>1. i \in 1 .. Len(queue) /\ queue[i].what = "save"
      BY <1>1 DEF Saves
    <3>2. queue[i] \in Asking
      BY <1>1, <3>1, ElementOfSeq
    <3> QED
      BY <3>1, <3>2 DEF Asking
  <2> QED
    BY <2>1
<1>3. ASSUME NEW n \in 1 .. Len(queue) + 1 PROVE unread!Before(n, found) \in Fitting
  <2> DEFINE saves == {j \in 1 .. n - 1 : queue[j].what = "save"}
  <2>1. saves \subseteq Saves /\ saves \in SUBSET (0 .. Len(queue))
    BY <1>1 DEF Saves
  <2>2. unread!Before(n, found) = IF saves = {} THEN found ELSE queue[unread!Max(saves)].info
    BY DEF unread!Before
  <2> HIDE DEF saves
  <2>3. CASE saves = {}
    BY <2>2, <2>3
  <2>4. CASE saves # {}
    BY <1>1, <1>2, <2>1, <2>2, <2>4, UnreadMax
  <2> QED
    BY <2>3, <2>4
<1> DEFINE saved == unread!Before(Len(queue) + 1, found)
<1>4. saved \in Fitting
  BY <1>1, <1>3
<1>5. store' = saved /\ disk' = IF Saves # {} THEN saved ELSE disk
  BY <1>1 DEF unread!Resume, Saves
<1>6. Saves # {} => saved = queue[unread!Max(Saves)].info /\ unread!Max(Saves) \in Saves
                    /\ \A j \in Saves : j <= unread!Max(Saves)
  <2>1. saved = IF Saves = {} THEN found ELSE queue[unread!Max(Saves)].info
    <3>1. Saves = {j \in 1 .. (Len(queue) + 1) - 1 : queue[j].what = "save"}
      BY <1>1 DEF Saves
    <3> QED
      BY <3>1 DEF unread!Before
  <2>2. Saves \in SUBSET (0 .. Len(queue))
    BY <1>1 DEF Saves
  <2> QED
    BY <1>1, <2>1, <2>2, UnreadMax
<1> HIDE DEF saved
<1>7. ~saveTimer => \A r \in joined : unread!AtLeast(disk'[r], due[r])
  BY <1>5, <1>6 DEF UnreadInv, KnownInv
<1>8. Fits' = Fits
  BY <1>0 DEF Fits
<1>9. Fitting' = Fitting /\ Asking' = Asking
  BY <1>8 DEF Fitting, Asking
<1>10. store' \in Fitting' /\ disk' \in Fitting' /\ queue' \in Seq(Asking')
  BY <1>0, <1>4, <1>5, <1>9 DEF UnreadInv, StoredInv
<1>11. Saves' = {}
  BY <1>0 DEF Saves
<1> DEFINE loads == {i \in 1 .. Len(queue) : queue[i].what = "load"}
<1>12. CASE loads = {}
  <2>1. UNCHANGED <<shown, dirty, cache, saveTimer, learnt, due>>
    BY <1>12 DEF unread!Resume, unread!cacheVars
  <2>2. ViewsInv' /\ MarksInv' /\ StoredInv'
    BY <1>0, <1>9, <1>10, <2>1 DEF UnreadInv, ViewsInv, MarksInv, StoredInv
  <2>3. KnownInv'
    BY <1>0, <1>7, <1>11, <2>1 DEF UnreadInv, KnownInv
  <2> QED
    BY <2>2, <2>3 DEF UnreadInv
<1>13. CASE loads # {}
  <2> DEFINE s == unread!Before(CHOOSE i \in loads : TRUE, found)
  <2>1. unread!Notify(listed, view, unread!Loaded(s))
    BY <1>13 DEF unread!Resume
  <2>2. s \in Fitting
    <3>1. (CHOOSE i \in loads : TRUE) \in 1 .. Len(queue) + 1
      BY <1>1, <1>13
    <3> QED
      BY <1>3, <3>1
  <2> HIDE DEF s
  <2>3. /\ ViewsInv' /\ Fitting' = Fitting /\ Asking' = Asking
        /\ cache' \in Fitting' /\ learnt' \in Infos /\ due' \in Infos /\ saveTimer' \in BOOLEAN
        /\ \A r \in Rooms : /\ learnt'[r].vis <= Len(history'[r]) /\ learnt'[r].all <= Len(history'[r])
                            /\ due'[r].vis <= Len(history'[r]) /\ due'[r].all <= Len(history'[r])
        /\ \A r \in joined' : unread!AtLeast(cache'[r], learnt'[r]) /\ unread!AtLeast(cache'[r], due'[r])
        /\ ~saveTimer' => ~saveTimer /\ due' = due
        /\ shown' \in [Rooms -> {"read", "unread", "unknown"}] /\ dirty' = TRUE
    BY ONLY UnreadInv, <1>0, <2>1, <2>2, LoadedStep
  <2>4. MarksInv' /\ StoredInv'
    BY <1>0, <1>10, <2>3 DEF UnreadInv, MarksInv, StoredInv
  <2>5. KnownInv'
    BY <1>0, <1>7, <1>11, <2>3 DEF KnownInv
  <2> QED
    BY <2>3, <2>4, <2>5 DEF UnreadInv
<1> QED
  BY <1>12, <1>13

LEMMA ReadStep ==
  ASSUME UnreadInv, NEW r \in Rooms, NEW e \in 1 .. Horizon, NEW still \in BOOLEAN, unread!ReadDelayEnds(r, e, still)
  PROVE  UnreadInv'
<1> DEFINE read == still /\ e > view[r].marker
           w == [view[r] EXCEPT !.seen = @ \ {e}, !.marker = IF read THEN e ELSE @]
<1>0. ViewsInv /\ MarksInv /\ view[r] \in Views /\ Len(history[r]) \in Nat
  BY LenProperties DEF UnreadInv, ViewsInv
<1>1. /\ view[r].from <= view[r].got /\ view[r].got <= Len(history[r])
      /\ view[r].rcpt <= receipt[r] /\ view[r].marker <= view[r].got
      /\ view[r].seen \subseteq 1 .. view[r].got /\ (r \in listed => view[r].got > 0)
      /\ view[r].rcpt \in Nat /\ view[r].got \in Nat /\ view[r].seen \in SUBSET Nat /\ view[r].marker \in Nat
      /\ listed \subseteq Rooms /\ view \in [Rooms -> Views] /\ listed \subseteq joined
  BY <1>0 DEF ViewsInv, Views
<1>2. e \in 1 .. view[r].got
  BY <1>1 DEF unread!ReadDelayEnds
<1>3. w \in Views /\ view' = [view EXCEPT ![r] = w]
  BY <1>0, <1>1, <1>2 DEF unread!ReadDelayEnds, Views
<1>4. w.from = view[r].from /\ w.got = view[r].got /\ w.rcpt = view[r].rcpt /\ w.marker \in {e, view[r].marker}
      /\ w.seen \subseteq view[r].seen
  BY <1>0 DEF Views
<1>5. /\ UNCHANGED <<history, joined, listed, roomsLoaded>> /\ UNCHANGED <<aggregate, tracking, store, ready, queue, disk, reloads>>
      /\ read => unread!Notify({r} \cap listed, view', cache) /\ receipt' = [receipt EXCEPT ![r] = Len(history[r])]
      /\ ~read => UNCHANGED <<receipt, shown, dirty, cache, saveTimer, learnt, due>>
  BY DEF unread!ReadDelayEnds, unread!storeVars, unread!cacheVars
<1> HIDE DEF w, read
<1>6. /\ w.from <= w.got /\ w.got <= Len(history[r]) /\ w.rcpt <= view[r].rcpt
      /\ w.marker <= w.got /\ w.seen \subseteq 1 .. w.got /\ w.got = view[r].got
  BY <1>0, <1>1, <1>2, <1>4
<1>7. CASE read
  <2>1. {r} \cap listed \in SUBSET Rooms
    OBVIOUS
  <2> QED
    BY <1>3, <1>5, <1>6, <1>7, <2>1, ChangedViewStep
<1>8. CASE ~read
  <2>1. joined' \subseteq joined /\ listed' \subseteq joined' \cap listed /\ (r \in listed' => w.got > 0)
    BY <1>1, <1>4, <1>5
  <2>2. ViewsInv'
    BY <1>0, <1>3, <1>5, <1>6, <1>8, <2>1, OneView
  <2>3. MarksInv'
    BY <1>0, <1>5, <1>8 DEF MarksInv
  <2>4. \A q \in Rooms : Len(history[q]) <= Len(history'[q]) /\ (view'[q].got = view[q].got)
    BY <1>0, <1>1, <1>3, <1>4, <1>5, LenProperties DEF ViewsInv
  <2> QED
    BY <1>5, <1>8, <2>1, <2>2, <2>3, <2>4, QuietStep
<1> QED
  BY <1>7, <1>8

LEMMA LeftStep ==
  ASSUME UnreadInv, NEW r \in Rooms, unread!LeaveRoom(r)
  PROVE  UnreadInv'
<1>1. /\ joined' = joined \ {r} /\ listed' = listed \ {r} /\ view' = [view EXCEPT ![r] = unread!NoView]
      /\ learnt' = [learnt EXCEPT ![r] = unread!NoInfo] /\ due' = [due EXCEPT ![r] = unread!NoInfo]
      /\ UNCHANGED <<history, receipt>> /\ UNCHANGED <<shown, roomsLoaded, aggregate, dirty, tracking>>
      /\ UNCHANGED <<cache, saveTimer, store, ready, queue, disk, reloads>>
  BY DEF unread!LeaveRoom, unread!storeVars
<1> DEFINE w == unread!NoView
<1>2. w \in Views /\ w.from = 0 /\ w.got = 0 /\ w.rcpt = 0 /\ w.marker = 0 /\ w.seen = {}
  BY DEF unread!NoView, Views
<1>3. ViewsInv /\ MarksInv /\ Len(history[r]) \in Nat /\ view[r].rcpt \in Nat /\ listed \subseteq joined
  BY LenProperties DEF UnreadInv, ViewsInv, Views
<1>4. ViewsInv'
  <2> HIDE DEF w
  <2>1. /\ joined' \subseteq joined /\ listed' \subseteq joined' \cap listed /\ (r \in listed' => w.got > 0)
        /\ w.from <= w.got /\ w.got <= Len(history[r]) /\ w.rcpt <= view[r].rcpt
        /\ w.marker <= w.got /\ w.seen \subseteq 1 .. w.got
    BY <1>1, <1>2, <1>3
  <2>2. view' = [view EXCEPT ![r] = w]
    BY <1>1 DEF w
  <2> QED
    BY <1>1, <1>2, <1>3, <2>1, <2>2, OneView
<1>5. MarksInv'
  BY <1>1, <1>3 DEF MarksInv
<1>6. \A q \in Rooms : Len(history[q]) \in Nat /\ Len(history'[q]) \in Nat /\ Len(history[q]) <= Len(history'[q])
  BY <1>1, <1>3, LenProperties DEF ViewsInv
<1>7. \A q \in Rooms : roomsLoaded' /\ q \in joined' /\ view'[q].got = 0 =>
        Len(history[q]) = 0 \/ (roomsLoaded /\ q \in joined /\ view[q].got = 0)
  BY <1>1, <1>3 DEF ViewsInv
<1>8. Fitting \subseteq Fitting' /\ Seq(Asking) \subseteq Seq(Asking')
  BY ONLY <1>6, <1>7, FittingGrows
<1>9. StoredInv'
  <2>1. learnt' \in Infos /\ due' \in Infos
    BY <1>1, NoInfoFits DEF UnreadInv, StoredInv, Infos
  <2>2. ASSUME NEW q \in Rooms
        PROVE  /\ learnt'[q].vis <= Len(history'[q]) /\ learnt'[q].all <= Len(history'[q])
               /\ due'[q].vis <= Len(history'[q]) /\ due'[q].all <= Len(history'[q])
    <3>1. /\ learnt'[q] = IF q = r THEN unread!NoInfo ELSE learnt[q]
          /\ due'[q] = IF q = r THEN unread!NoInfo ELSE due[q]
      BY <1>1 DEF UnreadInv, StoredInv, Infos
    <3> QED
      BY <1>1, <1>6, <3>1, NoInfoFits DEF UnreadInv, StoredInv
  <2> QED
    BY <1>1, <1>8, <2>1, <2>2 DEF UnreadInv, StoredInv
<1>10. KnownInv'
  <2>1. \A q \in joined' : q \in joined /\ learnt'[q] = learnt[q] /\ due'[q] = due[q]
    BY <1>1, <1>3 DEF UnreadInv, StoredInv, ViewsInv, Infos
  <2> QED
    BY <1>1, <2>1 DEF UnreadInv, KnownInv, Saves
<1> QED
  BY <1>4, <1>5, <1>9, <1>10 DEF UnreadInv

LEMMA SentStep ==
  ASSUME UnreadInv, NEW r \in Rooms, NEW k \in unread!Kinds, unread!Send(r, k)
  PROVE  UnreadInv'
<1>1. /\ Len(history[r]) < Horizon /\ history' = [history EXCEPT ![r] = Append(@, k)]
      /\ UNCHANGED <<joined, receipt, view>> /\ UNCHANGED <<listed, shown, roomsLoaded, aggregate, dirty, tracking>>
      /\ UNCHANGED <<cache, saveTimer, learnt, due>> /\ UNCHANGED <<store, ready, queue, disk, reloads>>
  BY DEF unread!Send, unread!listVars, unread!cacheVars, unread!storeVars
<1>2. ViewsInv /\ MarksInv /\ history \in [Rooms -> Seq(unread!Kinds)]
  BY DEF UnreadInv, ViewsInv
<1>3. ASSUME NEW q \in Rooms
      PROVE  /\ history'[q] \in Seq(unread!Kinds) /\ Len(history[q]) \in Nat /\ Len(history'[q]) \in Nat
             /\ Len(history[q]) <= Len(history'[q]) /\ Len(history'[q]) <= Horizon
  <2>1. history[q] \in Seq(unread!Kinds) /\ Len(history[q]) \in Nat /\ Len(history[q]) <= Horizon
    BY <1>2, LenProperties DEF ViewsInv
  <2>2. CASE q = r
    <3>1. history'[q] = Append(history[q], k)
      BY <1>1, <1>2, <2>2
    <3>2. Append(history[q], k) \in Seq(unread!Kinds) /\ Len(Append(history[q], k)) = Len(history[q]) + 1
      BY <2>1, AppendProperties
    <3> QED
      BY <1>1, <2>1, <2>2, <3>1, <3>2, BoundsAssumption
  <2>3. CASE q # r
    BY <1>1, <1>2, <2>1, <2>3
  <2> QED
    BY <2>2, <2>3
<1>4. ViewsInv'
  <2>1. history' \in [Rooms -> Seq(unread!Kinds)]
    BY <1>1, <1>2, <1>3
  <2>2. ASSUME NEW q \in Rooms
        PROVE  receipt[q] <= Len(history'[q]) /\ view[q].got <= Len(history'[q])
    <3>1. receipt[q] \in Nat /\ view[q].got \in Nat /\ receipt[q] <= Len(history[q]) /\ view[q].got <= Len(history[q])
      BY <1>2 DEF ViewsInv, Views
    <3> QED
      BY <1>3, <3>1
  <2> QED
    BY <1>1, <1>2, <1>3, <2>1, <2>2 DEF ViewsInv
<1>5. MarksInv'
  BY <1>1, <1>2 DEF MarksInv
<1>6. joined' \subseteq joined /\ (\A q \in Rooms : view'[q].got = view[q].got)
  BY <1>1
<1> QED
  BY <1>1, <1>3, <1>4, <1>5, <1>6, QuietStep


\* The rooms come in: when they do for the first time, all that was sent to is known.
LEMMA CompleteStep == UnreadInv /\ unread!Complete => UnreadInv'
<1> SUFFICES ASSUME UnreadInv, unread!Complete PROVE UnreadInv'
  OBVIOUS
<1> DEFINE known == {r \in joined : view[r].got > 0}
<1>1. /\ listed' = known /\ roomsLoaded' = TRUE /\ UNCHANGED <<joined, history, receipt>> /\ UNCHANGED view
      /\ UNCHANGED <<aggregate, tracking, store, ready, queue, disk, reloads>>
      /\ ~roomsLoaded => known = {r \in joined : Len(history[r]) > 0} /\ unread!Notify(known, view, cache)
      /\ roomsLoaded => UNCHANGED <<shown, dirty, cache, saveTimer, learnt, due>>
  BY DEF unread!Complete, unread!serverVars, unread!storeVars, unread!cacheVars
<1>2. ViewsInv'
  BY <1>1 DEF UnreadInv, ViewsInv
<1>3. ASSUME NEW r \in Rooms, r \in joined', view'[r].got = 0
      PROVE  Len(history[r]) = 0 \/ (roomsLoaded /\ r \in joined /\ view[r].got = 0)
  <2>1. Len(history[r]) \in Nat /\ view[r].got = 0 /\ r \in joined
    BY <1>1, <1>3, LenProperties DEF UnreadInv, ViewsInv
  <2>2. ~(view[r].got > 0)
    BY <2>1
  <2> QED
    BY <1>1, <2>1, <2>2 DEF UnreadInv, MarksInv
<1>4. \A r \in Rooms : roomsLoaded' /\ r \in joined' /\ view'[r].got = 0 =>
        Len(history[r]) = 0 \/ (roomsLoaded /\ r \in joined /\ view[r].got = 0)
  BY <1>3
<1>5. CASE roomsLoaded
  <2>1. joined' \subseteq joined /\ \A r \in Rooms : Len(history[r]) <= Len(history'[r])
    BY <1>1, LenProperties DEF UnreadInv, ViewsInv
  <2>2. MarksInv'
    BY <1>1, <1>5 DEF UnreadInv, MarksInv
  <2> QED
    BY <1>1, <1>2, <1>4, <1>5, <2>1, <2>2, QuietStep
<1>6. CASE ~roomsLoaded
  <2>1. PICK v : v = view'
    OBVIOUS
  <2>2. unread!Notify(known, v, cache) /\ known \in SUBSET Rooms /\ joined' \subseteq joined /\ roomsLoaded' \in BOOLEAN
    BY <1>1, <1>6, <2>1 DEF UnreadInv, ViewsInv
  <2>3. UNCHANGED history /\ UNCHANGED <<aggregate, tracking, store, ready, queue, disk, reloads>>
    BY <1>1
  <2> HIDE DEF known
  <2> QED
    BY ONLY UnreadInv, <1>2, <1>4, <2>1, <2>2, <2>3, NotingStep
<1> QED
  BY <1>5, <1>6 DEF UnreadInv, MarksInv

LEMMA RefreshStep == UnreadInv /\ unread!RefreshAggregate => UnreadInv'
<1> SUFFICES ASSUME UnreadInv, unread!RefreshAggregate PROVE UnreadInv'
  OBVIOUS
<1>1. /\ dirty' = FALSE /\ aggregate' = unread!Worst({shown[r] : r \in listed})
      /\ UNCHANGED <<joined, history, receipt, view>> /\ UNCHANGED <<listed, shown, roomsLoaded, tracking>>
      /\ UNCHANGED <<cache, saveTimer, learnt, due>> /\ UNCHANGED <<store, ready, queue, disk, reloads>>
  BY DEF unread!RefreshAggregate, unread!serverVars, unread!listVars, unread!storeVars, unread!cacheVars
<1>2. ViewsInv' /\ MarksInv'
  BY <1>1 DEF UnreadInv, ViewsInv, MarksInv, unread!Worst
<1>3. joined' \subseteq joined /\ \A r \in Rooms : Len(history[r]) <= Len(history'[r]) /\ view'[r].got = view[r].got
  BY <1>1, LenProperties DEF UnreadInv, ViewsInv
<1> QED
  BY <1>1, <1>2, <1>3, QuietStep

LEMMA ReloadStep == UnreadInv /\ unread!Reload => UnreadInv'
<1> SUFFICES ASSUME UnreadInv, unread!Reload PROVE UnreadInv'
  OBVIOUS
<1> DEFINE none == [r \in Rooms |-> unread!NoInfo]
<1>1. /\ UNCHANGED <<joined, history, receipt>> /\ UNCHANGED disk
      /\ view' = [r \in Rooms |-> unread!NoView] /\ listed' = {} /\ roomsLoaded' = FALSE
      /\ shown' = [r \in Rooms |-> "unknown"] /\ aggregate' = "unknown"
      /\ dirty' = FALSE /\ tracking' = FALSE /\ saveTimer' = FALSE /\ ready' = "idle" /\ queue' = <<>>
      /\ cache' = none /\ learnt' = none /\ due' = none /\ store' = none
      /\ reloads < MaxReloads /\ reloads' = reloads + 1
  BY DEF unread!Reload, unread!serverVars
<1>2. ViewsInv'
  <2>1. unread!NoView \in Views /\ unread!NoView.from = 0 /\ unread!NoView.got = 0 /\ unread!NoView.rcpt = 0
        /\ unread!NoView.marker = 0 /\ unread!NoView.seen = {}
    BY DEF unread!NoView, Views
  <2>2. \A r \in Rooms : view'[r] = unread!NoView /\ Len(history[r]) \in Nat /\ receipt[r] \in Nat
    BY <1>1, LenProperties DEF UnreadInv, ViewsInv
  <2>3. view' \in [Rooms -> Views]
    BY <1>1, <2>1
  <2> QED
    BY <1>1, <2>1, <2>2, <2>3 DEF UnreadInv, ViewsInv
<1>3. MarksInv'
  <2>1. reloads' \in 0 .. MaxReloads
    BY <1>1, BoundsAssumption DEF UnreadInv, MarksInv
  <2>2. shown' \in [Rooms -> {"read", "unread", "unknown"}]
    BY <1>1
  <2>3. queue' = <<>> /\ ready' = "idle" /\ aggregate' = "unknown"
        /\ roomsLoaded' = FALSE /\ dirty' = FALSE /\ tracking' = FALSE /\ saveTimer' = FALSE
    BY <1>1
  <2> QED
    BY ONLY <2>1, <2>2, <2>3 DEF MarksInv
<1>4. \A r \in Rooms : Len(history[r]) \in Nat /\ Len(history'[r]) \in Nat /\ Len(history[r]) <= Len(history'[r])
  BY <1>1, LenProperties DEF UnreadInv, ViewsInv
<1>5. \A r \in Rooms : roomsLoaded' /\ r \in joined' /\ view'[r].got = 0 =>
        Len(history[r]) = 0 \/ (roomsLoaded /\ r \in joined /\ view[r].got = 0)
  BY <1>1
<1>6. Fitting \subseteq Fitting'
  BY ONLY <1>4, <1>5, FittingGrows
<1>7. none \in Fitting /\ none \in Infos /\ \A r \in Rooms : none[r] = unread!NoInfo
  BY NoInfoFits DEF UnreadInv, Fitting, Infos
<1> HIDE DEF none
<1>8. StoredInv'
  BY <1>1, <1>4, <1>6, <1>7, NoInfoFits, EmptySeq DEF UnreadInv, StoredInv
<1>9. KnownInv'
  <2>1. Saves' = {}
    BY <1>1 DEF Saves
  <2>2. ASSUME NEW r \in joined'
        PROVE  unread!AtLeast(none[r], none[r]) /\ unread!AtLeast(disk[r], none[r])
    <3>1. r \in Rooms /\ disk[r] \in Nats
      BY <1>1 DEF UnreadInv, ViewsInv, StoredInv, Fitting, Infos
    <3> QED
      BY <1>7, <3>1, NoInfoFits DEF unread!AtLeast, Nats
  <2> QED
    BY <1>1, <2>1, <2>2 DEF KnownInv
<1> QED
  BY <1>2, <1>3, <1>8, <1>9 DEF UnreadInv

LEMMA UnreadStep == UnreadInv /\ (unread!Next \/ UNCHANGED unreadVars) => UnreadInv'
<1> SUFFICES ASSUME UnreadInv, unread!Next \/ UNCHANGED unreadVars PROVE UnreadInv'
  OBVIOUS
<1>1. CASE UNCHANGED unreadVars
  <2>1. Fits' = Fits
    BY <1>1 DEF unreadVars, Fits
  <2>2. Fitting' = Fitting /\ Asking' = Asking
    BY <2>1 DEF Fitting, Asking
  <2>3. ViewsInv' /\ MarksInv' /\ StoredInv' /\ KnownInv'
    BY <1>1, <2>2 DEF unreadVars, UnreadInv, ViewsInv, MarksInv, StoredInv, KnownInv, Saves
  <2> QED
    BY <2>3 DEF UnreadInv
<1>2. CASE \E r \in Rooms, k \in unread!Kinds : unread!Send(r, k)
  BY <1>2, SentStep
<1>3. CASE \E r \in Rooms, limit \in {ListLimit, RoomLimit} : unread!TimelineEvent(r, limit)
  BY <1>3, NotifiedStep
<1>4. CASE \E r \in Rooms : unread!ReceiptEvent(r) \/ unread!OpenRoom(r) \/ unread!CloseRoom(r)
  BY <1>4, NotifiedStep
<1>5. CASE \E r \in Rooms : unread!LoadOlder(r)
  BY <1>5, ViewedStep
<1>6. CASE \E r \in Rooms : unread!LeaveRoom(r)
  BY <1>6, LeftStep
<1>7. CASE \E r \in Rooms, e \in 1 .. Horizon : unread!BecomesVisible(r, e)
  BY <1>7, ViewedStep
<1>8. CASE \E r \in Rooms, e \in 1 .. Horizon : \E still \in BOOLEAN : unread!ReadDelayEnds(r, e, still)
  BY <1>8, ReadStep
<1>9. CASE unread!Complete \/ unread!Track \/ unread!SaveTimeout \/ unread!RefreshAggregate \/ unread!Reload
  BY <1>9, CompleteStep, TrackStep, SaveStep, RefreshStep, ReloadStep
<1>10. CASE unread!LocalStoreLoaded \/ unread!LoadTimesOut
  <2>1. disk \in Fitting /\ store \in Fitting
    BY DEF UnreadInv, StoredInv
  <2> QED
    BY <1>10, <2>1, ResumeStep DEF unread!LocalStoreLoaded, unread!LoadTimesOut
<1> QED
  BY <1>1, <1>2, <1>3, <1>4, <1>5, <1>6, <1>7, <1>8, <1>9, <1>10 DEF unread!Next

LEMMA UnreadStart == unread!Init => UnreadInv
<1> SUFFICES ASSUME unread!Init PROVE UnreadInv
  OBVIOUS
<1>1. ViewsInv
  <2>1. unread!NoView \in Views /\ unread!NoView.from = 0 /\ unread!NoView.got = 0 /\ unread!NoView.rcpt = 0
        /\ unread!NoView.marker = 0 /\ unread!NoView.seen = {}
    BY DEF unread!NoView, Views
  <2>2. <<>> \in Seq(unread!Kinds) /\ Len(<<>>) = 0
    BY EmptySeq
  <2> QED
    BY <2>1, <2>2, BoundsAssumption DEF unread!Init, ViewsInv
<1>2. MarksInv
  <2>1. reloads \in 0 .. MaxReloads
    BY BoundsAssumption DEF unread!Init
  <2>2. shown \in [Rooms -> {"read", "unread", "unknown"}]
    BY DEF unread!Init
  <2>3. queue = <<>> /\ ready = "idle" /\ aggregate = "unknown"
        /\ roomsLoaded = FALSE /\ dirty = FALSE /\ tracking = FALSE /\ saveTimer = FALSE
    BY DEF unread!Init
  <2> QED
    BY ONLY <2>1, <2>2, <2>3 DEF MarksInv
<1>3. cache \in Fitting /\ cache \in Infos /\ \A r \in Rooms : cache[r] = unread!NoInfo
  BY <1>1, NoInfoFits DEF unread!Init, Fitting, Infos
<1>4. StoredInv
  <2>1. \A r \in Rooms : Len(history[r]) \in Nat
    BY <1>1, LenProperties DEF ViewsInv
  <2> QED
    BY <1>3, <2>1, NoInfoFits, EmptySeq DEF unread!Init, StoredInv
<1>5. KnownInv
  <2>1. \A r \in joined : unread!AtLeast(cache[r], cache[r])
    BY <1>3, NoInfoFits DEF unread!Init, unread!AtLeast, Nats
  <2>2. Saves = {}
    BY DEF unread!Init, Saves
  <2> QED
    BY <2>1, <2>2 DEF unread!Init, KnownInv
<1> QED
  BY <1>1, <1>2, <1>4, <1>5 DEF UnreadInv

LEMMA UnreadTypes == UnreadInv => unread!TypeOK
<1> SUFFICES ASSUME UnreadInv PROVE unread!TypeOK
  OBVIOUS
<1>1. joined \subseteq Rooms /\ listed \subseteq Rooms
  BY DEF UnreadInv, ViewsInv
<1>2. ASSUME NEW r \in Rooms
      PROVE  /\ history[r] \in UNION {[1 .. n -> unread!Kinds] : n \in 0 .. Horizon}
             /\ receipt[r] \in 0 .. Horizon /\ Len(history[r]) \in 0 .. Horizon
  <2>1. history[r] \in Seq(unread!Kinds) /\ receipt[r] \in Nat /\ receipt[r] <= Len(history[r]) /\ Len(history[r]) <= Horizon
    BY DEF UnreadInv, ViewsInv
  <2>2. Len(history[r]) \in 0 .. Horizon /\ history[r] \in [1 .. Len(history[r]) -> unread!Kinds]
    BY <2>1, LenProperties, BoundsAssumption
  <2> QED
    BY <2>1, <2>2, BoundsAssumption
<1>3. history \in [Rooms -> UNION {[1 .. n -> unread!Kinds] : n \in 0 .. Horizon}] /\ receipt \in [Rooms -> 0 .. Horizon]
  BY <1>2 DEF UnreadInv, ViewsInv
<1>4. ASSUME NEW c \in Infos, \A r \in Rooms : c[r].vis <= Len(history[r]) /\ c[r].all <= Len(history[r])
      PROVE  c \in [Rooms -> unread!Info]
  <2>1. ASSUME NEW r \in Rooms PROVE c[r] \in unread!Info
    <3>1. c[r] \in Nats /\ c[r].vis <= Horizon /\ c[r].all <= Horizon
      BY <1>2, <1>4, BoundsAssumption DEF Infos, Nats
    <3> QED
      BY <3>1, BoundsAssumption DEF unread!Info, Nats
  <2> QED
    BY <2>1 DEF Infos
<1>5. \A c \in Fitting : c \in Infos /\ \A r \in Rooms : c[r].vis <= Len(history[r]) /\ c[r].all <= Len(history[r])
  BY DEF Fitting, Fits
<1>6. {cache, store, disk, learnt, due} \subseteq [Rooms -> unread!Info]
  BY <1>4, <1>5 DEF UnreadInv, StoredInv
<1>7. \A r \in Rooms :
       /\ view[r].from <= view[r].got /\ view[r].got <= Len(history[r])
       /\ view[r].rcpt <= receipt[r] /\ view[r].marker <= view[r].got
       /\ view[r].seen \subseteq 1 .. view[r].got
  BY DEF UnreadInv, ViewsInv
<1>8. /\ shown \in [Rooms -> {"read", "unread", "unknown"}]
      /\ aggregate \in {"read", "unread", "unknown"}
      /\ {roomsLoaded, dirty, tracking, saveTimer} \subseteq BOOLEAN
      /\ ready \in {"idle", "asked", "ready"} /\ reloads \in 0 .. MaxReloads
      /\ (queue # <<>> => ready = "asked")
  BY DEF UnreadInv, MarksInv
<1> QED
  BY <1>1, <1>3, <1>6, <1>7, <1>8 DEF unread!TypeOK

\* What this session has computed of a room is still in the cache, whenever the
\* stored information arrives and however often it is saved, and is on disk when
\* no save is scheduled or waits: the theorem is about KnowledgeKept, for any rooms
\* and any number of messages and reloads.
THEOREM KnowledgeStays == Spec => []KnowledgeKept
<1> DEFINE I == part = "unread" => UnreadInv
<1>1. Init => I
  BY Parts, UnreadStart
<1>2. I /\ [Next]_vars => I'
  BY Parts, UnreadStep
<1>3. UnreadInv => unread!KeepsKnowledge /\ unread!SavedWhatWasDue
  <2> SUFFICES ASSUME UnreadInv PROVE unread!KeepsKnowledge /\ unread!SavedWhatWasDue
    OBVIOUS
  <2>1. queue = <<>> => Saves = {}
    BY DEF Saves
  <2> QED
    BY <2>1 DEF UnreadInv, ViewsInv, KnownInv, unread!KeepsKnowledge, unread!SavedWhatWasDue
<1>4. I => KnowledgeKept
  BY <1>3 DEF KnowledgeKept
<1> QED
  BY <1>1, <1>2, <1>4, PTL DEF Spec

-----------------------------------------------------------------------------
(* RoomEntry: the lists have the rooms, the page shows the room.           *)

Memberships == {"out", "join", "kicked", "ban"}
TaskPcs == {"loaded", "member", "list", "join", "names", "listed", "public",
            "join public", "names public", "end", "done", "stopped"}
Task == [inst : Nat, room : EntryRooms, pc : TaskPcs]
EntryPage == [inst : Nat, loading : BOOLEAN, joinDialog : Secured \cup {NoRoom}]
EntryOp == [kind : {"join", "leave"}, room : EntryRooms, pc : {"call", "after"}]
LastTask == tasks[Len(tasks)]
Insts == {tasks[k].inst : k \in DOMAIN tasks}

\* The server, sliding sync and the SDK.
HubInv ==
  /\ member \in [EntryRooms -> Memberships] /\ lastSent \in [EntryRooms -> Memberships]
  /\ response \in [EntryRooms -> Memberships \cup {"absent", "quiet"}]
  /\ sdk \in [EntryRooms -> Memberships \cup {"absent"}]
  /\ admitted \in SUBSET Secured /\ entryRoomsLoaded \in BOOLEAN /\ answers \in 0 .. MaxAnswers
  /\ asked \in SUBSET EntryRooms /\ IsFiniteSet(asked)
  /\ removals \in Nat /\ removals + Cardinality(asked) <= MaxMoves

\* What is asked for; the user asks to leave before the client does.
AskedInv ==
  /\ ops \in SUBSET EntryOp /\ callback \in EntryRooms \cup {NoRoom}
  /\ dialog \in [what : {"none", "kick", "leave"}, room : EntryRooms \cup {NoRoom}]
  /\ \A o \in ops : o.kind = "leave" => o.room \in asked
  /\ dialog.what = "leave" => dialog.room \in asked
  /\ dialog.what = "none" => dialog = entry!NoDialog

\* A room the user does not ask to leave is in the list from the time it is
\* opened, or known to the SDK; sliding sync has told of it, or is telling.
ListsInv ==
  /\ list \in SUBSET EntryRooms /\ entryStore \in SUBSET EntryRooms
  /\ \A r \in EntryRooms \ asked :
       /\ r \in entryStore \/ sdk[r] = "join" => r \in list
       /\ lastSent[r] = "join" => r \in list \/ response[r] = "join"

\* The instances of the page are numbered.  The last task is that of the page
\* on screen, it is not stopped, and over only without a spinner.
TasksInv ==
  /\ tasks \in Seq(Task) /\ Len(tasks) <= MaxVisits
  /\ page \in EntryPage /\ (page.inst # 0) = (route \in EntryRooms)
  /\ route \in EntryRooms \cup {NoRoom, "error"} /\ current \in EntryRooms \cup {NoRoom}
  /\ IsFiniteSet(Insts) /\ Insts \in SUBSET (1 .. Cardinality(Insts)) /\ Cardinality(Insts) <= Len(tasks)
LastInv ==
  page.inst # 0 =>
    /\ Len(tasks) > 0 /\ LastTask.inst = page.inst /\ LastTask.room = route
    /\ LastTask.pc # "stopped" /\ (LastTask.pc = "done" => ~page.loading)

\* Once the last call of update() has found out about the room, it is current.
Settled == {"public", "join public", "names public", "end", "done"}
CurrentInv ==
  page.inst # 0 /\ entry!OneVisit /\ LastTask.pc \in Settled => current \in {NoRoom, route}

EntryInv == HubInv /\ AskedInv /\ ListsInv /\ TasksInv /\ LastInv /\ CurrentInv

LEMMA EntryCardinality == \A S : entry!Cardinality(S) = Cardinality(S)
BY DEF entry!Cardinality, Cardinality

\* A task of another page, or superseded, has the room of the last visit to its
\* page; the last one of all is never stale, and while there was one page only
\* all others are.
LEMMA PropsKnown ==
  ASSUME tasks \in Seq(Task), NEW k \in 1 .. Len(tasks)
  PROVE  /\ entry!PropsId(k) \in EntryRooms
         /\ k = Len(tasks) => ~entry!Stale(k) /\ entry!PropsId(k) = LastTask.room
         /\ entry!OneVisit /\ k # Len(tasks) => entry!Stale(k)
<1> DEFINE S == {j \in 1 .. Len(tasks) : tasks[j].inst = tasks[k].inst}
           l == entry!LastOf(S)
<1>1. Len(tasks) \in Nat /\ \A j \in 1 .. Len(tasks) : tasks[j] \in Task
  BY LenProperties
<1>2. S \in SUBSET (1 .. Len(tasks)) /\ k \in S
  OBVIOUS
<1>3. entry!PropsId(k) = tasks[l].room /\ entry!Stale(k) = (l # k)
  BY DEF entry!PropsId, entry!Stale, entry!SamePage
<1>4. entry!OneVisit => Len(tasks) \in S
  BY <1>1 DEF entry!OneVisit
<1> HIDE DEF S
<1>5. l \in S /\ \A i \in S : i <= l
  <2>1. \E j \in S : \A i \in S : i <= j
    BY <1>1, <1>2, LastPlace
  <2> QED
    BY <2>1 DEF entry!LastOf
<1> HIDE DEF l
<1>6. Len(tasks) \in S => l = Len(tasks)
  BY <1>1, <1>2, <1>5
<1>7. tasks[l].room \in EntryRooms
  BY <1>1, <1>2, <1>5 DEF Task
<1> QED
  BY <1>1, <1>2, <1>3, <1>4, <1>6, <1>7 DEF LastTask

\* What a step of a task leaves as it was.
LEMMA GoneTo ==
  ASSUME tasks \in Seq(Task), NEW k \in 1 .. Len(tasks), NEW pc \in TaskPcs, entry!Goto(k, pc)
  PROVE  /\ tasks' \in Seq(Task) /\ Len(tasks') = Len(tasks) /\ Insts' = Insts
         /\ \A j \in 1 .. Len(tasks) : /\ tasks'[j].inst = tasks[j].inst /\ tasks'[j].room = tasks[j].room
                                       /\ tasks'[j].pc = IF j = k THEN pc ELSE tasks[j].pc
<1>1. Len(tasks) \in Nat /\ DOMAIN tasks = 1 .. Len(tasks) /\ tasks \in [1 .. Len(tasks) -> Task]
  BY LenProperties
<1>2. tasks' = [tasks EXCEPT ![k] = [tasks[k] EXCEPT !.pc = pc]]
  BY DEF entry!Goto
<1>3. tasks[k] \in Task
  BY <1>1
<1>4. [tasks[k] EXCEPT !.pc = pc] \in Task /\ [tasks[k] EXCEPT !.pc = pc].inst = tasks[k].inst
      /\ [tasks[k] EXCEPT !.pc = pc].room = tasks[k].room /\ [tasks[k] EXCEPT !.pc = pc].pc = pc
  BY <1>3 DEF Task
<1>5. /\ tasks' \in [1 .. Len(tasks) -> Task] /\ DOMAIN tasks' = 1 .. Len(tasks)
      /\ \A j \in 1 .. Len(tasks) : /\ tasks'[j].inst = tasks[j].inst /\ tasks'[j].room = tasks[j].room
                                    /\ tasks'[j].pc = IF j = k THEN pc ELSE tasks[j].pc
  BY <1>1, <1>2, <1>4
<1>6. tasks' \in Seq(Task) /\ Len(tasks') = Len(tasks)
  BY <1>1, <1>5
<1>7. Insts' = Insts
  BY <1>1, <1>5 DEF Insts
<1> QED
  BY <1>5, <1>6, <1>7

\* A step of a task leaves the page in order when, of the last one, it does.
LEMMA TaskGone ==
  ASSUME TasksInv, LastInv, CurrentInv, NEW k \in 1 .. Len(tasks), NEW pc \in TaskPcs, entry!Goto(k, pc),
         page' \in EntryPage, (page'.inst # 0) = (route' \in EntryRooms),
         route' \in EntryRooms \cup {NoRoom, "error"}, current' \in EntryRooms \cup {NoRoom},
         page'.inst = 0 \/ (page'.inst = page.inst /\ route' = route /\ (page'.loading => page.loading)),
         k = Len(tasks) => pc # "stopped" /\ (pc = "done" => page'.inst = 0 \/ ~page'.loading),
         entry!OneVisit => current' = current \/ (k = Len(tasks) /\ current' = LastTask.room),
         k = Len(tasks) /\ pc \in Settled => LastTask.pc \in Settled \/ current' = LastTask.room
  PROVE  TasksInv' /\ LastInv' /\ CurrentInv'
<1>1. tasks \in Seq(Task) /\ Len(tasks) \in Nat
  BY LenProperties DEF TasksInv
<1>2. /\ tasks' \in Seq(Task) /\ Len(tasks') = Len(tasks) /\ Insts' = Insts
      /\ \A j \in 1 .. Len(tasks) : /\ tasks'[j].inst = tasks[j].inst /\ tasks'[j].room = tasks[j].room
                                    /\ tasks'[j].pc = IF j = k THEN pc ELSE tasks[j].pc
  BY <1>1, GoneTo
<1>3. TasksInv'
  BY <1>2 DEF TasksInv
<1>4. LastTask'.inst = LastTask.inst /\ LastTask'.room = LastTask.room
      /\ LastTask'.pc = IF k = Len(tasks) THEN pc ELSE LastTask.pc
  BY <1>1, <1>2 DEF LastTask
<1>5. LastInv'
  BY <1>1, <1>2, <1>4 DEF LastInv
<1>6. page'.inst # 0 /\ entry!OneVisit' => page.inst # 0 /\ entry!OneVisit
  BY <1>1, <1>2 DEF entry!OneVisit
<1>7. CurrentInv'
  BY <1>4, <1>6 DEF CurrentInv, LastInv
<1> QED
  BY <1>3, <1>5, <1>7

\* The page is left.
LEMMA Unmounted ==
  ASSUME NEW to \in {NoRoom, "error"}, entry!Unmount(to)
  PROVE  /\ page' \in EntryPage /\ page'.inst = 0 /\ route' = to /\ route' \notin EntryRooms
BY EntryAssumption DEF entry!Unmount, entry!NoPage, EntryPage

\* The lists of rooms, when those for the rooms of asked may change at will.
LEMMA ListsGrow ==
  ASSUME EntryInv, asked \subseteq asked', UNCHANGED <<lastSent, response, sdk>>,
         list' \in SUBSET EntryRooms, entryStore' \in SUBSET EntryRooms,
         \A r \in EntryRooms \ asked' : (r \in list => r \in list') /\ (r \in entryStore' => r \in entryStore \/ r \in list')
  PROVE  ListsInv'
BY DEF EntryInv, ListsInv

\* Steps of a task that leave the lists alone.
LEMMA TaskStep ==
  ASSUME EntryInv, NEW k \in 1 .. Len(tasks),
         \/ entry!ListIsLoaded(k) \/ entry!MemberKnown(k) \/ entry!StillMember(k)
         \/ entry!Listed(k) \/ entry!PublicKnown(k) \/ entry!UpdateEnds(k)
  PROVE  EntryInv'
<1>1. tasks \in Seq(Task) /\ page \in EntryPage /\ tasks[k] \in Task
  BY ElementOfSeq DEF EntryInv, TasksInv
<1>2. /\ entry!PropsId(k) \in EntryRooms
      /\ k = Len(tasks) => ~entry!Stale(k) /\ entry!PropsId(k) = LastTask.room /\ LastTask = tasks[k]
      /\ entry!OneVisit /\ k # Len(tasks) => entry!Stale(k)
  BY <1>1, PropsKnown DEF LastTask
<1>3. UNCHANGED <<member, admitted, lastSent, response>> /\ UNCHANGED <<sdk, entryRoomsLoaded, list, entryStore>>
      /\ UNCHANGED <<route, ops>> /\ UNCHANGED <<dialog, callback>> /\ UNCHANGED <<asked, removals, answers>>
  BY DEF entry!ListIsLoaded, entry!MemberKnown, entry!StillMember, entry!Listed, entry!PublicKnown,
         entry!UpdateEnds, entry!serverVars, entry!storeVars, entry!askVars, entry!bounds
<1>4. HubInv' /\ AskedInv' /\ ListsInv'
  BY <1>3 DEF EntryInv, HubInv, AskedInv, ListsInv
<1>5. PICK pc \in TaskPcs :
        /\ entry!Goto(k, pc)
        /\ page' \in EntryPage /\ page'.inst = page.inst /\ (page'.loading => page.loading)
        /\ current' = current \/ (current' = entry!PropsId(k) /\ ~entry!Stale(k))
        /\ pc = "stopped" => entry!Stale(k)
        /\ pc = "done" => page'.loading = FALSE \/ tasks[k].inst # page.inst
        /\ ~entry!Stale(k) /\ pc \in Settled => tasks[k].pc \in Settled \/ current' = entry!PropsId(k)
  <2>1. CASE entry!ListIsLoaded(k)
    <3>1. /\ entry!Goto(k, IF entry!Stale(k) THEN "stopped" ELSE "member") /\ UNCHANGED <<page, current>>
      BY <2>1 DEF entry!ListIsLoaded
    <3> QED
      BY <1>1, <3>1 DEF TaskPcs, Settled
  <2>2. CASE entry!MemberKnown(k)
    <3>1. /\ entry!Goto(k, IF entry!Stale(k) THEN "stopped"
                           ELSE IF entry!Member(entry!PropsId(k)) THEN "list" ELSE "public")
          /\ current' = IF entry!Stale(k) \/ entry!Member(entry!PropsId(k)) THEN current ELSE entry!PropsId(k)
          /\ UNCHANGED page
      BY <2>2 DEF entry!MemberKnown
    <3> QED
      BY <1>1, <3>1 DEF TaskPcs, Settled
  <2>3. CASE entry!StillMember(k)
    <3>1. /\ entry!Goto(k, IF entry!PropsId(k) \in entryStore \/ ~entry!Member(entry!PropsId(k)) THEN "listed" ELSE "join")
          /\ UNCHANGED <<page, current>>
      BY <2>3 DEF entry!StillMember
    <3> QED
      BY <1>1, <3>1 DEF TaskPcs, Settled
  <2>4. CASE entry!Listed(k)
    <3>1. /\ entry!Goto(k, IF entry!Stale(k) THEN "stopped" ELSE "end") /\ UNCHANGED page
          /\ current' = IF entry!Stale(k) THEN current ELSE entry!PropsId(k)
      BY <2>4 DEF entry!Listed
    <3> QED
      BY <1>1, <3>1 DEF TaskPcs, Settled
  <2>5. CASE entry!PublicKnown(k)
    <3>1. tasks[k].pc \in Settled /\ UNCHANGED current
      BY <2>5 DEF entry!PublicKnown, Settled
    <3>3. CASE entry!Stale(k)
      <4>1. entry!Goto(k, "stopped") /\ UNCHANGED page
        BY <2>5, <3>3 DEF entry!PublicKnown
      <4> QED
        BY <1>1, <3>1, <3>3, <4>1 DEF TaskPcs
    <3>4. CASE ~entry!Stale(k) /\ entry!PropsId(k) \in Secured
      <4>1. entry!Goto(k, "done")
            /\ page' = IF tasks[k].inst = page.inst
                       THEN [page EXCEPT !.loading = FALSE, !.joinDialog = entry!PropsId(k)] ELSE page
        BY <2>5, <3>4 DEF entry!PublicKnown
      <4>2. [page EXCEPT !.loading = FALSE, !.joinDialog = entry!PropsId(k)] \in EntryPage
            /\ [page EXCEPT !.loading = FALSE, !.joinDialog = entry!PropsId(k)].inst = page.inst
            /\ [page EXCEPT !.loading = FALSE, !.joinDialog = entry!PropsId(k)].loading = FALSE
        BY <1>1, <3>4 DEF EntryPage
      <4> QED
        BY <1>1, <3>1, <4>1, <4>2 DEF TaskPcs
    <3>5. CASE ~entry!Stale(k) /\ entry!PropsId(k) \notin Secured
      <4>1. entry!Goto(k, "join public") /\ UNCHANGED page
        BY <2>5, <3>5 DEF entry!PublicKnown
      <4> QED
        BY <1>1, <3>1, <4>1 DEF TaskPcs
    <3> QED
      BY <3>3, <3>4, <3>5
  <2>6. CASE entry!UpdateEnds(k)
    <3>1. tasks[k].pc \in Settled /\ UNCHANGED current
          /\ IF current \in entryStore /\ entry!Stale(k) THEN entry!Goto(k, "stopped") /\ UNCHANGED page
             ELSE /\ entry!Goto(k, "done")
                  /\ page' = IF tasks[k].inst = page.inst THEN [page EXCEPT !.loading = FALSE] ELSE page
      BY <2>6 DEF entry!UpdateEnds, entry!Completed, Settled
    <3>2. [page EXCEPT !.loading = FALSE] \in EntryPage /\ [page EXCEPT !.loading = FALSE].inst = page.inst
          /\ [page EXCEPT !.loading = FALSE].loading = FALSE
      BY <1>1 DEF EntryPage
    <3> QED
      BY <1>1, <3>1, <3>2 DEF TaskPcs
  <2> QED
    BY <2>1, <2>2, <2>3, <2>4, <2>5, <2>6
<1>6. TasksInv /\ LastInv /\ CurrentInv
  BY DEF EntryInv
<1>7. /\ (page'.inst # 0) = (route' \in EntryRooms) /\ route' \in EntryRooms \cup {NoRoom, "error"}
      /\ current' \in EntryRooms \cup {NoRoom}
      /\ page'.inst = 0 \/ (page'.inst = page.inst /\ route' = route /\ (page'.loading => page.loading))
  BY <1>2, <1>3, <1>5, <1>6 DEF TasksInv
<1>8. k = Len(tasks) => pc # "stopped" /\ (pc = "done" => page'.inst = 0 \/ ~page'.loading)
  BY <1>2, <1>5, <1>6 DEF LastInv
<1>9. /\ entry!OneVisit => current' = current \/ (k = Len(tasks) /\ current' = LastTask.room)
      /\ k = Len(tasks) /\ pc \in Settled => LastTask.pc \in Settled \/ current' = LastTask.room
  BY <1>2, <1>5
<1>10. page' \in EntryPage /\ entry!Goto(k, pc)
  BY <1>5
<1>11. TasksInv' /\ LastInv' /\ CurrentInv'
  BY ONLY <1>6, <1>7, <1>8, <1>9, <1>10, TaskGone, pc \in TaskPcs, k \in 1 .. Len(tasks)
<1> QED
  BY <1>4, <1>11 DEF EntryInv

\* Steps of a task that join.
LEMMA TaskJoinStep ==
  ASSUME EntryInv, NEW k \in 1 .. Len(tasks), entry!TaskJoins(k) \/ entry!TaskJoined(k)
  PROVE  EntryInv'
<1>1. tasks \in Seq(Task) /\ page \in EntryPage /\ tasks[k] \in Task
  BY ElementOfSeq DEF EntryInv, TasksInv
<1>2. /\ entry!PropsId(k) \in EntryRooms
      /\ k = Len(tasks) => LastTask = tasks[k]
  BY <1>1, PropsKnown DEF LastTask
<1>3. UNCHANGED <<admitted, lastSent, response, sdk, entryRoomsLoaded, current, ops>> /\ UNCHANGED <<dialog, callback>>
      /\ UNCHANGED <<asked, removals, answers>>
  BY DEF entry!TaskJoins, entry!TaskJoined, entry!serverVars, entry!storeVars, entry!askVars, entry!bounds
<1>4. /\ member' \in [EntryRooms -> Memberships]
      /\ list' \in SUBSET EntryRooms /\ entryStore' \in SUBSET EntryRooms
      /\ \A r \in EntryRooms \ asked' : (r \in list => r \in list') /\ (r \in entryStore' => r \in entryStore \/ r \in list')
  <2>1. CASE entry!TaskJoins(k)
    <3>1. UNCHANGED <<list, entryStore>>
      BY <2>1 DEF entry!TaskJoins, entry!storeVars
    <3>2. UNCHANGED member \/ entry!JoinOnServer(entry!PropsId(k))
      BY <2>1 DEF entry!TaskJoins
    <3>3. member' \in [EntryRooms -> Memberships]
      BY <3>2 DEF entry!JoinOnServer, EntryInv, HubInv, Memberships
    <3> QED
      BY <3>1, <3>3 DEF EntryInv, ListsInv
  <2>2. CASE entry!TaskJoined(k)
    BY <1>2, <2>2 DEF entry!TaskJoined, entry!JoinReturns, entry!UpdateRoomList, entry!serverVars, EntryInv, ListsInv, HubInv
  <2> QED
    BY <2>1, <2>2
<1>5. HubInv' /\ AskedInv'
  BY <1>3, <1>4 DEF EntryInv, HubInv, AskedInv
<1>6. ListsInv'
  BY <1>3, <1>4, ListsGrow
<1>7. PICK pc \in TaskPcs :
        /\ entry!Goto(k, pc) /\ pc \notin {"stopped", "done"}
        /\ pc \in Settled => tasks[k].pc \in Settled
        /\ UNCHANGED <<page, route>> \/ entry!Unmount("error")
  <2>1. CASE entry!TaskJoins(k)
    BY <2>1 DEF entry!TaskJoins, TaskPcs, Settled
  <2>2. CASE entry!TaskJoined(k)
    BY <2>2 DEF entry!TaskJoined, TaskPcs, Settled
  <2> QED
    BY <2>1, <2>2
<1>8. TasksInv /\ LastInv /\ CurrentInv
  BY DEF EntryInv
<1>9. /\ page' \in EntryPage /\ (page'.inst # 0) = (route' \in EntryRooms)
      /\ route' \in EntryRooms \cup {NoRoom, "error"} /\ current' \in EntryRooms \cup {NoRoom}
      /\ page'.inst = 0 \/ (page'.inst = page.inst /\ route' = route /\ (page'.loading => page.loading))
  BY <1>3, <1>7, <1>8, Unmounted DEF TasksInv
<1>10. /\ k = Len(tasks) => pc # "stopped" /\ (pc = "done" => page'.inst = 0 \/ ~page'.loading)
       /\ entry!OneVisit => current' = current \/ (k = Len(tasks) /\ current' = LastTask.room)
       /\ k = Len(tasks) /\ pc \in Settled => LastTask.pc \in Settled \/ current' = LastTask.room
       /\ entry!Goto(k, pc)
  BY <1>2, <1>3, <1>7
<1>11. TasksInv' /\ LastInv' /\ CurrentInv'
  BY ONLY <1>8, <1>9, <1>10, TaskGone, pc \in TaskPcs, k \in 1 .. Len(tasks)
<1> QED
  BY <1>5, <1>6, <1>11 DEF EntryInv

\* Numbers that were given in order stay so when the next one is.
LEMMA NextNumber ==
  ASSUME NEW S, IsFiniteSet(S), S \in SUBSET (1 .. Cardinality(S)), NEW x, x = Cardinality(S) + 1 \/ x \in S
  PROVE  LET T == S \cup {x} IN
         IsFiniteSet(T) /\ T \in SUBSET (1 .. Cardinality(T)) /\ Cardinality(T) <= Cardinality(S) + 1
<1> DEFINE n == Cardinality(S)  T == S \cup {x}
<1>1. n \in Nat /\ IsFiniteSet(T) /\ Cardinality(T) = IF x \in S THEN n ELSE n + 1
  BY FS_CardinalityType, FS_AddElement
<1>2. CASE x \in S
  <2>1. T = S
    BY <1>2
  <2> QED
    BY <1>1, <2>1
<1>3. CASE x \notin S
  <2>1. Cardinality(T) = n + 1 /\ x = n + 1
    BY <1>1, <1>3
  <2>2. T \in SUBSET (1 .. n + 1)
    BY <1>1, <2>1
  <2>3. T \in SUBSET (1 .. Cardinality(T)) /\ Cardinality(T) <= n + 1
    <3> HIDE DEF n, T
    <3> QED
      BY <1>1, <2>1, <2>2
  <2> QED
    BY <1>1, <2>3
<1> QED
  BY <1>2, <1>3

\* The user goes to the page of a room: the page that is on screen, or a new one.
LEMMA VisitStep ==
  ASSUME EntryInv, NEW r \in EntryRooms, entry!Visit(r)
  PROVE  EntryInv'
<1> DEFINE fresh == page.inst = 0
           n == Cardinality(Insts)
           inst == IF fresh THEN 1 + n ELSE page.inst
           p == IF fresh THEN [entry!NoPage EXCEPT !.inst = inst, !.loading = r \notin entryStore] ELSE page
           fast == r \in entryStore \/ sdk[r] = "join"
           t == [inst |-> inst, room |-> r, pc |-> IF fast THEN "done" ELSE "loaded"]
<1>1. tasks \in Seq(Task) /\ Len(tasks) \in Nat /\ page \in EntryPage /\ IsFiniteSet(Insts) /\ n \in Nat
      /\ MaxVisits \in Nat /\ Insts \in SUBSET (1 .. n) /\ n <= Len(tasks)
  BY SMTT(30), LenProperties, FS_CardinalityType, EntryAssumption DEF EntryInv, TasksInv
<1>2. /\ Len(tasks) < MaxVisits /\ route' = r /\ tasks' = Append(tasks, t)
      /\ entryStore' = IF fast THEN entryStore \cup {r} ELSE entryStore
      /\ current' = IF fast THEN r ELSE current
      /\ page' = [p EXCEPT !.loading = ~fast]
      /\ UNCHANGED <<member, admitted, lastSent, response>> /\ UNCHANGED <<sdk, entryRoomsLoaded, list, ops>>
      /\ UNCHANGED <<dialog, callback>> /\ UNCHANGED <<asked, removals, answers>>
  BY EntryCardinality DEF entry!Visit, entry!EnsureRoomFromSdk, entry!FastPath, entry!serverVars, entry!askVars, entry!bounds, Insts
<1>3. HubInv' /\ AskedInv'
  BY <1>2 DEF EntryInv, HubInv, AskedInv
<1>4. ListsInv'
  <2>1. \A x \in EntryRooms \ asked' : (x \in list => x \in list') /\ (x \in entryStore' => x \in entryStore \/ x \in list')
    BY <1>2 DEF EntryInv, ListsInv
  <2>2. asked \subseteq asked' /\ UNCHANGED <<lastSent, response, sdk>> /\ list' \in SUBSET EntryRooms /\ entryStore' \in SUBSET EntryRooms
    BY <1>2 DEF EntryInv, ListsInv
  <2> QED
    BY ONLY <2>1, <2>2, EntryInv, ListsGrow
<1>5. inst \in Nat \ {0} /\ (fresh => inst = n + 1 /\ inst \notin Insts) /\ (~fresh => inst \in Insts)
  <2>1. CASE fresh
    BY <1>1, <2>1
  <2>2. CASE ~fresh
    <3>1. Len(tasks) > 0 /\ LastTask.inst = page.inst
      BY <2>2 DEF EntryInv, LastInv
    <3>2. Len(tasks) \in DOMAIN tasks
      BY <1>1, <3>1, LenProperties
    <3>3. page.inst \in Insts
      BY <3>1, <3>2 DEF Insts, LastTask
    <3> QED
      BY <1>1, <2>2, <3>3
  <2> QED
    BY <2>1, <2>2
<1>6. p \in EntryPage /\ p.inst = inst
  BY <1>1, <1>5 DEF entry!NoPage, EntryPage
<1>7. page' \in EntryPage /\ page'.inst = inst /\ page'.loading = ~fast
  <2> HIDE DEF p, fast
  <2> QED
    BY <1>2, <1>6 DEF EntryPage
<1>8. t \in Task /\ t.inst = inst /\ t.room = r /\ t.pc = IF fast THEN "done" ELSE "loaded"
  BY <1>5 DEF Task, TaskPcs
<1> HIDE DEF t, p, inst
<1>9. /\ tasks' \in Seq(Task) /\ Len(tasks') = Len(tasks) + 1 /\ tasks'[Len(tasks) + 1] = t
      /\ \A k \in 1 .. Len(tasks) : tasks'[k] = tasks[k]
  BY <1>1, <1>2, <1>8, AppendProperties
<1>10. Insts' = Insts \cup {inst}
  <2>1. DOMAIN tasks = 1 .. Len(tasks) /\ DOMAIN tasks' = 1 .. Len(tasks) + 1
    BY <1>1, <1>9, LenProperties
  <2>2. Insts' = {tasks'[k].inst : k \in 1 .. Len(tasks) + 1}
    BY <2>1 DEF Insts
  <2>3. Insts = {tasks[k].inst : k \in 1 .. Len(tasks)}
    BY <2>1 DEF Insts
  <2>4. 1 .. Len(tasks) + 1 = 1 .. Len(tasks) \cup {Len(tasks) + 1}
    BY <1>1
  <2>5. tasks'[Len(tasks) + 1].inst = inst /\ \A k \in 1 .. Len(tasks) : tasks'[k].inst = tasks[k].inst
    BY <1>8, <1>9
  <2> QED
    BY <2>2, <2>3, <2>4, <2>5
<1>11. IsFiniteSet(Insts') /\ Insts' \in SUBSET (1 .. Cardinality(Insts')) /\ Cardinality(Insts') <= Len(tasks')
  <2>1. inst = Cardinality(Insts) + 1 \/ inst \in Insts
    BY <1>1, <1>5
  <2>2. IsFiniteSet(Insts') /\ Insts' \in SUBSET (1 .. Cardinality(Insts')) /\ Cardinality(Insts') <= n + 1
    BY <1>1, <1>10, <2>1, NextNumber
  <2>3. Cardinality(Insts') \in Nat
    BY <2>2, FS_CardinalityType
  <2> QED
    BY <1>1, <1>9, <2>2, <2>3
<1>12. LastTask' = t
  BY <1>9 DEF LastTask
<1>13. TasksInv'
  <2>1. Len(tasks') <= MaxVisits
    BY <1>1, <1>2, <1>9
  <2>2. (page'.inst # 0) = (route' \in EntryRooms) /\ route' \in EntryRooms \cup {NoRoom, "error"}
    BY <1>2, <1>5, <1>7
  <2>3. current' \in EntryRooms \cup {NoRoom}
    BY <1>2 DEF EntryInv, TasksInv
  <2> QED
    BY ONLY <1>7, <1>9, <1>11, <2>1, <2>2, <2>3 DEF TasksInv
<1>14. LastInv'
  <2>1. Len(tasks') > 0
    BY <1>1, <1>9
  <2> QED
    BY <1>2, <1>7, <1>8, <1>12, <2>1 DEF LastInv
<1>15. CurrentInv'
  <2>1. LastTask'.pc \in Settled => fast
    BY <1>8, <1>12 DEF Settled
  <2> QED
    BY <1>2, <2>1 DEF CurrentInv
<1> QED
  BY <1>3, <1>4, <1>13, <1>14, <1>15 DEF EntryInv

\* While no visit and no step of a task is made, the page stays or is left.
LEMMA PageStays ==
  ASSUME EntryInv, UNCHANGED tasks,
         \/ UNCHANGED route /\ page' \in EntryPage /\ page'.inst = page.inst /\ page'.loading = page.loading
         \/ \E to \in {NoRoom, "error"} : entry!Unmount(to),
         current' \in {current, NoRoom}
  PROVE  TasksInv' /\ LastInv' /\ CurrentInv'
<1>2. CASE UNCHANGED route /\ page' \in EntryPage /\ page'.inst = page.inst /\ page'.loading = page.loading
  <2>1. TasksInv' /\ LastInv'
    BY <1>2 DEF EntryInv, TasksInv, LastInv, Insts, LastTask
  <2>2. (entry!OneVisit' => entry!OneVisit) /\ LastTask' = LastTask
    BY <1>2 DEF entry!OneVisit, LastTask
  <2>3. CurrentInv'
    BY <1>2, <2>2 DEF EntryInv, CurrentInv
  <2> QED
    BY <2>1, <2>3
<1>3. CASE \E to \in {NoRoom, "error"} : entry!Unmount(to)
  <2>1. page' \in EntryPage /\ page'.inst = 0 /\ route' \in {NoRoom, "error"} /\ route' \notin EntryRooms
    BY <1>3, Unmounted
  <2> QED
    BY <2>1 DEF EntryInv, TasksInv, LastInv, CurrentInv, Insts
<1> QED
  BY <1>2, <1>3

\* What others and sliding sync do leaves the page alone.
LEMMA HubStep ==
  ASSUME EntryInv,
         \/ \E r \in EntryRooms, how \in {"kicked", "ban"} : entry!Remove(r, how)
         \/ \E busy \in SUBSET EntryRooms : entry!SyncAnswers(busy)
         \/ entry!Complete
  PROVE  EntryInv'
<1>1. /\ UNCHANGED <<tasks, route, page, current, ops>> /\ UNCHANGED <<dialog, callback>> /\ UNCHANGED <<asked, entryStore>>
  BY DEF entry!Remove, entry!SyncAnswers, entry!Complete, entry!storeVars, entry!pageVars, entry!askVars, entry!bounds
<1>2. TasksInv' /\ LastInv' /\ CurrentInv'
  <2>1. UNCHANGED route /\ page' \in EntryPage /\ page'.inst = page.inst /\ page'.loading = page.loading
    BY <1>1 DEF EntryInv, TasksInv
  <2> QED
    BY <1>1, <2>1, PageStays
<1>3. AskedInv'
  BY <1>1 DEF EntryInv, AskedInv
<1>4. Cardinality(asked) \in Nat /\ MaxMoves \in Nat /\ MaxAnswers \in Nat
  BY FS_CardinalityType, EntryAssumption DEF EntryInv, HubInv
<1>5. HubInv' /\ ListsInv'
  <2>1. CASE \E r \in EntryRooms, how \in {"kicked", "ban"} : entry!Remove(r, how)
    <3>1. PICK r \in EntryRooms, how \in {"kicked", "ban"} : entry!Remove(r, how)
      BY <2>1
    <3>2. /\ removals + Cardinality(asked) < MaxMoves /\ removals' = removals + 1
          /\ member' = [member EXCEPT ![r] = how] /\ admitted' = admitted \ {r}
          /\ UNCHANGED <<lastSent, response, sdk, entryRoomsLoaded, list, answers>>
      BY <3>1, EntryCardinality DEF entry!Remove, entry!storeVars
    <3>3. member' \in [EntryRooms -> Memberships] /\ admitted' \in SUBSET Secured
      BY <3>2 DEF EntryInv, HubInv, Memberships
    <3>4. removals' \in Nat /\ removals' + Cardinality(asked) <= MaxMoves
      BY <1>4, <3>2 DEF EntryInv, HubInv
    <3> QED
      BY <1>1, <3>2, <3>3, <3>4 DEF EntryInv, HubInv, ListsInv
  <2>2. CASE \E busy \in SUBSET EntryRooms : entry!SyncAnswers(busy)
    <3>1. PICK busy \in SUBSET EntryRooms : entry!SyncAnswers(busy)
      BY <2>2
    <3>2. /\ answers < MaxAnswers /\ answers' = answers + 1 /\ response = entry!NoAnswer /\ lastSent' = member
          /\ response' = [r \in EntryRooms |-> IF member[r] # lastSent[r] THEN member[r]
                            ELSE IF entry!Member(r) /\ r \in busy THEN "quiet" ELSE "absent"]
          /\ entryRoomsLoaded' \in {TRUE, entryRoomsLoaded}
          /\ UNCHANGED <<member, admitted, sdk, list, removals>>
      BY <3>1 DEF entry!SyncAnswers
    <3>3. response' \in [EntryRooms -> Memberships \cup {"absent", "quiet"}] /\ lastSent' \in [EntryRooms -> Memberships]
      BY <3>2 DEF EntryInv, HubInv
    <3>4. answers' \in 0 .. MaxAnswers
      BY <1>4, <3>2 DEF EntryInv, HubInv
    <3>5. HubInv'
      BY <1>1, <3>2, <3>3, <3>4 DEF EntryInv, HubInv
    <3>6. ASSUME NEW r \in EntryRooms \ asked, lastSent'[r] = "join" PROVE r \in list' \/ response'[r] = "join"
      <4>1. lastSent[r] = "join" => r \in list
        BY <3>2 DEF EntryInv, ListsInv, entry!NoAnswer
      <4> QED
        BY <3>2, <3>6, <4>1
    <3> QED
      BY <1>1, <3>2, <3>5, <3>6 DEF EntryInv, ListsInv
  <2>3. CASE entry!Complete
    <3> DEFINE out == {r \in EntryRooms : response[r] \in {"out", "kicked", "ban"}}
               in == {r \in EntryRooms : response[r] \in {"join", "quiet"}}
    <3>1. /\ response' = entry!NoAnswer /\ entryRoomsLoaded' = TRUE
          /\ sdk' = [r \in EntryRooms |-> IF response[r] = "quiet" THEN "join"
                       ELSE IF response[r] = "absent" THEN sdk[r] ELSE response[r]]
          /\ list' = list \cup ({r \in in : ~(r \in entryStore /\ response[r] = "join")} \ out)
          /\ UNCHANGED <<member, admitted, lastSent, removals, answers>>
      BY <2>3 DEF entry!Complete, entry!UpdateRoomList, entry!bounds
    <3>2. response' \in [EntryRooms -> Memberships \cup {"absent", "quiet"}]
          /\ sdk' \in [EntryRooms -> Memberships \cup {"absent"}]
      BY <3>1 DEF EntryInv, HubInv, entry!NoAnswer, Memberships
    <3>3. HubInv'
      BY <1>1, <3>1, <3>2 DEF EntryInv, HubInv
    <3>4. ASSUME NEW r \in EntryRooms \ asked
          PROVE  /\ r \in entryStore \/ sdk'[r] = "join" => r \in list'
                 /\ lastSent[r] = "join" => r \in list'
      <4>1. response[r] \in {"join", "quiet"} => r \in list'
        BY <3>1 DEF EntryInv, ListsInv
      <4>2. sdk'[r] = "join" => sdk[r] = "join" \/ response[r] \in {"join", "quiet"}
        BY <3>1
      <4>3. r \in list => r \in list'
        BY <3>1
      <4> QED
        BY <4>1, <4>2, <4>3 DEF EntryInv, ListsInv
    <3>5. list' \in SUBSET EntryRooms
      BY <3>1 DEF EntryInv, ListsInv
    <3> QED
      BY <1>1, <3>1, <3>3, <3>4, <3>5 DEF EntryInv, ListsInv
  <2> QED
    BY <2>1, <2>2, <2>3
<1> QED
  BY <1>2, <1>3, <1>5 DEF EntryInv

\* What the user does on the page and in the dialogs.
LEMMA UserStep ==
  ASSUME EntryInv,
         \/ entry!GoHome \/ entry!Disclose \/ entry!CloseJoinDialog \/ entry!Removed
         \/ entry!AnswerYes \/ entry!AnswerNo \/ \E r \in EntryRooms : entry!AskToLeave(r)
  PROVE  EntryInv'
<1>1. /\ UNCHANGED <<member, lastSent, response>> /\ UNCHANGED <<sdk, entryRoomsLoaded, list, entryStore>>
      /\ UNCHANGED <<current, tasks>> /\ UNCHANGED <<removals, answers>>
  BY DEF entry!GoHome, entry!Disclose, entry!CloseJoinDialog, entry!Removed, entry!AnswerYes, entry!AnswerNo,
         entry!AskToLeave, entry!serverVars, entry!storeVars, entry!pageVars, entry!bounds
<1>2. \/ asked' = asked /\ admitted' = admitted
      \/ entry!Disclose /\ asked' = asked
      \/ \E r \in EntryRooms : entry!AskToLeave(r) /\ admitted' = admitted
  BY DEF entry!GoHome, entry!Disclose, entry!CloseJoinDialog, entry!Removed, entry!AnswerYes, entry!AnswerNo,
         entry!AskToLeave, entry!serverVars, entry!bounds
<1>3. page \in EntryPage /\ page.joinDialog \in Secured \cup {NoRoom} /\ Secured \subseteq EntryRooms
  BY EntryAssumption DEF EntryInv, TasksInv, EntryPage
<1>4. \/ UNCHANGED route /\ page' \in EntryPage /\ page'.inst = page.inst /\ page'.loading = page.loading
      \/ \E to \in {NoRoom, "error"} : entry!Unmount(to)
  <2>1. CASE entry!Disclose \/ entry!CloseJoinDialog
    <3>1. page' = [page EXCEPT !.joinDialog = NoRoom] /\ UNCHANGED route
      BY <2>1 DEF entry!Disclose, entry!CloseJoinDialog
    <3> QED
      BY <1>3, <3>1 DEF EntryPage
  <2>2. CASE entry!GoHome \/ entry!Removed
    BY <2>2 DEF entry!GoHome, entry!Removed
  <2>3. CASE entry!AnswerYes \/ entry!AnswerNo \/ \E r \in EntryRooms : entry!AskToLeave(r)
    BY <1>3, <2>3 DEF entry!AnswerYes, entry!AnswerNo, entry!AskToLeave, entry!pageVars
  <2> QED
    BY <2>1, <2>2, <2>3
<1>5. TasksInv' /\ LastInv' /\ CurrentInv'
  BY <1>1, <1>4, PageStays
<1>6. HubInv' /\ asked \subseteq asked'
  <2>1. CASE asked' = asked /\ admitted' = admitted
    BY <1>1, <2>1 DEF EntryInv, HubInv
  <2>2. CASE entry!Disclose /\ asked' = asked
    <3>1. admitted' = admitted \cup {page.joinDialog} /\ page.joinDialog # NoRoom
      BY <2>2 DEF entry!Disclose
    <3> QED
      BY <1>1, <1>3, <2>2, <3>1 DEF EntryInv, HubInv
  <2>3. CASE \E r \in EntryRooms : entry!AskToLeave(r) /\ admitted' = admitted
    <3>1. PICK r \in EntryRooms : entry!AskToLeave(r) /\ admitted' = admitted
      BY <2>3
    <3>2. removals + Cardinality(asked) < MaxMoves /\ asked' = asked \cup {r}
      BY <3>1, EntryCardinality DEF entry!AskToLeave
    <3>3. IsFiniteSet(asked') /\ Cardinality(asked') <= Cardinality(asked) + 1 /\ Cardinality(asked) \in Nat
          /\ Cardinality(asked') \in Nat /\ MaxMoves \in Nat
      <4>1. IsFiniteSet(asked)
        BY DEF EntryInv, HubInv
      <4>2. Cardinality(asked) \in Nat /\ IsFiniteSet(asked')
            /\ Cardinality(asked') = IF r \in asked THEN Cardinality(asked) ELSE Cardinality(asked) + 1
        BY <3>2, <4>1, FS_CardinalityType, FS_AddElement
      <4> QED
        BY <4>2, FS_CardinalityType, EntryAssumption
    <3>4. removals' \in Nat /\ removals' + Cardinality(asked') <= MaxMoves
      BY <1>1, <3>2, <3>3 DEF EntryInv, HubInv
    <3> QED
      BY <1>1, <3>1, <3>2, <3>3, <3>4 DEF EntryInv, HubInv
  <2> QED
    BY <1>2, <2>1, <2>2, <2>3
<1>7. ListsInv'
  BY <1>1, <1>6 DEF EntryInv, ListsInv
<1>8. AskedInv'
  <2>1. CASE entry!GoHome \/ entry!CloseJoinDialog
    <3>1. UNCHANGED <<ops, dialog, callback>>
      BY <2>1 DEF entry!GoHome, entry!CloseJoinDialog, entry!askVars
    <3> QED
      BY <1>6, <3>1 DEF EntryInv, AskedInv
  <2>2. CASE entry!Disclose
    <3> DEFINE o == [kind |-> "join", room |-> page.joinDialog, pc |-> "call"]
    <3>1. ops' = ops \cup {o} /\ UNCHANGED <<dialog, callback>> /\ page.joinDialog # NoRoom
      BY <2>2 DEF entry!Disclose, entry!askVars
    <3>2. o \in EntryOp /\ o.kind = "join"
      BY <1>3, <3>1 DEF EntryOp
    <3> HIDE DEF o
    <3> QED
      BY <1>6, <3>1, <3>2 DEF EntryInv, AskedInv
  <2>3. CASE entry!Removed
    <3>1. UNCHANGED ops /\ (UNCHANGED <<dialog, callback>>
            \/ (dialog' = [what |-> "kick", room |-> current] /\ callback' = current))
      BY <2>3 DEF entry!Removed, entry!askVars
    <3>2. current \in EntryRooms \cup {NoRoom}
      BY DEF EntryInv, TasksInv
    <3> QED
      BY <1>6, <3>1, <3>2 DEF EntryInv, AskedInv
  <2>4. CASE entry!AnswerYes
    <3> DEFINE j == [kind |-> "join", room |-> callback, pc |-> "call"]
               l == [kind |-> "leave", room |-> dialog.room, pc |-> "call"]
    <3>1. /\ dialog' = entry!NoDialog /\ callback' = NoRoom
          /\ ops' = ops \cup (IF callback = NoRoom THEN {} ELSE {j}) \cup (IF dialog.what # "leave" THEN {} ELSE {l})
      BY <2>4 DEF entry!AnswerYes
    <3>2. /\ callback # NoRoom => j \in EntryOp /\ j.kind = "join"
          /\ dialog.what = "leave" => l \in EntryOp /\ l.room \in asked
      BY DEF EntryInv, AskedInv, EntryOp, HubInv
    <3>3. dialog' \in [what : {"none", "kick", "leave"}, room : EntryRooms \cup {NoRoom}] /\ dialog'.what = "none"
      BY <3>1 DEF entry!NoDialog
    <3> HIDE DEF j, l
    <3>4. ops' \in SUBSET EntryOp /\ \A o \in ops' : o.kind = "leave" => o.room \in asked'
      BY <1>6, <3>1, <3>2 DEF EntryInv, AskedInv
    <3> QED
      BY <3>1, <3>3, <3>4 DEF AskedInv
  <2>5. CASE entry!AnswerNo
    <3>1. dialog' = entry!NoDialog /\ UNCHANGED <<ops, callback>>
      BY <2>5 DEF entry!AnswerNo
    <3>2. dialog' \in [what : {"none", "kick", "leave"}, room : EntryRooms \cup {NoRoom}] /\ dialog'.what = "none"
      BY <3>1 DEF entry!NoDialog
    <3> QED
      BY <1>6, <3>1, <3>2 DEF EntryInv, AskedInv
  <2>6. CASE \E r \in EntryRooms : entry!AskToLeave(r)
    <3>1. PICK r \in EntryRooms : entry!AskToLeave(r)
      BY <2>6
    <3>2. dialog' = [what |-> "leave", room |-> r] /\ asked' = asked \cup {r} /\ UNCHANGED <<ops, callback>>
      BY <3>1 DEF entry!AskToLeave
    <3>3. dialog' \in [what : {"none", "kick", "leave"}, room : EntryRooms \cup {NoRoom}]
          /\ dialog'.what = "leave" /\ dialog'.room = r
      BY <3>2
    <3> QED
      BY <3>2, <3>3 DEF EntryInv, AskedInv
  <2> QED
    BY <2>1, <2>2, <2>3, <2>4, <2>5, <2>6
<1> QED
  BY <1>5, <1>6, <1>7, <1>8 DEF EntryInv

\* Joining and leaving outside update().
LEMMA OpMoves ==
  ASSUME EntryInv, NEW o \in ops, entry!Joins(o) \/ entry!Joined(o) \/ entry!Leaves(o) \/ entry!Left(o)
  PROVE  EntryInv'
<1>1. o \in EntryOp /\ o.room \in EntryRooms /\ (o.kind = "leave" => o.room \in asked)
  BY DEF EntryInv, AskedInv, EntryOp
<1>2. /\ UNCHANGED <<lastSent, response, sdk>> /\ UNCHANGED <<entryRoomsLoaded, tasks>> /\ UNCHANGED <<dialog, callback>>
      /\ UNCHANGED <<asked, removals, answers>>
  BY DEF entry!Joins, entry!Joined, entry!Leaves, entry!Left, entry!serverVars, entry!storeVars, entry!pageVars,
         entry!askVars, entry!bounds
<1>3. /\ ops' \in SUBSET EntryOp
      /\ \A q \in ops' : q.kind = "leave" => q.room \in asked
  <2> DEFINE q == [o EXCEPT !.pc = "after"]
  <2>1. ops' = (ops \ {o}) \cup {q} \/ ops' = ops \ {o}
    BY DEF entry!Joins, entry!Joined, entry!Leaves, entry!Left, entry!OpStep
  <2>2. q \in EntryOp /\ q.kind = o.kind /\ q.room = o.room
    BY <1>1 DEF EntryOp
  <2> HIDE DEF q
  <2> QED
    BY <1>1, <2>1, <2>2 DEF EntryInv, AskedInv
<1>4. AskedInv'
  BY <1>2, <1>3 DEF EntryInv, AskedInv
<1>5. /\ member' \in [EntryRooms -> Memberships] /\ admitted' \in SUBSET Secured
      /\ list' \in SUBSET EntryRooms /\ entryStore' \in SUBSET EntryRooms
      /\ \A r \in EntryRooms \ asked' : (r \in list => r \in list') /\ (r \in entryStore' => r \in entryStore \/ r \in list')
      /\ current' \in {current, NoRoom}
      /\ UNCHANGED <<page, route>> \/ \E to \in {NoRoom, "error"} : entry!Unmount(to)
  <2>1. CASE entry!Joins(o)
    <3>1. UNCHANGED <<admitted, list, entryStore, current>>
      BY <2>1 DEF entry!Joins, entry!storeVars
    <3>2. UNCHANGED member \/ entry!JoinOnServer(o.room)
      BY <2>1 DEF entry!Joins
    <3>3. member' \in [EntryRooms -> Memberships]
      BY <3>2 DEF entry!JoinOnServer, EntryInv, HubInv, Memberships
    <3>4. UNCHANGED <<page, route>> \/ entry!Unmount("error")
      BY <2>1 DEF entry!Joins
    <3> QED
      BY <3>1, <3>3, <3>4 DEF EntryInv, ListsInv, HubInv
  <2>2. CASE entry!Joined(o)
    <3>1. /\ entryStore' = entryStore \cup {o.room} /\ list' = list \cup {o.room}
          /\ UNCHANGED <<member, admitted, current, page, route>>
      BY <2>2 DEF entry!Joined, entry!JoinReturns, entry!UpdateRoomList, entry!serverVars, entry!pageVars
    <3> QED
      BY <1>1, <3>1 DEF EntryInv, ListsInv, HubInv
  <2>3. CASE entry!Leaves(o)
    <3>1. /\ member' = [member EXCEPT ![o.room] = IF @ = "join" THEN "out" ELSE @] /\ admitted' = admitted \ {o.room}
          /\ UNCHANGED <<list, entryStore, current, page, route>>
      BY <2>3 DEF entry!Leaves, entry!storeVars, entry!pageVars
    <3>2. member' \in [EntryRooms -> Memberships]
      BY <3>1 DEF EntryInv, HubInv, Memberships
    <3> QED
      BY <3>1, <3>2 DEF EntryInv, ListsInv, HubInv
  <2>4. CASE entry!Left(o)
    <3>1. /\ entryStore' = entryStore \ {o.room} /\ list' = list \ {o.room} /\ o.kind = "leave"
          /\ current' \in {current, NoRoom} /\ UNCHANGED <<member, admitted>>
          /\ UNCHANGED <<page, route>> \/ entry!Unmount(NoRoom)
      BY <2>4 DEF entry!Left, entry!serverVars
    <3> QED
      BY <1>1, <1>2, <3>1 DEF EntryInv, ListsInv, HubInv
  <2> QED
    BY <2>1, <2>2, <2>3, <2>4
<1>6. HubInv'
  BY <1>2, <1>5 DEF EntryInv, HubInv
<1>7. ListsInv'
  BY <1>2, <1>5, ListsGrow
<1>8. TasksInv' /\ LastInv' /\ CurrentInv'
  <2>1. page \in EntryPage
    BY DEF EntryInv, TasksInv
  <2>2. \/ UNCHANGED route /\ page' \in EntryPage /\ page'.inst = page.inst /\ page'.loading = page.loading
        \/ \E to \in {NoRoom, "error"} : entry!Unmount(to)
    BY <1>5, <2>1
  <2> QED
    BY <1>2, <1>5, <2>2, PageStays
<1> QED
  BY <1>4, <1>6, <1>7, <1>8 DEF EntryInv

LEMMA EntryStep == EntryInv /\ (entry!Next \/ UNCHANGED entryVars) => EntryInv'
<1> SUFFICES ASSUME EntryInv, entry!Next \/ UNCHANGED entryVars PROVE EntryInv'
  OBVIOUS
<1>1. CASE UNCHANGED entryVars
  <2>1. HubInv' /\ AskedInv' /\ ListsInv'
    BY <1>1 DEF entryVars, EntryInv, HubInv, AskedInv, ListsInv
  <2>2. TasksInv' /\ LastInv' /\ CurrentInv'
    <3>1. UNCHANGED <<tasks, route, page, current>>
      BY <1>1 DEF entryVars
    <3>2. page' \in EntryPage
      BY <3>1 DEF EntryInv, TasksInv
    <3> QED
      BY <3>1, <3>2, PageStays
  <2> QED
    BY <2>1, <2>2 DEF EntryInv
<1>2. CASE \E r \in EntryRooms : entry!Visit(r)
  BY <1>2, VisitStep
<1>3. CASE \/ \E r \in EntryRooms, how \in {"kicked", "ban"} : entry!Remove(r, how)
           \/ \E busy \in SUBSET EntryRooms : entry!SyncAnswers(busy)
           \/ entry!Complete
  BY <1>3, HubStep
<1>4. CASE \/ entry!GoHome \/ entry!Disclose \/ entry!CloseJoinDialog \/ entry!Removed
           \/ entry!AnswerYes \/ entry!AnswerNo \/ \E r \in EntryRooms : entry!AskToLeave(r)
  BY <1>4, UserStep
<1>5. CASE \E k \in 1 .. Len(tasks) :
             \/ entry!ListIsLoaded(k) \/ entry!MemberKnown(k) \/ entry!StillMember(k)
             \/ entry!Listed(k) \/ entry!PublicKnown(k) \/ entry!UpdateEnds(k)
  BY <1>5, TaskStep
<1>6. CASE \E k \in 1 .. Len(tasks) : entry!TaskJoins(k) \/ entry!TaskJoined(k)
  BY <1>6, TaskJoinStep
<1>7. CASE \E o \in ops : entry!Joins(o) \/ entry!Joined(o) \/ entry!Leaves(o) \/ entry!Left(o)
  BY <1>7, OpMoves
<1>8. entry!Next =>
        \/ \E r \in EntryRooms : entry!Visit(r)
        \/ \E r \in EntryRooms, how \in {"kicked", "ban"} : entry!Remove(r, how)
        \/ \E busy \in SUBSET EntryRooms : entry!SyncAnswers(busy)
        \/ entry!Complete \/ entry!GoHome \/ entry!Disclose \/ entry!CloseJoinDialog \/ entry!Removed
        \/ entry!AnswerYes \/ entry!AnswerNo
        \/ \E r \in EntryRooms : entry!AskToLeave(r)
        \/ \E k \in 1 .. Len(tasks) :
             \/ entry!ListIsLoaded(k) \/ entry!MemberKnown(k) \/ entry!StillMember(k)
             \/ entry!Listed(k) \/ entry!PublicKnown(k) \/ entry!UpdateEnds(k)
             \/ entry!TaskJoins(k) \/ entry!TaskJoined(k)
        \/ \E o \in ops : entry!Joins(o) \/ entry!Joined(o) \/ entry!Leaves(o) \/ entry!Left(o)
  BY DEF entry!Next
<1> QED
  BY <1>1, <1>2, <1>3, <1>4, <1>5, <1>6, <1>7, <1>8

LEMMA EntryStart == entry!Init => EntryInv
<1> SUFFICES ASSUME entry!Init PROVE EntryInv
  OBVIOUS
<1>1. /\ member \in [EntryRooms -> {"out", "join"}] /\ admitted = {} /\ lastSent = [r \in EntryRooms |-> "out"]
      /\ response = entry!NoAnswer /\ sdk = [r \in EntryRooms |-> "absent"] /\ entryRoomsLoaded = FALSE
      /\ list = {} /\ entryStore = {} /\ current = NoRoom /\ route = NoRoom /\ page = entry!NoPage
      /\ tasks = <<>> /\ ops = {} /\ dialog = entry!NoDialog /\ callback = NoRoom /\ asked = {}
      /\ removals = 0 /\ answers = 0
  BY DEF entry!Init
<1>2. MaxVisits \in Nat /\ MaxMoves \in Nat /\ MaxAnswers \in Nat
  BY EntryAssumption
<1>3. IsFiniteSet({}) /\ Cardinality({}) = 0
  BY FS_EmptySet
<1>4. HubInv
  <2>1. member \in [EntryRooms -> Memberships] /\ lastSent \in [EntryRooms -> Memberships]
        /\ response \in [EntryRooms -> Memberships \cup {"absent", "quiet"}]
        /\ sdk \in [EntryRooms -> Memberships \cup {"absent"}]
    BY <1>1 DEF Memberships, entry!NoAnswer
  <2>2. admitted \in SUBSET Secured /\ entryRoomsLoaded \in BOOLEAN /\ asked \in SUBSET EntryRooms
    BY <1>1
  <2>3. IsFiniteSet(asked) /\ Cardinality(asked) = 0
    BY <1>1, <1>3
  <2>4. answers \in 0 .. MaxAnswers /\ removals \in Nat /\ removals + Cardinality(asked) <= MaxMoves
    BY <1>1, <1>2, <2>3
  <2> QED
    BY <2>1, <2>2, <2>3, <2>4 DEF HubInv
<1>5. AskedInv
  BY <1>1 DEF AskedInv, entry!NoDialog
<1>6. ListsInv
  BY <1>1 DEF ListsInv
<1>7. page \in EntryPage /\ page.inst = 0
  BY <1>1 DEF entry!NoPage, EntryPage
<1>8. Insts = {} /\ tasks \in Seq(Task) /\ Len(tasks) = 0
  <2>1. DOMAIN tasks = {}
    BY <1>1
  <2> QED
    BY <1>1, <2>1, EmptySeq DEF Insts
<1>9. TasksInv
  BY <1>1, <1>2, <1>3, <1>7, <1>8, EntryAssumption DEF TasksInv
<1> QED
  BY <1>4, <1>5, <1>6, <1>7, <1>9 DEF EntryInv, LastInv, CurrentInv

\* The lists settle and the page is that of the route, however the calls of
\* update() overtake one another, sliding sync answers, and the user comes and
\* goes: the theorem is about RoomsSettle, for any rooms and any number of visits,
\* removals and answers.
THEOREM EntrySettles == Spec => []RoomsSettle
<1> DEFINE I == part = "entry" => EntryInv
<1>1. Init => I
  BY Parts, EntryStart
<1>2. I /\ [Next]_vars => I'
  BY Parts, EntryStep
<1>3. EntryInv => entry!JoinedAreListed /\ entry!SpinnerEnds /\ entry!CurrentIsRoute
  <2> SUFFICES ASSUME EntryInv PROVE entry!JoinedAreListed /\ entry!SpinnerEnds /\ entry!CurrentIsRoute
    OBVIOUS
  <2>1. entry!JoinedAreListed
    BY DEF EntryInv, ListsInv, entry!JoinedAreListed, entry!NoAnswer, entry!Member
  <2>2. ASSUME page.inst # 0, ~entry!Running(Len(tasks)) PROVE LastTask.pc = "done" /\ ~page.loading
    <3>1. LastTask.pc \in {"done", "stopped"}
      BY <2>2 DEF entry!Running, LastTask
    <3> QED
      BY <2>2, <3>1 DEF EntryInv, LastInv
  <2>3. entry!SpinnerEnds
    BY <2>2 DEF entry!SpinnerEnds
  <2>4. entry!CurrentIsRoute
    BY <2>2 DEF EntryInv, CurrentInv, Settled, entry!CurrentIsRoute
  <2> QED
    BY <2>1, <2>3, <2>4
<1>4. I => RoomsSettle
  BY <1>3 DEF RoomsSettle
<1> QED
  BY <1>1, <1>2, <1>4, PTL DEF Spec

-----------------------------------------------------------------------------
(* Forum: votes agree, and the order of a post comes.                      *)

VoteKeys == {"up", "down", "other", "none"}
LogEntry == [op : {"add", "redact"}, id : Nat, on : forum!Comments, key : VoteKeys]
VoteCall == [by : Clients, on : forum!Comments, emoji : BOOLEAN, other : SUBSET Nat, same : SUBSET Nat,
             key : VoteKeys]
Redacted == {log[j].id : j \in {n \in DOMAIN log : log[n].op = "redact"}}

PostInv ==
  /\ \A m \in forum!Comments : parent[m] < m
  /\ gone \subseteq held /\ held \subseteq forum!Comments /\ DOMAIN ranks \subseteq held
  /\ settling => open /\ ~frozen
  /\ open /\ ~frozen => settling

\* A client hides what it has heard to be deleted, and nothing that is not.
LogInv ==
  /\ log \in Seq(LogEntry) /\ \A j \in DOMAIN log : log[j].op = "redact" => log[j].id \in forum!Adds
  /\ told \in [Clients -> Nat] /\ hidden \in [Clients -> SUBSET Nat]
  /\ \A c \in Clients :
       /\ told[c] <= Len(log) /\ hidden[c] \subseteq Redacted
       /\ \A j \in 1 .. told[c] : log[j].op = "redact" => log[j].id \in hidden[c]

\* A call takes back reactions to the comment it is about; a client has one
\* call for votes on it.
CallsInv ==
  /\ forumOps \in SUBSET VoteCall
  /\ \A o \in forumOps : \A i \in o.other \cup o.same : i \in forum!Adds /\ log[i].on = o.on
  /\ \A o, p \in forumOps : o.by = p.by /\ o.on = p.on /\ ~o.emoji /\ ~p.emoji => o = p

ForumInv == PostInv /\ LogInv /\ CallsInv

\* The comments on the screen and the order of the post.
LEMMA PostStep == PostInv /\ (forum!ForumNext \/ UNCHANGED forumVars) => PostInv'
<1> SUFFICES ASSUME PostInv, forum!ForumNext \/ UNCHANGED forumVars PROVE PostInv'
  OBVIOUS
<1>1. ASSUME UNCHANGED <<parent, gone>>, held \subseteq held', held' \subseteq forum!Comments, UNCHANGED open, forum!Watch
      PROVE  PostInv'
  <2>1. CASE ~open \/ frozen
    BY <1>1, <2>1 DEF PostInv, forum!Watch, forum!IsFrozen
  <2>2. CASE open /\ ~frozen /\ held' = {}
    BY <1>1, <2>2 DEF PostInv, forum!Watch, forum!IsFrozen
  <2>3. CASE open /\ ~frozen /\ held' # {}
    BY <1>1, <2>3 DEF PostInv, forum!Watch, forum!IsFrozen
  <2> QED
    BY <2>1, <2>2, <2>3
<1>2. ASSUME NEW c, UNCHANGED <<parent, held, gone>>, UNCHANGED open, forum!WatchOf(c) PROVE PostInv'
  <2>1. CASE c = Viewer
    BY <1>1, <1>2, <2>1 DEF PostInv, forum!WatchOf
  <2>2. CASE c # Viewer
    BY <1>2, <2>2 DEF PostInv, forum!WatchOf
  <2> QED
    BY <2>1, <2>2
<1>3. CASE UNCHANGED forumVars
  BY <1>3 DEF forumVars, PostInv
<1>4. CASE \/ \E c \in Clients, m \in Voted, key \in forum!VoteKey : forum!Vote(c, m, key)
           \/ \E c \in Clients, m \in Voted : forum!ToggleReaction(c, m)
  BY <1>4 DEF forum!Vote, forum!ToggleReaction, forum!treeVars, forum!viewVars, PostInv
<1>5. CASE \E o \in forumOps, ok \in BOOLEAN : forum!Request(o, ok)
  BY <1>2, <1>5 DEF forum!Request, forum!treeVars
<1>6. CASE \E c \in Clients : forum!Hear(c)
  BY <1>2, <1>6 DEF forum!Hear, forum!treeVars
<1>7. CASE \E m \in forum!Comments : forum!Arrives(m)
  BY <1>1, <1>7 DEF forum!Arrives, PostInv
<1>8. CASE \E m \in forum!Comments : forum!Deleted(m)
  <2>1. PICK m \in held \ gone : gone' = gone \cup {m} /\ UNCHANGED <<held, parent, open>> /\ forum!Watch
    BY <1>8 DEF forum!Deleted
  <2>2. CASE ~open \/ frozen
    BY <2>1, <2>2 DEF PostInv, forum!Watch, forum!IsFrozen
  <2>3. CASE open /\ ~frozen
    BY <2>1, <2>3 DEF PostInv, forum!Watch, forum!IsFrozen
  <2> QED
    BY <2>2, <2>3
<1>9. CASE forum!ChangeTopic
  <2>1. open' = TRUE /\ frozen' = (held = {}) /\ ranks' = <<>> /\ settling' = (held # {}) /\ UNCHANGED <<parent, held, gone>>
    BY <1>9 DEF forum!ChangeTopic, forum!treeVars
  <2>2. DOMAIN ranks' = {}
    BY <2>1
  <2> QED
    BY <2>1, <2>2 DEF PostInv
<1>10. CASE forum!BackToFeed
  <2>1. open' = FALSE /\ frozen' = FALSE /\ ranks' = <<>> /\ settling' = FALSE /\ UNCHANGED <<parent, held, gone>>
    BY <1>10 DEF forum!BackToFeed, forum!treeVars
  <2>2. DOMAIN ranks' = {}
    BY <2>1
  <2> QED
    BY <2>1, <2>2 DEF PostInv
<1>11. CASE forum!FreezeVoteOrder
  <2>1. settling' = FALSE /\ frozen' = TRUE /\ ranks' = forum!VoteRanks(held, gone) /\ UNCHANGED <<parent, held, gone, open>>
    BY <1>11 DEF forum!FreezeVoteOrder, forum!treeVars
  <2>2. DOMAIN forum!VoteRanks(held, gone) \subseteq held
    BY DEF forum!VoteRanks, forum!Displayed
  <2> QED
    BY <2>1, <2>2 DEF PostInv
<1> QED
  BY <1>3, <1>4, <1>5, <1>6, <1>7, <1>8, <1>9, <1>10, <1>11 DEF forum!ForumNext

\* What is kept of the log as it grows.
LEMMA LogGrows ==
  ASSUME LogInv, NEW e \in LogEntry, log' = Append(log, e)
  PROVE  /\ log' \in Seq(LogEntry) /\ Len(log') = Len(log) + 1 /\ DOMAIN log' = 1 .. Len(log) + 1
         /\ Len(log) \in Nat /\ DOMAIN log = 1 .. Len(log)
         /\ log'[Len(log) + 1] = e /\ \A i \in DOMAIN log : log'[i] = log[i]
         /\ forum!Adds \subseteq forum!Adds' /\ Redacted \subseteq Redacted'
         /\ e.op = "redact" => e.id \in Redacted'
<1>1. Len(log) \in Nat /\ DOMAIN log = 1 .. Len(log)
  BY LenProperties DEF LogInv
<1>2. /\ log' \in Seq(LogEntry) /\ Len(log') = Len(log) + 1
      /\ log'[Len(log) + 1] = e /\ \A i \in 1 .. Len(log) : log'[i] = log[i]
  BY AppendProperties DEF LogInv
<1>3. DOMAIN log' = 1 .. Len(log) + 1
  BY <1>2, LenProperties
<1>4. forum!Adds \subseteq forum!Adds'
  BY <1>1, <1>2, <1>3 DEF forum!Adds
<1>5. Redacted \subseteq Redacted' /\ (e.op = "redact" => e.id \in Redacted')
  <2>1. ASSUME NEW j \in DOMAIN log, log[j].op = "redact" PROVE log[j].id \in Redacted'
    <3>1. j \in DOMAIN log' /\ log'[j] = log[j]
      BY <1>1, <1>2, <1>3
    <3> QED
      BY <2>1, <3>1 DEF Redacted
  <2>2. Len(log) + 1 \in DOMAIN log'
    BY <1>1, <1>3
  <2> QED
    BY <1>2, <2>1, <2>2 DEF Redacted
<1> QED
  BY <1>1, <1>2, <1>3, <1>4, <1>5

\* A call goes on with less to take back, or ends.
LEMMA CallGoesOn ==
  ASSUME CallsInv, NEW o \in forumOps, NEW rest \in VoteCall,
         rest.by = o.by, rest.on = o.on, rest.emoji = o.emoji, rest.other \subseteq o.other, rest.same \subseteq o.same,
         forumOps' \subseteq (forumOps \ {o}) \cup {rest},
         forum!Adds \subseteq forum!Adds', \A i \in forum!Adds : log'[i] = log[i]
  PROVE  CallsInv'
<1>1. forumOps' \in SUBSET VoteCall
  BY DEF CallsInv
<1>2. ASSUME NEW p \in forumOps', NEW i \in p.other \cup p.same PROVE i \in forum!Adds' /\ log'[i].on = p.on
  <2>1. PICK q \in forumOps : p.on = q.on /\ p.other \subseteq q.other /\ p.same \subseteq q.same
    BY <1>2
  <2> QED
    BY <1>2, <2>1 DEF CallsInv
<1>3. ASSUME NEW p \in forumOps', NEW q \in forumOps', p.by = q.by, p.on = q.on, ~p.emoji, ~q.emoji PROVE p = q
  <2>1. CASE p # rest /\ q # rest
    BY <1>3, <2>1 DEF CallsInv
  <2>2. CASE p = rest /\ q # rest
    <3>1. q \in forumOps /\ q # o
      BY <1>3, <2>2
    <3> QED
      BY <1>3, <2>2, <3>1 DEF CallsInv
  <2>3. CASE p # rest /\ q = rest
    <3>1. p \in forumOps /\ p # o
      BY <1>3, <2>3
    <3> QED
      BY <1>3, <2>3, <3>1 DEF CallsInv
  <2> QED
    BY <2>1, <2>2, <2>3
<1> QED
  BY <1>1, <1>2, <1>3 DEF CallsInv

\* A new call takes back reactions that its client shows of the comment.
LEMMA CallStarts ==
  ASSUME LogInv, CallsInv, NEW o \in VoteCall, UNCHANGED log, forumOps' = forumOps \cup {o},
         \A i \in o.other \cup o.same : i \in forum!Reactions(o.by, o.on),
         o.emoji \/ \A p \in forumOps : p.by # o.by \/ p.on # o.on \/ p.emoji
  PROVE  CallsInv'
<1>1. forum!Adds' = forum!Adds /\ \A i \in o.other \cup o.same : i \in forum!Adds /\ log[i].on = o.on
  BY DEF forum!Reactions, forum!Adds
<1>2. \A p, q \in forumOps' : p.by = q.by /\ p.on = q.on /\ ~p.emoji /\ ~q.emoji => p = q
  BY DEF CallsInv
<1> QED
  BY <1>1, <1>2 DEF CallsInv

\* The log goes on, or stays, while clients hide what is deleted by then.
LEMMA LogGoesOn ==
  ASSUME LogInv, UNCHANGED told, hidden' \in [Clients -> SUBSET Nat],
         \A c \in Clients : hidden[c] \subseteq hidden'[c] /\ hidden'[c] \subseteq hidden[c] \cup Redacted',
         UNCHANGED log \/ \E e \in LogEntry : log' = Append(log, e) /\ (e.op = "redact" => e.id \in forum!Adds)
  PROVE  LogInv' /\ forum!Adds \subseteq forum!Adds' /\ \A i \in forum!Adds : log'[i] = log[i]
<1>1. CASE UNCHANGED log
  <2>1. forum!Adds' = forum!Adds /\ Redacted' = Redacted
    BY <1>1 DEF forum!Adds, Redacted
  <2>2. LogInv'
    BY <1>1, <2>1 DEF LogInv
  <2> QED
    BY <1>1, <2>1, <2>2
<1>2. CASE \E e \in LogEntry : log' = Append(log, e) /\ (e.op = "redact" => e.id \in forum!Adds)
  <2>1. PICK e \in LogEntry : log' = Append(log, e) /\ (e.op = "redact" => e.id \in forum!Adds)
    BY <1>2
  <2>2. /\ log' \in Seq(LogEntry) /\ Len(log') = Len(log) + 1 /\ DOMAIN log' = 1 .. Len(log) + 1
        /\ Len(log) \in Nat /\ DOMAIN log = 1 .. Len(log)
        /\ log'[Len(log) + 1] = e /\ \A i \in DOMAIN log : log'[i] = log[i]
        /\ forum!Adds \subseteq forum!Adds' /\ Redacted \subseteq Redacted'
    BY <2>1, LogGrows
  <2>3. ASSUME NEW j \in DOMAIN log', log'[j].op = "redact" PROVE log'[j].id \in forum!Adds'
    <3>1. CASE j = Len(log) + 1
      BY <2>1, <2>2, <2>3, <3>1
    <3>2. CASE j \in DOMAIN log
      BY <2>2, <2>3, <3>2 DEF LogInv
    <3> QED
      BY SMTT(30), <2>2, <3>1, <3>2
  <2>4. ASSUME NEW c \in Clients
        PROVE  /\ told'[c] <= Len(log') /\ hidden'[c] \subseteq Redacted'
               /\ \A j \in 1 .. told'[c] : log'[j].op = "redact" => log'[j].id \in hidden'[c]
    <3>1. told[c] \in Nat /\ told[c] <= Len(log) /\ told'[c] = told[c]
      BY DEF LogInv
    <3>2. hidden'[c] \subseteq Redacted'
      BY <2>2 DEF LogInv
    <3>3. ASSUME NEW j \in 1 .. told[c], log'[j].op = "redact" PROVE log'[j].id \in hidden'[c]
      <4>1. j \in DOMAIN log /\ log'[j] = log[j]
        BY <2>2, <3>1
      <4> QED
        BY <3>3, <4>1 DEF LogInv
    <3> QED
      BY <2>2, <3>1, <3>2, <3>3
  <2>5. LogInv'
    BY <2>2, <2>3, <2>4 DEF LogInv
  <2>6. \A i \in forum!Adds : log'[i] = log[i]
    BY <2>2 DEF forum!Adds
  <2> QED
    BY <2>2, <2>5, <2>6
<1> QED
  BY <1>1, <1>2

\* The next request of a call.
LEMMA RequestStep ==
  ASSUME LogInv, CallsInv, NEW o \in forumOps, NEW ok \in BOOLEAN, forum!Request(o, ok)
  PROVE  LogInv' /\ CallsInv'
<1>1. o \in VoteCall /\ o.by \in Clients /\ o.on \in forum!Comments /\ UNCHANGED told
  BY DEF CallsInv, VoteCall, forum!Request
<1>2. CASE \E i \in o.other \cup o.same : forum!RemoveVote(o, i, ok)
  <2>1. PICK i \in o.other \cup o.same : forum!RemoveVote(o, i, ok)
    BY <1>2
  <2> DEFINE rest == [o EXCEPT !.other = @ \ {i}, !.same = @ \ {i}]
             e == [op |-> "redact", id |-> i, on |-> o.on, key |-> "none"]
  <2>2. /\ hidden' = IF ok THEN [hidden EXCEPT ![o.by] = @ \cup {i}] ELSE hidden
        /\ forumOps' \subseteq (forumOps \ {o}) \cup {rest}
        /\ IF ok /\ i \in forum!AtHub(o.on) THEN log' = Append(log, e) ELSE UNCHANGED log
    BY <2>1 DEF forum!RemoveVote, forum!Hidden
  <2>3. rest \in VoteCall /\ rest.by = o.by /\ rest.on = o.on /\ rest.emoji = o.emoji
        /\ rest.other \subseteq o.other /\ rest.same \subseteq o.same
    BY <1>1 DEF VoteCall
  <2>4. i \in forum!Adds /\ log[i].on = o.on /\ i \in Nat
    <3>1. i \in forum!Adds /\ log[i].on = o.on
      BY DEF CallsInv
    <3>2. DOMAIN log = 1 .. Len(log) /\ Len(log) \in Nat
      BY LenProperties DEF LogInv
    <3> QED
      BY <3>1, <3>2 DEF forum!Adds
  <2>5. e \in LogEntry /\ e.op = "redact" /\ e.id = i
    BY <1>1, <2>4 DEF LogEntry, VoteKeys
  <2> HIDE DEF e, rest
  <2>6. ok => i \in Redacted'
    <3>1. CASE i \in forum!AtHub(o.on)
      BY <2>2, <2>5, <3>1, LogGrows
    <3>2. CASE i \notin forum!AtHub(o.on)
      <4>1. \E j \in DOMAIN log : log[j].op = "redact" /\ log[j].id = i
        BY <2>4, <3>2 DEF forum!AtHub
      <4>2. i \in Redacted
        BY <4>1 DEF Redacted
      <4>3. UNCHANGED log
        BY <2>2, <3>2
      <4> QED
        BY <4>2, <4>3 DEF Redacted
    <3> QED
      BY <3>1, <3>2
  <2>7. /\ hidden' \in [Clients -> SUBSET Nat]
        /\ \A c \in Clients : hidden[c] \subseteq hidden'[c] /\ hidden'[c] \subseteq hidden[c] \cup Redacted'
    BY <1>1, <2>2, <2>4, <2>6 DEF LogInv
  <2>8. UNCHANGED log \/ \E x \in LogEntry : log' = Append(log, x) /\ (x.op = "redact" => x.id \in forum!Adds)
    BY <2>2, <2>4, <2>5
  <2>9. LogInv' /\ forum!Adds \subseteq forum!Adds' /\ \A x \in forum!Adds : log'[x] = log[x]
    BY ONLY <1>1, <2>7, <2>8, LogInv, LogGoesOn
  <2> QED
    BY <2>2, <2>3, <2>9, CallGoesOn
<1>3. CASE forum!AddVote(o, ok)
  <2> DEFINE e == [op |-> "add", id |-> 0, on |-> o.on, key |-> o.key]
  <2>1. forumOps' = forumOps \ {o} /\ UNCHANGED hidden /\ IF ok THEN log' = Append(log, e) ELSE UNCHANGED log
    BY <1>3 DEF forum!AddVote
  <2>2. e \in LogEntry /\ e.op = "add"
    BY <1>1 DEF LogEntry, VoteCall
  <2> HIDE DEF e
  <2>3. UNCHANGED log \/ \E x \in LogEntry : log' = Append(log, x) /\ (x.op = "redact" => x.id \in forum!Adds)
    BY <2>1, <2>2
  <2>4. /\ hidden' \in [Clients -> SUBSET Nat]
        /\ \A c \in Clients : hidden[c] \subseteq hidden'[c] /\ hidden'[c] \subseteq hidden[c] \cup Redacted'
    BY <2>1 DEF LogInv
  <2>5. LogInv' /\ forum!Adds \subseteq forum!Adds' /\ \A x \in forum!Adds : log'[x] = log[x]
    BY ONLY <1>1, <2>3, <2>4, LogInv, LogGoesOn
  <2> QED
    BY <1>1, <2>1, <2>5, CallGoesOn
<1> QED
  BY <1>2, <1>3 DEF forum!Request

\* A client hears the next entry.
LEMMA HearStep ==
  ASSUME LogInv, CallsInv, NEW c \in Clients, forum!Hear(c)
  PROVE  LogInv' /\ CallsInv'
<1> DEFINE n == told[c] + 1
<1>1. /\ n \in DOMAIN log /\ told' = [told EXCEPT ![c] = n] /\ UNCHANGED <<log, forumOps>>
      /\ hidden' = IF log[n].op = "redact" THEN [hidden EXCEPT ![c] = @ \cup {log[n].id}] ELSE hidden
  BY DEF forum!Hear
<1>2. Len(log) \in Nat /\ DOMAIN log = 1 .. Len(log) /\ told[c] \in Nat /\ \A j \in DOMAIN log : log[j] \in LogEntry
  BY LenProperties DEF LogInv
<1>3. forum!Adds' = forum!Adds /\ Redacted' = Redacted
  BY <1>1 DEF forum!Adds, Redacted
<1>4. log[n].op = "redact" => log[n].id \in Redacted /\ log[n].id \in Nat
  BY <1>1, <1>2 DEF Redacted, LogEntry
<1> HIDE DEF n
<1>5. told' \in [Clients -> Nat] /\ hidden' \in [Clients -> SUBSET Nat]
  BY <1>1, <1>2, <1>4 DEF LogInv
<1>6. ASSUME NEW d \in Clients
      PROVE  /\ told'[d] <= Len(log) /\ hidden'[d] \subseteq Redacted
             /\ \A j \in 1 .. told'[d] : log[j].op = "redact" => log[j].id \in hidden'[d]
  <2>1. CASE d # c
    BY <1>1, <2>1 DEF LogInv
  <2>2. CASE d = c
    <3>1. told'[d] = n /\ n <= Len(log)
      BY <1>1, <1>2, <2>2 DEF LogInv
    <3>2. hidden[d] \subseteq hidden'[d] /\ hidden'[d] \subseteq Redacted
          /\ (log[n].op = "redact" => log[n].id \in hidden'[d])
      BY <1>1, <1>4, <2>2 DEF LogInv
    <3>3. ASSUME NEW j \in 1 .. n, log[j].op = "redact" PROVE log[j].id \in hidden'[d]
      <4>1. CASE j = n
        BY <3>2, <3>3, <4>1
      <4>2. CASE j # n
        <5>1. j \in 1 .. told[d]
          BY <1>2, <2>2, <4>2 DEF n
        <5> QED
          BY <3>2, <3>3, <5>1 DEF LogInv
      <4> QED
        BY <4>1, <4>2
    <3> QED
      BY <3>1, <3>2, <3>3
  <2> QED
    BY <2>1, <2>2
<1>7. LogInv'
  BY <1>1, <1>3, <1>5, <1>6 DEF LogInv
<1>8. CallsInv'
  BY <1>1, <1>3 DEF CallsInv
<1> QED
  BY <1>7, <1>8

\* A click starts a call.
LEMMA ClickStep ==
  ASSUME LogInv, CallsInv, NEW c \in Clients, NEW m \in Voted,
         forum!ToggleReaction(c, m) \/ \E key \in forum!VoteKey : forum!Vote(c, m, key)
  PROVE  LogInv' /\ CallsInv'
<1>1. m \in forum!Comments /\ UNCHANGED <<log, told, hidden>>
  BY ForumAssumption DEF forum!Comments, forum!ToggleReaction, forum!Vote
<1>2. LogInv'
  BY <1>1 DEF LogInv, Redacted, forum!Adds
<1>3. forum!Reactions(c, m) \in SUBSET Nat
  BY LenProperties DEF forum!Reactions, forum!Adds, LogInv
<1>4. CASE forum!ToggleReaction(c, m)
  <2> DEFINE mine == {i \in forum!Reactions(c, m) : log[i].key = forum!Emoji}
             o == [by |-> c, on |-> m, emoji |-> TRUE, other |-> {}, same |-> mine,
                   key |-> IF mine = {} THEN forum!Emoji ELSE "none"]
  <2>1. forumOps' = forumOps \cup {o}
    BY <1>4 DEF forum!ToggleReaction
  <2>2. o \in VoteCall /\ o.by = c /\ o.on = m /\ o.emoji /\ o.other \cup o.same \subseteq forum!Reactions(c, m)
    BY <1>1, <1>3 DEF VoteCall, VoteKeys, forum!Emoji
  <2> HIDE DEF o
  <2> QED
    BY <1>1, <1>2, <2>1, <2>2, CallStarts
<1>5. CASE \E key \in forum!VoteKey : forum!Vote(c, m, key)
  <2>1. PICK key \in forum!VoteKey : forum!Vote(c, m, key)
    BY <1>5
  <2> DEFINE mine == forum!VoteEvents(c, m)
             same == {i \in mine : log[i].key = key}
             o == [by |-> c, on |-> m, emoji |-> FALSE, other |-> mine \ same, same |-> same,
                   key |-> IF same = {} THEN key ELSE "none"]
  <2>2. forumOps' = forumOps \cup {o} /\ \A p \in forumOps : p.by # c \/ p.on # m \/ p.emoji
    BY <2>1 DEF forum!Vote
  <2>3. mine \subseteq forum!Reactions(c, m)
    BY DEF forum!VoteEvents
  <2>4. o \in VoteCall /\ o.by = c /\ o.on = m /\ o.other \cup o.same \subseteq forum!Reactions(c, m)
    BY <1>1, <1>3, <2>3 DEF VoteCall, VoteKeys, forum!VoteKey
  <2> HIDE DEF o
  <2> QED
    BY <1>1, <1>2, <2>2, <2>4, CallStarts
<1> QED
  BY <1>4, <1>5

LEMMA ForumStep == ForumInv /\ (forum!ForumNext \/ UNCHANGED forumVars) => ForumInv'
<1> SUFFICES ASSUME ForumInv, forum!ForumNext \/ UNCHANGED forumVars PROVE ForumInv'
  OBVIOUS
<1>1. PostInv /\ LogInv /\ CallsInv /\ PostInv'
  BY PostStep DEF ForumInv
<1>2. CASE UNCHANGED <<log, told, hidden, forumOps>>
  <2>1. forum!Adds' = forum!Adds /\ Redacted' = Redacted
    BY <1>2 DEF forum!Adds, Redacted
  <2>2. LogInv' /\ CallsInv'
    BY <1>1, <1>2, <2>1 DEF LogInv, CallsInv
  <2> QED
    BY <1>1, <2>2 DEF ForumInv
<1>3. CASE \/ UNCHANGED forumVars \/ forum!ChangeTopic \/ forum!BackToFeed \/ forum!FreezeVoteOrder
           \/ \E m \in forum!Comments : forum!Arrives(m) \/ forum!Deleted(m)
  BY <1>2, <1>3 DEF forumVars, forum!ChangeTopic, forum!BackToFeed, forum!FreezeVoteOrder, forum!Arrives,
       forum!Deleted, forum!voteVars
<1>4. CASE \/ \E c \in Clients, m \in Voted, key \in forum!VoteKey : forum!Vote(c, m, key)
           \/ \E c \in Clients, m \in Voted : forum!ToggleReaction(c, m)
  BY <1>1, <1>4, ClickStep DEF ForumInv
<1>5. CASE \E o \in forumOps, ok \in BOOLEAN : forum!Request(o, ok)
  BY <1>1, <1>5, RequestStep DEF ForumInv
<1>6. CASE \E c \in Clients : forum!Hear(c)
  BY <1>1, <1>6, HearStep DEF ForumInv
<1> QED
  BY <1>3, <1>4, <1>5, <1>6 DEF forum!ForumNext

LEMMA ForumStart == forum!ForumInit => ForumInv
<1> SUFFICES ASSUME forum!ForumInit PROVE ForumInv
  OBVIOUS
<1>1. PostInv
  <2>1. /\ \A m \in forum!Comments : parent[m] < m
        /\ held = {} /\ gone = {} /\ ranks = <<>> /\ open = FALSE /\ settling = FALSE
    BY DEF forum!ForumInit
  <2>2. DOMAIN ranks = {}
    BY <2>1
  <2> QED
    BY <2>1, <2>2 DEF PostInv
<1>2. log = <<>> /\ DOMAIN log = {} /\ log \in Seq(LogEntry) /\ Len(log) = 0
  BY EmptySeq DEF forum!ForumInit
<1>3. LogInv
  BY <1>2 DEF forum!ForumInit, LogInv
<1>4. CallsInv
  BY DEF forum!ForumInit, CallsInv
<1> QED
  BY <1>1, <1>3, <1>4 DEF ForumInv

LEMMA ForumAgrees == ForumInv => forum!OrderComes /\ forum!VotesAgree /\ forum!ForumTypeOK
<1> SUFFICES ASSUME ForumInv PROVE forum!OrderComes /\ forum!VotesAgree /\ forum!ForumTypeOK
  OBVIOUS
<1>1. Len(log) \in Nat /\ DOMAIN log = 1 .. Len(log) /\ Redacted \subseteq forum!Adds
  BY LenProperties DEF ForumInv, LogInv, Redacted
<1>2. ASSUME NEW c \in Clients, NEW m \in forum!Comments, told[c] = Len(log)
      PROVE  forum!Reactions(c, m) = forum!AtHub(m)
  <2>1. \A i \in forum!Adds : i <= told[c] /\ i \in DOMAIN log
    BY <1>1, <1>2 DEF forum!Adds
  <2>2. \A j \in DOMAIN log : log[j].op = "redact" => log[j].id \in hidden[c]
    BY <1>1, <1>2 DEF ForumInv, LogInv
  <2>3. \A i \in hidden[c] : \E j \in DOMAIN log : log[j].op = "redact" /\ log[j].id = i
    BY DEF ForumInv, LogInv, Redacted
  <2>4. \A i \in forum!Adds : i \in hidden[c] <=> \E j \in DOMAIN log : log[j].op = "redact" /\ log[j].id = i
    BY <2>2, <2>3
  <2> QED
    BY <2>1, <2>4 DEF forum!Reactions, forum!AtHub
<1>3. forum!VotesAgree
  BY <1>2 DEF forum!VotesAgree
<1>4. forum!OrderComes
  BY DEF ForumInv, PostInv, forum!OrderComes
<1>5. \A c \in Clients : told[c] \in 0 .. Len(log) /\ hidden[c] \subseteq forum!Adds
  BY <1>1 DEF ForumInv, LogInv
<1>6. \A o \in forumOps : o.by \in Clients /\ o.on \in forum!Comments /\ o.key \in forum!VoteKey \cup {forum!Emoji, "none"}
  BY DEF ForumInv, CallsInv, VoteCall, VoteKeys, forum!VoteKey, forum!Emoji
<1>7. forum!ForumTypeOK
  BY <1>5, <1>6 DEF ForumInv, PostInv, CallsInv, forum!ForumTypeOK
<1> QED
  BY <1>3, <1>4, <1>7

-----------------------------------------------------------------------------
(* Threads: the open thread is whole.                                      *)

ThreadFeed == [kind : {"reply", "thread", "reason"}, thread : Threads, n : Nat]
ThreadObj == [set : BOOLEAN, eventsFetched : BOOLEAN, redactedEvents : SUBSET Nat, count : Nat]
SdkThread == [made : BOOLEAN, held : SUBSET Nat]

ThreadTypes ==
  /\ posted \in [Threads -> Nat] /\ deleted \in [Threads -> SUBSET Nat] /\ byReason \in [Threads -> SUBSET Nat]
  /\ feed \in Seq(ThreadFeed) /\ lost \in SUBSET Threads /\ threadsSdk \in [Threads -> SdkThread]
  /\ objs \in [Threads -> Seq(ThreadObj)] /\ root \in [Threads -> Nat]
  /\ currentThreadId \in Threads \cup {threads!NoThread}
ThreadRefs ==
  \A t \in Threads :
    /\ byReason[t] \subseteq deleted[t] /\ deleted[t] \subseteq 1 .. posted[t]
    /\ threadsSdk[t].held \subseteq 1 .. posted[t]
    /\ root[t] <= Len(objs[t])
    /\ \A i \in DOMAIN objs[t] :
         /\ objs[t][i].redactedEvents \subseteq deleted[t] /\ objs[t][i].count <= posted[t]
         /\ objs[t][i].eventsFetched => objs[t][i].set

ShownInv ==
  /\ panel \in SUBSET Nat /\ (currentThreadId = threads!NoThread => panel = {})
  /\ lengths \in [Threads -> Int] /\ \A t \in Threads : lengths[t] \in -1 .. posted[t]

\* What is to be told has happened.
FeedInv ==
  \A k \in DOMAIN feed :
    feed[k].n \in CASE feed[k].kind = "reply" -> 1 .. posted[feed[k].thread]
                    [] feed[k].kind = "thread" -> deleted[feed[k].thread]
                    [] OTHER -> byReason[feed[k].thread]
Untold(t) == {feed[k].n : k \in {j \in DOMAIN feed : feed[j].kind = "reply" /\ feed[j].thread = t}}

FetchesInv ==
  \A f \in threadsFetches :
    /\ f.thread \in Threads /\ f.obj \in DOMAIN objs[f.thread] /\ objs[f.thread][f.obj].set
    /\ f.page \subseteq 1 .. posted[f.thread] /\ f.more \in BOOLEAN /\ (f.more => f.page # {})

\* What is left of a thread when one of its objects has all of it, and what is
\* left beyond the page that is asked for.
CompleteInv ==
  \A t \in Threads \ lost :
    /\ (\E i \in DOMAIN objs[t] : objs[t][i].eventsFetched) =>
         \A n \in threads!Live(t) : n \in threadsSdk[t].held \cup Untold(t)
    /\ \A f \in threadsFetches : f.thread = t =>
         \A n \in threads!Live(t) :
           n \in threadsSdk[t].held \cup Untold(t) \cup f.page \/ (f.more /\ n < threads!Min(f.page))

\* The panel has what is held and not redacted, or was deleted by a steward;
\* with all of the thread, it misses only what is still to be told.
PanelInv ==
  \A t \in Threads : currentThreadId = t =>
    /\ \A n \in panel : n \in byReason[t] \/ n \in threadsSdk[t].held
    /\ \A n \in panel : root[t] # 0 /\ n \notin byReason[t] => n \notin objs[t][root[t]].redactedEvents
    /\ root[t] # 0 /\ objs[t][root[t]].eventsFetched =>
         /\ lengths[t] = Cardinality(panel)
         /\ t \notin lost => \A n \in threads!Live(t) \cap threadsSdk[t].held : n \in panel \cup Untold(t)

ThreadsInv == ThreadTypes /\ ThreadRefs /\ ShownInv /\ FeedInv /\ FetchesInv /\ CompleteInv /\ PanelInv

LEMMA ThreadsCardinality == \A S : threads!Cardinality(S) = Cardinality(S)
BY DEF threads!Cardinality, Cardinality

LEMMA FirstPlace ==
  ASSUME NEW S \in SUBSET Nat, S # {}
  PROVE  threads!Min(S) \in S /\ \A e \in S : threads!Min(S) <= e
<1> DEFINE R == OpToRel(<, Nat)
<1>1. IsWellFoundedOn(R, Nat)
  BY NatLessThanWellFounded
<1>2. \A x, y \in Nat : y < x => <<y, x>> \in R
  BY DEF OpToRel
<1> HIDE DEF R
<1>3. PICK b \in S : \A y \in S : <<y, b>> \notin R
  BY <1>1, WFMin
<1>4. ASSUME NEW y \in S PROVE b <= y
  <2>1. y \in Nat /\ b \in Nat /\ ~(y < b)
    BY <1>2, <1>3
  <2> QED
    BY <2>1
<1> QED
  BY <1>4 DEF threads!Min

LEMMA Counting ==
  ASSUME NEW n \in Nat, NEW S \in SUBSET (1 .. n)
  PROVE  IsFiniteSet(S) /\ Cardinality(S) \in 0 .. n /\ threads!Cardinality(S) = Cardinality(S)
<1>1. IsFiniteSet(1 .. n) /\ Cardinality(1 .. n) = n
  BY FS_Interval
<1>2. IsFiniteSet(S) /\ Cardinality(S) <= n
  BY <1>1, FS_Subset
<1> QED
  BY <1>2, FS_CardinalityType, ThreadsCardinality

\* A page has the newest that are left, all but those before its first.
LEMMA PageCovers ==
  ASSUME NEW t \in Threads, posted[t] \in Nat, NEW run, NEW i, NEW before \in Nat
  PROVE  LET q == threads!Request(run, t, i, before) IN
         /\ q.thread = t /\ q.obj = i /\ q.page \subseteq threads!Live(t) /\ q.page \subseteq 1 .. posted[t]
         /\ q.more \in BOOLEAN /\ (q.more => q.page # {})
         /\ \A n \in threads!Live(t) : n < before => n \in q.page \/ (q.more /\ n < threads!Min(q.page))
<1> DEFINE left == {n \in threads!Live(t) : n < before}
           above(n) == {m \in left : m > n}
           p == {n \in left : threads!Cardinality(above(n)) < PageSize}
           q == threads!Request(run, t, i, before)
<1>1. q.thread = t /\ q.obj = i /\ q.page = p /\ q.more = (p # left)
  BY DEF threads!Request
<1>2. left \in SUBSET (1 .. posted[t]) /\ left \subseteq threads!Live(t) /\ PageSize \in Nat \ {0}
  BY ThreadsAssumption DEF threads!Live
<1>3. p \subseteq left
  OBVIOUS
<1>4. ASSUME NEW n \in left, n \notin p, NEW e \in p PROVE n < e
  <2> SUFFICES ASSUME ~(n < e) PROVE FALSE
    OBVIOUS
  <2>1. n \in Nat /\ e \in Nat /\ e <= n
    BY <1>2, <1>3, <1>4
  <2>2. above(n) \subseteq above(e) /\ above(e) \in SUBSET (1 .. posted[t]) /\ above(n) \in SUBSET (1 .. posted[t])
    BY <1>2, <2>1
  <2> HIDE DEF above
  <2>3. threads!Cardinality(above(n)) \in Nat /\ threads!Cardinality(above(e)) \in Nat
        /\ threads!Cardinality(above(n)) <= threads!Cardinality(above(e))
    BY <2>2, Counting, FS_Subset
  <2>4. threads!Cardinality(above(e)) < PageSize /\ ~(threads!Cardinality(above(n)) < PageSize)
    BY <1>4
  <2> QED
    BY <1>2, <2>3, <2>4
<1>5. left # {} => p # {}
  <2> SUFFICES ASSUME left # {} PROVE p # {}
    OBVIOUS
  <2> HIDE DEF left
  <2>1. PICK n \in left : \A m \in left : m <= n
    BY <1>2, LastPlace
  <2>2. ASSUME NEW m \in left PROVE ~(m > n)
    <3>1. m \in Int /\ n \in Int /\ m <= n
      BY <1>2, <2>1
    <3> QED
      BY <3>1
  <2>2a. above(n) = {}
    BY <2>2
  <2>3. threads!Cardinality(above(n)) = 0
    BY <2>2a, FS_EmptySet, ThreadsCardinality
  <2> QED
    BY <1>2, <2>3
<1>6. p # left => p # {}
  BY <1>3, <1>5
<1> HIDE DEF p, left, q
<1>7. ASSUME NEW n \in threads!Live(t), n < before, n \notin p PROVE p # left /\ n < threads!Min(p)
  <2>1. n \in left
    BY <1>7 DEF left
  <2>2. p # left /\ p # {} /\ p \in SUBSET Nat
    BY <1>2, <1>3, <1>6, <1>7, <2>1
  <2>3. threads!Min(p) \in p
    BY <2>2, FirstPlace
  <2> QED
    BY <1>4, <1>7, <2>1, <2>2, <2>3
<1>8. /\ q.thread = t /\ q.obj = i /\ q.page \subseteq threads!Live(t) /\ q.page \subseteq 1 .. posted[t]
      /\ q.more \in BOOLEAN /\ (q.more => q.page # {})
      /\ \A n \in threads!Live(t) : n < before => n \in q.page \/ (q.more /\ n < threads!Min(q.page))
  BY <1>1, <1>2, <1>3, <1>6, <1>7
<1> QED
  BY <1>8 DEF q

LEMMA FetchingCovers ==
  ASSUME ThreadTypes, NEW which \in SUBSET Threads, NEW o, NEW r, NEW q \in threads!Fetching(which, o, r)
  PROVE  /\ q.thread \in which /\ q.obj = r[q.thread] /\ q.page \subseteq 1 .. posted[q.thread] /\ q.more \in BOOLEAN
         /\ q.more => q.page # {}
         /\ \A n \in threads!Live(q.thread) : n \in q.page \/ (q.more /\ n < threads!Min(q.page))
<1>1. PICK t \in which : q = threads!Request(threads!FreeRun, t, r[t], posted[t] + 1)
  BY DEF threads!Fetching
<1>2. t \in Threads /\ posted[t] \in Nat /\ posted[t] + 1 \in Nat
  BY DEF ThreadTypes
<1>3. \A n \in threads!Live(t) : n < posted[t] + 1
  BY <1>2 DEF threads!Live
<1>4. /\ q.thread = t /\ q.obj = r[t] /\ q.page \subseteq 1 .. posted[t] /\ q.more \in BOOLEAN /\ (q.more => q.page # {})
      /\ \A n \in threads!Live(t) : n < posted[t] + 1 => n \in q.page \/ (q.more /\ n < threads!Min(q.page))
  BY <1>1, <1>2, PageCovers
<1> QED
  BY <1>3, <1>4

\* After the panel has read its thread, it shows what is held.
LEMMA RereadPanel ==
  ASSUME ThreadTypes', ThreadRefs', NEW counts \in [Threads -> Int], \A t \in Threads : counts[t] \in -1 .. posted'[t],
         threads!Reread(counts)
  PROVE  ShownInv' /\ PanelInv'
<1>0. PICK t : t = currentThreadId'
  OBVIOUS
<1> DEFINE obj == objs'[t][root'[t]]
           p == threadsSdk'[t].held \ obj.redactedEvents
<1>1. CASE threads!HasThread(currentThreadId')
  <2>1. t \in Threads /\ root'[t] # 0
    BY <1>0, <1>1 DEF ThreadTypes, threads!HasThread
  <2>2. root'[t] \in DOMAIN objs'[t] /\ posted'[t] \in Nat
    BY <2>1, LenProperties DEF ThreadTypes, ThreadRefs
  <2>3. panel' = p /\ lengths' = [counts EXCEPT ![t] = threads!Cardinality(panel')]
    BY <1>0, <1>1 DEF threads!Reread, threads!Events
  <2>4. p \in SUBSET (1 .. posted'[t]) /\ obj.redactedEvents \subseteq deleted'[t]
    BY <2>1, <2>2 DEF ThreadRefs
  <2>5. threads!Cardinality(panel') \in 0 .. posted'[t] /\ threads!Cardinality(panel') = Cardinality(panel')
    BY <2>2, <2>3, <2>4, Counting
  <2>6. lengths'[t] = Cardinality(panel') /\ \A u \in Threads \ {t} : lengths'[u] = counts[u]
    BY <2>1, <2>3, <2>5
  <2>7. lengths' \in [Threads -> Int]
    BY <2>1, <2>2, <2>3, <2>5
  <2>8. \A u \in Threads : lengths'[u] \in -1 .. posted'[u]
    BY <2>1, <2>2, <2>5, <2>6
  <2>9. panel' \in SUBSET Nat /\ currentThreadId' # threads!NoThread
    BY <1>0, <1>1, <2>2, <2>3, <2>4 DEF threads!HasThread
  <2>10. ShownInv'
    BY <2>7, <2>8, <2>9 DEF ShownInv
  <2>11. \A n \in panel' : n \in threadsSdk'[t].held /\ n \notin obj.redactedEvents
    BY <2>3
  <2>12. \A n \in threads!Live(t)' : n \notin obj.redactedEvents
    BY <2>4 DEF threads!Live
  <2>13. \A n \in threads!Live(t)' \cap threadsSdk'[t].held : n \in panel'
    BY <2>3, <2>12
  <2>14. PanelInv'
    <3>1. SUFFICES ASSUME NEW u \in Threads, currentThreadId' = u
          PROVE  /\ \A n \in panel' : n \in byReason'[u] \/ n \in threadsSdk'[u].held
                 /\ \A n \in panel' : root'[u] # 0 /\ n \notin byReason'[u] => n \notin objs'[u][root'[u]].redactedEvents
                 /\ root'[u] # 0 /\ objs'[u][root'[u]].eventsFetched =>
                      /\ lengths'[u] = Cardinality(panel')
                      /\ u \notin lost' => \A n \in threads!Live(u)' \cap threadsSdk'[u].held : n \in panel' \cup Untold(u)'
      BY DEF PanelInv
    <3>2. u = t
      BY <1>0, <3>1
    <3> QED
      BY <2>6, <2>11, <2>13, <3>2
  <2> QED
    BY <2>10, <2>14
<1>2. CASE ~threads!HasThread(currentThreadId')
  <2>1. panel' = {} /\ lengths' = counts
    BY <1>2 DEF threads!Reread
  <2>2. ShownInv'
    BY <2>1 DEF ShownInv
  <2>3. ASSUME NEW u \in Threads, currentThreadId' = u, root'[u] # 0 PROVE ~objs'[u][root'[u]].eventsFetched
    <3>1. root'[u] \in DOMAIN objs'[u]
      BY <2>3, LenProperties DEF ThreadTypes, ThreadRefs
    <3>2. ~objs'[u][root'[u]].set
      BY <1>2, <2>3, ThreadsAssumption DEF threads!HasThread, threads!NoThread
    <3> QED
      BY <3>1, <3>2 DEF ThreadRefs
  <2>4. PanelInv'
    BY <2>1, <2>3 DEF PanelInv
  <2> QED
    BY <2>2, <2>4
<1> QED
  BY <1>1, <1>2


LEMMA FeedGrows ==
  ASSUME feed \in Seq(ThreadFeed), NEW e \in ThreadFeed, feed' = Append(feed, e)
  PROVE  /\ feed' \in Seq(ThreadFeed)
         /\ \A k \in DOMAIN feed' : (k \in DOMAIN feed /\ feed'[k] = feed[k]) \/ feed'[k] = e
         /\ \A t : Untold(t) \subseteq Untold(t)'
         /\ e.kind = "reply" => e.n \in Untold(e.thread)'
<1>1. /\ feed' \in Seq(ThreadFeed) /\ Len(feed) \in Nat /\ DOMAIN feed = 1 .. Len(feed)
      /\ DOMAIN feed' = 1 .. Len(feed) + 1 /\ feed'[Len(feed) + 1] = e
      /\ \A k \in 1 .. Len(feed) : feed'[k] = feed[k]
  BY AppendProperties, LenProperties
<1>2. \A k \in DOMAIN feed : k \in DOMAIN feed' /\ feed'[k] = feed[k]
  BY <1>1
<1>3. Len(feed) + 1 \in DOMAIN feed'
  BY <1>1
<1>4. \A k \in DOMAIN feed' : (k \in DOMAIN feed /\ feed'[k] = feed[k]) \/ feed'[k] = e
  BY <1>1
<1>5. \A t : Untold(t) \subseteq Untold(t)'
  BY <1>2 DEF Untold
<1>6. e.kind = "reply" => e.n \in Untold(e.thread)'
  BY <1>1, <1>3 DEF Untold
<1> QED
  BY <1>1, <1>4, <1>5, <1>6

LEMMA ReplyStep == ASSUME ThreadsInv, NEW t \in Threads, threads!Post(t) PROVE ThreadsInv'
<1> DEFINE e == [kind |-> "reply", thread |-> t, n |-> posted[t] + 1]
<1>1. /\ posted' = [posted EXCEPT ![t] = @ + 1] /\ feed' = Append(feed, e)
      /\ UNCHANGED <<deleted, byReason, lost, threadsSdk, objs, root, threadsFetches, lengths, currentThreadId, panel>>
  <2>1. posted[t] \in Nat /\ posted'[t] = posted[t] + 1
    BY DEF ThreadsInv, ThreadTypes, threads!Post
  <2> QED
    BY <2>1 DEF threads!Post, threads!Tell, threads!shownVars
<1>2. posted \in [Threads -> Nat] /\ posted' \in [Threads -> Nat] /\ posted'[t] = posted[t] + 1
      /\ \A u \in Threads : (posted[u] <= posted'[u] /\ (u # t => posted'[u] = posted[u]))
  BY SMTT(30), <1>1 DEF ThreadsInv, ThreadTypes
<1>3. e \in ThreadFeed
  BY <1>2 DEF ThreadFeed
<1>4. /\ feed' \in Seq(ThreadFeed) /\ \A k \in DOMAIN feed' : (k \in DOMAIN feed /\ feed'[k] = feed[k]) \/ feed'[k] = e
      /\ \A u : Untold(u) \subseteq Untold(u)'
      /\ posted[t] + 1 \in Untold(t)'
  <2>1. e.kind = "reply" /\ e.thread = t /\ e.n = posted[t] + 1
    OBVIOUS
  <2> HIDE DEF e
  <2>2. feed \in Seq(ThreadFeed)
    BY DEF ThreadsInv, ThreadTypes
  <2>3. feed' = Append(feed, e)
    BY <1>1
  <2> QED
    BY <1>3, <2>1, <2>2, <2>3, FeedGrows
<1>5. \A u \in Threads : \A n \in threads!Live(u)' : n \in threads!Live(u) \/ n \in Untold(u)'
  BY <1>1, <1>2, <1>4 DEF threads!Live
<1>6. ThreadTypes'
  BY <1>1, <1>2, <1>4 DEF ThreadsInv, ThreadTypes
<1>7. ThreadRefs'
  <2>1. \A u \in Threads : 1 .. posted[u] \subseteq 1 .. posted'[u] /\ posted[u] \in Nat /\ posted'[u] \in Nat /\ posted[u] <= posted'[u]
    BY <1>2
  <2>2. ASSUME NEW u \in Threads, NEW i \in DOMAIN objs[u] PROVE objs[u][i].count <= posted'[u]
    <3>1. objs[u][i] \in ThreadObj
      BY ElementOfSeq, LenProperties DEF ThreadsInv, ThreadTypes
    <3> QED
      BY <2>1, <3>1 DEF ThreadsInv, ThreadRefs, ThreadObj
  <2> QED
    BY <1>1, <2>1, <2>2 DEF ThreadsInv, ThreadRefs
<1>8. ShownInv'
  BY <1>1, <1>2 DEF ThreadsInv, ShownInv
<1>9. FeedInv'
  <2>1. \A u \in Threads : 1 .. posted[u] \subseteq 1 .. posted'[u]
    BY <1>2
  <2>2. ASSUME NEW k \in DOMAIN feed, feed[k] \in ThreadFeed
        PROVE  feed[k].n \in CASE feed[k].kind = "reply" -> 1 .. posted'[feed[k].thread]
                               [] feed[k].kind = "thread" -> deleted[feed[k].thread]
                               [] OTHER -> byReason[feed[k].thread]
    BY <2>1, <2>2 DEF ThreadsInv, FeedInv, ThreadFeed
  <2>3. \A k \in DOMAIN feed : feed[k] \in ThreadFeed
    BY ElementOfSeq, LenProperties DEF ThreadsInv, ThreadTypes
  <2>4. e.n \in 1 .. posted'[e.thread] /\ e.kind = "reply"
    BY <1>2
  <2> QED
    BY <1>1, <1>4, <2>2, <2>3, <2>4 DEF FeedInv
<1>10. FetchesInv'
  <2>1. \A u \in Threads : 1 .. posted[u] \subseteq 1 .. posted'[u]
    BY <1>2
  <2> QED
    BY <1>1, <2>1 DEF ThreadsInv, FetchesInv
<1>11. CompleteInv'
  BY <1>1, <1>4, <1>5 DEF ThreadsInv, CompleteInv
<1>12. PanelInv'
  BY <1>1, <1>4, <1>5 DEF ThreadsInv, PanelInv
<1> QED
  BY <1>6, <1>7, <1>8, <1>9, <1>10, <1>11, <1>12 DEF ThreadsInv

LEMMA DeleteStep ==
  ASSUME ThreadsInv, NEW t \in Threads, NEW n, threads!DeleteThreadMessage(t, n) PROVE ThreadsInv'
<1>1. PICK custom \in BOOLEAN : threads!Redact(t, n, custom)
  BY DEF threads!DeleteThreadMessage
<1> DEFINE e == [kind |-> threads!Reason(custom), thread |-> t, n |-> n]
<1>2. /\ n \in 1 .. posted[t] /\ deleted' = [deleted EXCEPT ![t] = @ \cup {n}]
      /\ byReason' = (IF custom THEN [byReason EXCEPT ![t] = @ \cup {n}] ELSE byReason) /\ feed' = Append(feed, e)
      /\ UNCHANGED <<posted, lost, threadsSdk, objs, root, threadsFetches, lengths, currentThreadId, panel>>
  BY <1>1 DEF threads!DeleteThreadMessage, threads!Redact, threads!Tell, threads!shownVars, threads!Live
<1>3. /\ posted[t] \in Nat /\ n \in Nat /\ deleted' \in [Threads -> SUBSET Nat] /\ byReason' \in [Threads -> SUBSET Nat]
      /\ \A u \in Threads : deleted[u] \subseteq deleted'[u] /\ byReason[u] \subseteq byReason'[u]
      /\ \A u \in Threads : byReason'[u] \subseteq deleted'[u] /\ deleted'[u] \subseteq 1 .. posted[u]
      /\ n \in deleted'[t] /\ (custom => n \in byReason'[t])
  BY SMTT(30), <1>2 DEF ThreadsInv, ThreadTypes, ThreadRefs
<1>4. e \in ThreadFeed
  BY <1>3 DEF ThreadFeed, threads!Reason
<1>5. /\ feed' \in Seq(ThreadFeed) /\ \A k \in DOMAIN feed' : (k \in DOMAIN feed /\ feed'[k] = feed[k]) \/ feed'[k] = e
      /\ \A u : Untold(u) \subseteq Untold(u)'
  <2> HIDE DEF e
  <2>2. feed \in Seq(ThreadFeed)
    BY DEF ThreadsInv, ThreadTypes
  <2>3. feed' = Append(feed, e)
    BY <1>2
  <2> QED
    BY <1>4, <2>2, <2>3, FeedGrows
<1>6. \A u \in Threads : threads!Live(u)' \subseteq threads!Live(u)
  BY <1>2, <1>3 DEF threads!Live
<1>7. ThreadTypes'
  BY <1>2, <1>3, <1>5 DEF ThreadsInv, ThreadTypes
<1>8. ThreadRefs'
  BY <1>2, <1>3 DEF ThreadsInv, ThreadRefs
<1>9. ShownInv'
  BY <1>2 DEF ThreadsInv, ShownInv
<1>10. FeedInv'
  <2>1. \A k \in DOMAIN feed : feed[k] \in ThreadFeed
    BY ElementOfSeq, LenProperties DEF ThreadsInv, ThreadTypes
  <2>2. ASSUME NEW k \in DOMAIN feed
        PROVE  feed[k].n \in CASE feed[k].kind = "reply" -> 1 .. posted[feed[k].thread]
                               [] feed[k].kind = "thread" -> deleted'[feed[k].thread]
                               [] OTHER -> byReason'[feed[k].thread]
    BY <1>3, <2>1, <2>2 DEF ThreadsInv, FeedInv, ThreadFeed
  <2>4. e.thread = t /\ e.n = n /\ e.kind = IF custom THEN "reason" ELSE "thread"
    BY DEF threads!Reason
  <2>5. e.n \in CASE e.kind = "reply" -> 1 .. posted[e.thread] [] e.kind = "thread" -> deleted'[e.thread] [] OTHER -> byReason'[e.thread]
    BY <1>3, <2>4
  <2> HIDE DEF e
  <2> QED
    BY <1>2, <1>5, <2>2, <2>5 DEF FeedInv
<1>11. FetchesInv'
  BY <1>2 DEF ThreadsInv, FetchesInv
<1>12. CompleteInv'
  BY <1>2, <1>5, <1>6 DEF ThreadsInv, CompleteInv
<1>13. PanelInv'
  BY <1>2, <1>3, <1>5, <1>6 DEF ThreadsInv, PanelInv
<1> QED
  BY <1>7, <1>8, <1>9, <1>10, <1>11, <1>12, <1>13 DEF ThreadsInv


\* A function on the first places is a sequence.
LEMMA FunSeq ==
  ASSUME NEW S, NEW n \in Nat, NEW s \in [1 .. n -> S]
  PROVE  s \in Seq(S) /\ Len(s) = n /\ DOMAIN s = 1 .. n
<1>1. s \in Seq(S)
  BY SeqDef
<1>2. DOMAIN s = 1 .. n /\ DOMAIN s = 1 .. Len(s) /\ Len(s) \in Nat
  BY <1>1, LenProperties
<1>3. Len(s) = n
  BY <1>2
<1> QED
  BY <1>1, <1>2, <1>3

\* The page that follows.
LEMMA NextPageStep ==
  ASSUME ThreadsInv, NEW f \in threadsFetches, threads!FetchEvents(f), f.more PROVE ThreadsInv'
<1>1. PICK t : t = f.thread
  OBVIOUS
<1> DEFINE q == threads!Request(f.run, t, f.obj, threads!Min(f.page))
<1>2. /\ threadsSdk' = [threadsSdk EXCEPT ![t].held = @ \cup f.page]
      /\ threadsFetches' = (threadsFetches \ {f}) \cup {q}
      /\ UNCHANGED <<posted, deleted, byReason, feed, lost, root, objs, lengths, panel, currentThreadId>>
  BY <1>1 DEF threads!FetchEvents, threads!More, threads!hubVars
<1>3. /\ t \in Threads /\ f.obj \in DOMAIN objs[t] /\ objs[t][f.obj].set
      /\ f.page \subseteq 1 .. posted[t] /\ f.page # {} /\ posted[t] \in Nat
  BY <1>1 DEF ThreadsInv, FetchesInv, ThreadTypes
<1>4. threads!Min(f.page) \in f.page /\ f.page \in SUBSET Nat /\ threads!Min(f.page) \in Nat
  <2>1. f.page \in SUBSET Nat
    BY <1>3
  <2> QED
    BY <1>3, <2>1, FirstPlace
<1>5. /\ q.thread = t /\ q.obj = f.obj /\ q.page \subseteq 1 .. posted[t] /\ q.more \in BOOLEAN /\ (q.more => q.page # {})
      /\ \A n \in threads!Live(t) : n < threads!Min(f.page) => n \in q.page \/ (q.more /\ n < threads!Min(q.page))
  BY <1>3, <1>4, PageCovers
<1> HIDE DEF q
<1>6. /\ threadsSdk' \in [Threads -> SdkThread] /\ threadsSdk'[t].held = threadsSdk[t].held \cup f.page
      /\ \A u \in Threads : u # t => threadsSdk'[u] = threadsSdk[u]
  BY ZenonT(60), <1>2, <1>3, <1>4 DEF ThreadsInv, ThreadTypes, SdkThread
<1>6a. \A u \in Threads : threadsSdk[u].held \subseteq threadsSdk'[u].held /\ threadsSdk'[u].held \subseteq 1 .. posted[u]
  BY <1>3, <1>6 DEF ThreadsInv, ThreadRefs
<1>6b. \A u : UNCHANGED threads!Live(u) /\ UNCHANGED Untold(u)
  BY <1>2 DEF threads!Live, Untold
<1>7. ThreadTypes'
  BY <1>2, <1>6 DEF ThreadsInv, ThreadTypes
<1>8. ThreadRefs'
  BY <1>2, <1>6a DEF ThreadsInv, ThreadRefs
<1>9. ShownInv' /\ FeedInv'
  BY <1>2 DEF ThreadsInv, ShownInv, FeedInv
<1>10. FetchesInv'
  BY <1>2, <1>3, <1>5 DEF ThreadsInv, FetchesInv
<1>11. ASSUME NEW u \in Threads \ lost, NEW g \in threadsFetches', g.thread = u, NEW n \in threads!Live(u)
       PROVE  n \in threadsSdk'[u].held \cup Untold(u) \cup g.page \/ (g.more /\ n < threads!Min(g.page))
  <2>1. CASE g \in threadsFetches
    BY <1>6a, <1>11, <2>1 DEF ThreadsInv, CompleteInv
  <2>2. CASE g = q
    <3>1. u = t
      BY <1>5, <1>11, <2>2
    <3>2. n \in threadsSdk[t].held \cup Untold(t) \cup f.page \/ n < threads!Min(f.page)
      BY <1>1, <1>11, <3>1 DEF ThreadsInv, CompleteInv
    <3> QED
      BY <1>5, <1>6, <1>11, <2>2, <3>1, <3>2
  <2> QED
    BY <1>2, <1>11, <2>1, <2>2
<1>12. CompleteInv'
  <2>1. \A u \in Threads \ lost : (\E i \in DOMAIN objs[u] : objs[u][i].eventsFetched) =>
          \A n \in threads!Live(u) : n \in threadsSdk'[u].held \cup Untold(u)
    BY <1>6a DEF ThreadsInv, CompleteInv
  <2> QED
    BY <1>2, <1>6b, <1>11, <2>1 DEF CompleteInv
<1>13. PanelInv'
  <2>1. ASSUME NEW u \in Threads, root[u] # 0, objs[u][root[u]].eventsFetched, u \notin lost,
               NEW n \in threads!Live(u) \cap threadsSdk'[u].held, currentThreadId = u
        PROVE  n \in panel \cup Untold(u)
    <3>1. root[u] \in DOMAIN objs[u]
      BY <2>1, LenProperties DEF ThreadsInv, ThreadTypes, ThreadRefs
    <3>2. n \in threadsSdk[u].held \cup Untold(u)
      BY <2>1, <3>1 DEF ThreadsInv, CompleteInv
    <3> QED
      BY <2>1, <3>2 DEF ThreadsInv, PanelInv
  <2>2. \A u \in Threads : currentThreadId = u =>
          /\ \A n \in panel : n \in byReason[u] \/ n \in threadsSdk'[u].held
          /\ \A n \in panel : root[u] # 0 /\ n \notin byReason[u] => n \notin objs[u][root[u]].redactedEvents
          /\ root[u] # 0 /\ objs[u][root[u]].eventsFetched => lengths[u] = Cardinality(panel)
    BY <1>6a DEF ThreadsInv, PanelInv
  <2> QED
    BY <1>2, <1>6b, <2>1, <2>2 DEF PanelInv
<1> QED
  BY <1>7, <1>8, <1>9, <1>10, <1>12, <1>13 DEF ThreadsInv

\* The last page: the object has all of the thread.
LEMMA LastPageStep ==
  ASSUME ThreadsInv, NEW f \in threadsFetches, threads!FetchEvents(f), ~f.more PROVE ThreadsInv'
<1>1. PICK t : t = f.thread
  OBVIOUS
<1> DEFINE counted == Cardinality(threadsSdk'[t].held \ objs[t][f.obj].redactedEvents)
<1>3. /\ t \in Threads /\ f.obj \in DOMAIN objs[t] /\ objs[t][f.obj].set
      /\ f.page \subseteq 1 .. posted[t] /\ posted[t] \in Nat
  BY <1>1 DEF ThreadsInv, FetchesInv, ThreadTypes
<1>2. /\ threadsSdk' = [threadsSdk EXCEPT ![t].held = @ \cup f.page]
      /\ threadsFetches' = threadsFetches \ {f}
      /\ objs' = [objs EXCEPT ![t][f.obj].eventsFetched = TRUE]
      /\ threads!Reread([lengths EXCEPT ![t] = counted])
      /\ UNCHANGED <<posted, deleted, byReason, feed, lost, root, currentThreadId>>
  BY <1>1, ThreadsCardinality DEF threads!FetchEvents, threads!More, threads!hubVars, threads!Events
<1>6. /\ threadsSdk' \in [Threads -> SdkThread] /\ threadsSdk'[t].held = threadsSdk[t].held \cup f.page
      /\ \A u \in Threads : u # t => threadsSdk'[u] = threadsSdk[u]
  <2>1. f.page \in SUBSET Nat
    BY <1>3
  <2> QED
    BY ZenonT(60), <1>2, <1>3, <2>1 DEF ThreadsInv, ThreadTypes, SdkThread
<1>6a. \A u \in Threads : threadsSdk[u].held \subseteq threadsSdk'[u].held /\ threadsSdk'[u].held \subseteq 1 .. posted[u]
  BY <1>3, <1>6 DEF ThreadsInv, ThreadRefs
<1>6b. \A u : UNCHANGED threads!Live(u) /\ UNCHANGED Untold(u)
  BY <1>2 DEF threads!Live, Untold
<1>6c. /\ objs' \in [Threads -> Seq(ThreadObj)]
       /\ \A u \in Threads : Len(objs'[u]) = Len(objs[u]) /\ DOMAIN objs'[u] = DOMAIN objs[u]
       /\ \A u \in Threads : \A i \in DOMAIN objs[u] :
            /\ objs'[u][i].redactedEvents = objs[u][i].redactedEvents /\ objs'[u][i].count = objs[u][i].count
            /\ objs'[u][i].set = objs[u][i].set
            /\ objs'[u][i].eventsFetched => objs[u][i].eventsFetched \/ (u = t /\ i = f.obj)
  <2>1. objs \in [Threads -> Seq(ThreadObj)] /\ objs[t] \in Seq(ThreadObj)
    BY <1>3 DEF ThreadsInv, ThreadTypes
  <2>2. PICK s : s = [objs[t] EXCEPT ![f.obj].eventsFetched = TRUE]
    OBVIOUS
  <2>3. objs' = [objs EXCEPT ![t] = s]
    BY <1>2, <2>2
  <2>4. DOMAIN objs[t] = 1 .. Len(objs[t]) /\ Len(objs[t]) \in Nat /\ objs[t] \in [1 .. Len(objs[t]) -> ThreadObj]
    BY <2>1, LenProperties, ElementOfSeq
  <2>5. s \in [1 .. Len(objs[t]) -> ThreadObj]
    BY ZenonT(60), <2>2, <2>4 DEF ThreadObj
  <2>6. s \in Seq(ThreadObj) /\ Len(s) = Len(objs[t]) /\ DOMAIN s = DOMAIN objs[t]
    BY <2>4, <2>5, FunSeq
  <2>7. \A i \in DOMAIN objs[t] :
          /\ s[i].redactedEvents = objs[t][i].redactedEvents /\ s[i].count = objs[t][i].count
          /\ s[i].set = objs[t][i].set /\ (s[i].eventsFetched => objs[t][i].eventsFetched \/ i = f.obj)
    BY <2>2, <2>4 DEF ThreadObj
  <2>8. objs'[t] = s /\ \A u \in Threads : u # t => objs'[u] = objs[u]
    BY <1>3, <2>1, <2>3
  <2>9. objs' \in [Threads -> Seq(ThreadObj)]
    BY <1>3, <2>1, <2>3, <2>6
  <2> QED
    BY <2>6, <2>7, <2>8, <2>9
<1>7. ThreadTypes'
  BY <1>2, <1>6, <1>6c DEF ThreadsInv, ThreadTypes
<1>8. ThreadRefs'
  BY <1>2, <1>3, <1>6a, <1>6c DEF ThreadsInv, ThreadRefs
<1>9. ShownInv' /\ PanelInv'
  <2>1. (threadsSdk'[t].held \ objs[t][f.obj].redactedEvents) \in SUBSET (1 .. posted[t])
    BY <1>3, <1>6a
  <2>2. counted \in 0 .. posted[t]
    BY <1>3, <2>1, Counting
  <2> HIDE DEF counted
  <2>3. PICK c : c = [lengths EXCEPT ![t] = counted]
    OBVIOUS
  <2>4. lengths \in [Threads -> Int] /\ \A u \in Threads : lengths[u] \in -1 .. posted[u]
    BY DEF ThreadsInv, ShownInv
  <2>5. c \in [Threads -> Int] /\ (\A u \in Threads : u # t => c[u] = lengths[u]) /\ c[t] = counted
    BY <1>3, <2>2, <2>3, <2>4
  <2>6. \A u \in Threads : c[u] \in -1 .. posted'[u]
    BY <1>2, <1>3, <2>2, <2>4, <2>5
  <2>7. threads!Reread(c)
    BY <1>2, <2>3
  <2> QED
    BY ONLY <1>7, <1>8, <2>5, <2>6, <2>7, RereadPanel
<1>10. FeedInv' /\ FetchesInv'
  BY <1>2, <1>6c DEF ThreadsInv, FetchesInv, FeedInv
<1>11. \A u \in Threads \ lost, g \in threadsFetches' : g.thread = u => \A n \in threads!Live(u) :
         n \in threadsSdk'[u].held \cup Untold(u) \cup g.page \/ (g.more /\ n < threads!Min(g.page))
  BY <1>2, <1>6a DEF ThreadsInv, CompleteInv
<1>12. t \notin lost => \A n \in threads!Live(t) : n \in threadsSdk'[t].held \cup Untold(t)
  BY <1>1, <1>3, <1>6 DEF ThreadsInv, CompleteInv
<1>13. \A u \in Threads \ lost : (\E i \in DOMAIN objs'[u] : objs'[u][i].eventsFetched) =>
          \A n \in threads!Live(u) : n \in threadsSdk'[u].held \cup Untold(u)
  BY <1>6a, <1>6c, <1>12 DEF ThreadsInv, CompleteInv
<1>14. CompleteInv'
  BY <1>2, <1>6b, <1>11, <1>13 DEF CompleteInv
<1> QED
  BY <1>7, <1>8, <1>9, <1>10, <1>14 DEF ThreadsInv


\* A request fails, the panel is closed, or the message leaves the timeline.
LEMMA PanelLeaveStep ==
  ASSUME ThreadsInv,
         \/ \E f \in threadsFetches : threads!FetchFails(f)
         \/ threads!CloseThread
         \/ \E t \in Threads : threads!LeavesTimeline(t)
  PROVE  ThreadsInv'
<1>1. CASE \E f \in threadsFetches : threads!FetchFails(f)
  <2>1. /\ UNCHANGED <<posted, deleted, byReason, feed, lost, threadsSdk, objs, root, lengths, currentThreadId, panel>>
        /\ threadsFetches' \subseteq threadsFetches
    BY <1>1 DEF threads!FetchFails, threads!hubVars, threads!shownVars
  <2>2. \A u : UNCHANGED threads!Live(u) /\ UNCHANGED Untold(u)
    BY <2>1 DEF threads!Live, Untold
  <2>3. ThreadTypes' /\ ThreadRefs' /\ ShownInv' /\ FeedInv' /\ PanelInv'
    BY <2>1, <2>2 DEF ThreadsInv, ThreadTypes, ThreadRefs, ShownInv, FeedInv, PanelInv
  <2>4. FetchesInv' /\ CompleteInv'
    BY <2>1, <2>2 DEF ThreadsInv, FetchesInv, CompleteInv
  <2> QED
    BY <2>3, <2>4 DEF ThreadsInv
<1>2. CASE threads!CloseThread
  <2>1. /\ UNCHANGED <<posted, deleted, byReason, feed, lost, threadsSdk, objs, root, threadsFetches, lengths>>
        /\ currentThreadId' = threads!NoThread /\ panel' = {}
    BY <1>2 DEF threads!CloseThread, threads!hubVars
  <2>2. \A u : UNCHANGED threads!Live(u) /\ UNCHANGED Untold(u)
    BY <2>1 DEF threads!Live, Untold
  <2>3. ThreadTypes' /\ ThreadRefs' /\ ShownInv' /\ FeedInv'
    BY <2>1, <2>2 DEF ThreadsInv, ThreadTypes, ThreadRefs, ShownInv, FeedInv
  <2>4. FetchesInv' /\ CompleteInv'
    BY <2>1, <2>2 DEF ThreadsInv, FetchesInv, CompleteInv
  <2>5. PanelInv'
    BY <2>1, ThreadsAssumption DEF PanelInv, threads!NoThread
  <2> QED
    BY <2>3, <2>4, <2>5 DEF ThreadsInv
<1>3. CASE \E t \in Threads : threads!LeavesTimeline(t)
  <2>0. PICK t \in Threads : threads!LeavesTimeline(t)
    BY <1>3
  <2>1. /\ UNCHANGED <<posted, deleted, byReason, feed, lost, threadsSdk, objs, threadsFetches, lengths, currentThreadId, panel>>
        /\ root' = [root EXCEPT ![t] = 0]
    BY <2>0 DEF threads!LeavesTimeline, threads!hubVars, threads!shownVars
  <2>1a. /\ root' \in [Threads -> Nat]
         /\ \A u \in Threads : root'[u] = 0 \/ root'[u] = root[u]
    BY <2>1 DEF ThreadsInv, ThreadTypes
  <2>2. \A u : UNCHANGED threads!Live(u) /\ UNCHANGED Untold(u)
    BY <2>1 DEF threads!Live, Untold
  <2>3. ThreadTypes' /\ ShownInv' /\ FeedInv' /\ FetchesInv' /\ CompleteInv'
    BY ZenonT(60), <2>1, <2>1a, <2>2 DEF ThreadsInv, ThreadTypes, ShownInv, FeedInv, FetchesInv, CompleteInv
  <2>4. ThreadRefs'
    <3>1. \A u \in Threads : root'[u] <= Len(objs[u])
      <4>1. \A u \in Threads : Len(objs[u]) \in Nat
        BY LenProperties DEF ThreadsInv, ThreadTypes
      <4> QED
        BY <2>1a, <4>1 DEF ThreadsInv, ThreadRefs
    <3> QED
      BY <2>1, <3>1 DEF ThreadsInv, ThreadRefs
  <2>5. PanelInv'
    BY <2>1, <2>1a, <2>2 DEF ThreadsInv, PanelInv
  <2> QED
    BY <2>3, <2>4, <2>5 DEF ThreadsInv
<1> QED
  BY <1>1, <1>2, <1>3

\* The message is in the timeline anew.
LEMMA LoadStep ==
  ASSUME ThreadsInv, NEW t \in Threads, threads!LoadThread(t) PROVE ThreadsInv'
<1>1. PICK o : o = threads!Fresh(t)
  OBVIOUS
<1>2. /\ o.set = threadsSdk[t].made /\ o.eventsFetched = FALSE /\ o.redactedEvents = {} /\ o \in ThreadObj
      /\ o.count <= posted[t]
  <2>1. posted[t] \in Nat /\ threads!Live(t) \in SUBSET (1 .. posted[t]) /\ threadsSdk[t].made \in BOOLEAN
    BY DEF ThreadsInv, ThreadTypes, SdkThread, threads!Live
  <2>2. threads!Cardinality(threads!Live(t)) \in 0 .. posted[t]
    BY <2>1, Counting
  <2> HIDE DEF threads!Live
  <2> QED
    BY <1>1, <2>1, <2>2 DEF threads!Fresh, ThreadObj
<1>3. /\ UNCHANGED <<posted, deleted, byReason, feed, lost, threadsSdk, lengths, currentThreadId, panel>>
      /\ objs' = [objs EXCEPT ![t] = Append(@, o)] /\ root' = [root EXCEPT ![t] = Len(objs'[t])]
      /\ threadsFetches' = IF threadsSdk[t].made THEN threadsFetches \cup threads!Fetching({t}, objs', root')
                           ELSE threadsFetches
  BY <1>1 DEF threads!LoadThread, threads!hubVars, threads!shownVars
<1>4. objs[t] \in Seq(ThreadObj) /\ objs \in [Threads -> Seq(ThreadObj)] /\ root \in [Threads -> Nat]
  BY DEF ThreadsInv, ThreadTypes
<1>5. /\ Append(objs[t], o) \in Seq(ThreadObj) /\ Len(objs[t]) \in Nat /\ Len(Append(objs[t], o)) = Len(objs[t]) + 1
      /\ DOMAIN objs[t] = 1 .. Len(objs[t]) /\ DOMAIN Append(objs[t], o) = 1 .. Len(objs[t]) + 1
      /\ \A i \in 1 .. Len(objs[t]) : Append(objs[t], o)[i] = objs[t][i]
      /\ Append(objs[t], o)[Len(objs[t]) + 1] = o
  BY <1>2, <1>4, AppendProperties, LenProperties
<1>6. /\ objs' \in [Threads -> Seq(ThreadObj)] /\ objs'[t] = Append(objs[t], o)
      /\ \A u \in Threads : u # t => objs'[u] = objs[u]
  BY <1>3, <1>4, <1>5
<1>7. /\ root' \in [Threads -> Nat] /\ root'[t] = Len(objs[t]) + 1 /\ \A u \in Threads : u # t => root'[u] = root[u]
  BY <1>3, <1>4, <1>5, <1>6
<1>8. \A u : UNCHANGED threads!Live(u) /\ UNCHANGED Untold(u)
  BY <1>3 DEF threads!Live, Untold
<1>9. \A u \in Threads : \A i \in DOMAIN objs'[u] :
        (i \in DOMAIN objs[u] /\ objs'[u][i] = objs[u][i]) \/ (u = t /\ objs'[u][i] = o)
  BY <1>5, <1>6
<1>10. \A u \in Threads : DOMAIN objs[u] \subseteq DOMAIN objs'[u] /\ \A i \in DOMAIN objs[u] : objs'[u][i] = objs[u][i]
  <2>1. ASSUME NEW i \in DOMAIN objs[t] PROVE i \in DOMAIN objs'[t] /\ objs'[t][i] = objs[t][i]
    BY <1>5, <1>6
  <2> QED
    BY <1>6, <2>1
<1>11. ThreadTypes' /\ ShownInv' /\ FeedInv'
  BY <1>3, <1>6, <1>7 DEF ThreadsInv, ThreadTypes, ShownInv, FeedInv
<1>12. ThreadRefs'
  <2>1. \A u \in Threads : root'[u] <= Len(objs'[u])
    BY <1>5, <1>6, <1>7 DEF ThreadsInv, ThreadRefs
  <2>2. \A u \in Threads : \A i \in DOMAIN objs'[u] :
          /\ objs'[u][i].redactedEvents \subseteq deleted[u] /\ objs'[u][i].count <= posted[u]
          /\ objs'[u][i].eventsFetched => objs'[u][i].set
    BY <1>2, <1>9 DEF ThreadsInv, ThreadRefs
  <2> QED
    BY <1>3, <2>1, <2>2 DEF ThreadsInv, ThreadRefs
<1>13. ASSUME NEW q \in threadsFetches'
       PROVE  \/ q \in threadsFetches
              \/ /\ threadsSdk[t].made /\ q.thread = t /\ q.obj = root'[t]
                 /\ q.page \subseteq 1 .. posted[q.thread] /\ q.more \in BOOLEAN /\ (q.more => q.page # {})
                 /\ \A n \in threads!Live(q.thread) : n \in q.page \/ (q.more /\ n < threads!Min(q.page))
  <2> SUFFICES ASSUME q \notin threadsFetches
               PROVE  /\ threadsSdk[t].made /\ q.thread = t /\ q.obj = root'[t]
                      /\ q.page \subseteq 1 .. posted[q.thread] /\ q.more \in BOOLEAN /\ (q.more => q.page # {})
                      /\ \A n \in threads!Live(q.thread) : n \in q.page \/ (q.more /\ n < threads!Min(q.page))
    OBVIOUS
  <2>1. threadsSdk[t].made /\ q \in threads!Fetching({t}, objs', root')
    BY <1>3, <1>13
  <2>2. PICK os, rs : os = objs' /\ rs = root'
    OBVIOUS
  <2>3. {t} \in SUBSET Threads /\ q \in threads!Fetching({t}, os, rs) /\ ThreadTypes
    BY <2>1, <2>2 DEF ThreadsInv
  <2>4. /\ q.thread \in {t} /\ q.obj = rs[q.thread] /\ q.page \subseteq 1 .. posted[q.thread] /\ q.more \in BOOLEAN
        /\ q.more => q.page # {}
        /\ \A n \in threads!Live(q.thread) : n \in q.page \/ (q.more /\ n < threads!Min(q.page))
    BY ONLY <2>3, FetchingCovers
  <2> QED
    BY <2>1, <2>2, <2>4
<1>14. FetchesInv'
  <2>1. root'[t] \in DOMAIN objs'[t] /\ objs'[t][root'[t]] = o
    BY <1>5, <1>6, <1>7
  <2>2. ASSUME NEW q \in threadsFetches
        PROVE  /\ q.thread \in Threads /\ q.obj \in DOMAIN objs'[q.thread] /\ objs'[q.thread][q.obj].set
               /\ q.page \subseteq 1 .. posted[q.thread] /\ q.more \in BOOLEAN /\ (q.more => q.page # {})
    BY <1>10 DEF ThreadsInv, FetchesInv
  <2>3. ASSUME NEW q \in threadsFetches', q \notin threadsFetches
        PROVE  /\ q.thread \in Threads /\ q.obj \in DOMAIN objs'[q.thread] /\ objs'[q.thread][q.obj].set
               /\ q.page \subseteq 1 .. posted[q.thread] /\ q.more \in BOOLEAN /\ (q.more => q.page # {})
    BY <1>2, <1>13, <2>1, <2>3
  <2> QED
    BY <1>3, <2>2, <2>3 DEF FetchesInv
<1>15. CompleteInv'
  <2>1. \A u \in Threads \ lost : (\E i \in DOMAIN objs'[u] : objs'[u][i].eventsFetched) =>
          \A n \in threads!Live(u) : n \in threadsSdk[u].held \cup Untold(u)
    BY <1>2, <1>9 DEF ThreadsInv, CompleteInv
  <2>2. \A u \in Threads \ lost, q \in threadsFetches' : q.thread = u => \A n \in threads!Live(u) :
         n \in threadsSdk[u].held \cup Untold(u) \cup q.page \/ (q.more /\ n < threads!Min(q.page))
    BY <1>13 DEF ThreadsInv, CompleteInv
  <2> QED
    BY ZenonT(60), <1>3, <1>8, <2>1, <2>2 DEF CompleteInv
<1>16. PanelInv'
  <2>1. \A u \in Threads : root'[u] # 0 =>
          (root[u] # 0 /\ root'[u] = root[u] /\ objs'[u][root'[u]] = objs[u][root[u]]) \/ objs'[u][root'[u]] = o
    BY <1>5, <1>6, <1>7
  <2> QED
    BY <1>2, <1>3, <1>8, <2>1 DEF ThreadsInv, PanelInv
<1> QED
  BY <1>11, <1>12, <1>14, <1>15, <1>16 DEF ThreadsInv


\* Threads are asked for; objects keep what they had, and no reply is lost of
\* which the client was told all.
LEMMA AskStep ==
  ASSUME ThreadsInv, UNCHANGED <<posted, deleted, byReason, root>>, lost \subseteq lost',
         objs' \in [Threads -> Seq(ThreadObj)],
         \A t \in Threads : DOMAIN objs'[t] = DOMAIN objs[t] /\ Len(objs'[t]) = Len(objs[t]),
         \A t \in Threads : \A i \in DOMAIN objs[t] :
           /\ objs'[t][i].eventsFetched = objs[t][i].eventsFetched /\ objs'[t][i].count = objs[t][i].count
           /\ (objs[t][i].set => objs'[t][i].set) /\ objs'[t][i].redactedEvents \subseteq deleted[t],
         NEW which \in SUBSET Threads,
         \A t \in which : root[t] # 0 /\ objs'[t][root[t]].set,
         threadsFetches' = threadsFetches \cup threads!Fetching(which, objs', root),
         \A t \in Threads : threadsSdk'[t].held \subseteq 1 .. posted[t],
         \A t \in Threads \ lost' : \A n \in threads!Live(t) :
           n \in threadsSdk[t].held \cup Untold(t) => n \in threadsSdk'[t].held \/ n \in Untold(t)'
  PROVE  ThreadRefs' /\ FetchesInv' /\ CompleteInv'
<1>1. \A u : UNCHANGED threads!Live(u)
  BY DEF threads!Live
<1>2. ThreadRefs'
  BY DEF ThreadsInv, ThreadRefs
<1>3. ASSUME NEW q \in threadsFetches', q \notin threadsFetches
      PROVE  /\ q.thread \in which /\ q.obj = root[q.thread]
             /\ q.page \subseteq 1 .. posted[q.thread] /\ q.more \in BOOLEAN /\ (q.more => q.page # {})
             /\ \A n \in threads!Live(q.thread) : n \in q.page \/ (q.more /\ n < threads!Min(q.page))
  <2>1. q \in threads!Fetching(which, objs', root)
    BY <1>3
  <2>2. PICK os : os = objs'
    OBVIOUS
  <2>3. which \in SUBSET Threads /\ q \in threads!Fetching(which, os, root) /\ ThreadTypes
    BY <2>1, <2>2 DEF ThreadsInv
  <2> QED
    BY ONLY <2>3, FetchingCovers
<1>4. \A t \in which : t \in Threads /\ root[t] \in DOMAIN objs'[t]
  <2>1. \A t \in Threads : DOMAIN objs[t] = 1 .. Len(objs[t]) /\ Len(objs[t]) \in Nat /\ root[t] \in Nat /\ root[t] <= Len(objs[t])
    BY LenProperties DEF ThreadsInv, ThreadTypes, ThreadRefs
  <2> QED
    BY <2>1
<1>5. FetchesInv'
  <2>1. ASSUME NEW q \in threadsFetches
        PROVE  /\ q.thread \in Threads /\ q.obj \in DOMAIN objs'[q.thread] /\ objs'[q.thread][q.obj].set
               /\ q.page \subseteq 1 .. posted[q.thread] /\ q.more \in BOOLEAN /\ (q.more => q.page # {})
    BY DEF ThreadsInv, FetchesInv
  <2>2. ASSUME NEW q \in threadsFetches', q \notin threadsFetches
        PROVE  /\ q.thread \in Threads /\ q.obj \in DOMAIN objs'[q.thread] /\ objs'[q.thread][q.obj].set
               /\ q.page \subseteq 1 .. posted[q.thread] /\ q.more \in BOOLEAN /\ (q.more => q.page # {})
    BY <1>3, <1>4, <2>2
  <2>3. UNCHANGED posted
    OBVIOUS
  <2> QED
    BY ONLY <2>1, <2>2, <2>3 DEF FetchesInv
<1>6. CompleteInv'
  <2>1. \A u \in Threads \ lost' : (\E i \in DOMAIN objs'[u] : objs'[u][i].eventsFetched) =>
          \A n \in threads!Live(u) : n \in threadsSdk'[u].held \/ n \in Untold(u)'
    BY DEF ThreadsInv, CompleteInv
  <2>2. ASSUME NEW u \in Threads \ lost', NEW q \in threadsFetches', q.thread = u, NEW n \in threads!Live(u)
        PROVE  n \in threadsSdk'[u].held \/ n \in Untold(u)' \/ n \in q.page \/ (q.more /\ n < threads!Min(q.page))
    <3>1. CASE q \in threadsFetches
      BY <2>2, <3>1 DEF ThreadsInv, CompleteInv
    <3>2. CASE q \notin threadsFetches
      BY <1>3, <2>2, <3>2
    <3> QED
      BY <3>1, <3>2
  <2> QED
    BY <1>1, <2>1, <2>2 DEF CompleteInv
<1> QED
  BY <1>2, <1>5, <1>6

\* A thread is opened.
LEMMA ThreadOpenStep ==
  ASSUME ThreadsInv, NEW t \in Threads, threads!SetCurrentThreadId(t) PROVE ThreadsInv'
<1> DEFINE asks == root[t] # 0 /\ ~objs[t][root[t]].set
<1>1. /\ currentThreadId' = t /\ threads!Reread(lengths)
      /\ UNCHANGED <<posted, deleted, byReason, feed, lost, root>>
      /\ asks => /\ objs' = [objs EXCEPT ![t][root[t]].set = TRUE] /\ threadsSdk' = [threadsSdk EXCEPT ![t].made = TRUE]
                 /\ threadsFetches' = threadsFetches \cup threads!Fetching({t}, objs', root)
      /\ ~asks => UNCHANGED <<objs, threadsSdk, threadsFetches>>
  BY DEF threads!SetCurrentThreadId, threads!hubVars
<1>2. /\ threadsSdk' \in [Threads -> SdkThread] /\ \A u \in Threads : threadsSdk'[u].held = threadsSdk[u].held
  <2>1. threadsSdk \in [Threads -> SdkThread]
    BY DEF ThreadsInv, ThreadTypes
  <2>2. CASE asks
    <3>1. threadsSdk' = [threadsSdk EXCEPT ![t].made = TRUE] /\ t \in Threads
      BY <1>1, <2>2
    <3>2. \A u \in Threads : threadsSdk[u] \in SdkThread
      BY <2>1
    <3>3. threadsSdk'[t] = [threadsSdk[t] EXCEPT !.made = TRUE] /\ \A u \in Threads : u # t => threadsSdk'[u] = threadsSdk[u]
      BY ONLY <2>1, <3>1
    <3>4. threadsSdk'[t] \in SdkThread /\ threadsSdk'[t].held = threadsSdk[t].held
      <4>1. threadsSdk[t] \in SdkThread
        BY <3>1, <3>2
      <4> QED
        BY ONLY <3>3, <4>1 DEF SdkThread
    <3>5. threadsSdk' \in [Threads -> SdkThread]
      <4>1. PICK v : v = threadsSdk'[t]
        OBVIOUS
      <4>2. threadsSdk' = [threadsSdk EXCEPT ![t] = v]
        BY ONLY <3>1, <3>3, <4>1
      <4>3. v \in SdkThread
        BY ONLY <3>4, <4>1
      <4> QED
        BY ONLY <2>1, <3>1, <4>2, <4>3
    <3> QED
      BY ONLY <3>3, <3>4, <3>5
  <2>3. CASE ~asks
    BY <1>1, <2>1, <2>3
  <2> QED
    BY <2>2, <2>3
<1>3. \A u : UNCHANGED threads!Live(u) /\ UNCHANGED Untold(u)
  BY <1>1 DEF threads!Live, Untold
<1>4. /\ objs' \in [Threads -> Seq(ThreadObj)]
      /\ \A u \in Threads : DOMAIN objs'[u] = DOMAIN objs[u] /\ Len(objs'[u]) = Len(objs[u])
      /\ \A u \in Threads : \A i \in DOMAIN objs[u] :
           /\ objs'[u][i].eventsFetched = objs[u][i].eventsFetched /\ objs'[u][i].count = objs[u][i].count
           /\ (objs[u][i].set => objs'[u][i].set) /\ objs'[u][i].redactedEvents \subseteq deleted[u]
      /\ asks => objs'[t][root[t]].set
  <2>1. objs \in [Threads -> Seq(ThreadObj)] /\ objs[t] \in Seq(ThreadObj)
        /\ \A u \in Threads : \A i \in DOMAIN objs[u] : objs[u][i].redactedEvents \subseteq deleted[u]
    BY DEF ThreadsInv, ThreadTypes, ThreadRefs
  <2>2. CASE ~asks
    BY <1>1, <2>1, <2>2
  <2>3. CASE asks
    <3>1. PICK s : s = [objs[t] EXCEPT ![root[t]].set = TRUE]
      OBVIOUS
    <3>2. objs' = [objs EXCEPT ![t] = s]
      BY <1>1, <2>3, <3>1
    <3>3. DOMAIN objs[t] = 1 .. Len(objs[t]) /\ Len(objs[t]) \in Nat /\ objs[t] \in [1 .. Len(objs[t]) -> ThreadObj]
      BY <2>1, LenProperties
    <3>4. root[t] \in DOMAIN objs[t]
      BY <2>3, <3>3 DEF ThreadsInv, ThreadTypes, ThreadRefs
    <3>5. s \in [1 .. Len(objs[t]) -> ThreadObj]
      BY <3>1, <3>3 DEF ThreadObj
    <3>6. s \in Seq(ThreadObj) /\ Len(s) = Len(objs[t]) /\ DOMAIN s = DOMAIN objs[t]
      BY <3>3, <3>5, FunSeq
    <3>7. /\ \A i \in DOMAIN objs[t] :
               /\ s[i].redactedEvents = objs[t][i].redactedEvents /\ s[i].count = objs[t][i].count
               /\ (objs[t][i].set => s[i].set) /\ s[i].eventsFetched = objs[t][i].eventsFetched
          /\ s[root[t]].set
      BY <3>1, <3>3, <3>4 DEF ThreadObj
    <3>8. objs'[t] = s /\ \A u \in Threads : u # t => objs'[u] = objs[u]
      BY <2>1, <3>2
    <3>9. objs' \in [Threads -> Seq(ThreadObj)]
      BY <2>1, <3>2, <3>6
    <3> QED
      BY ZenonT(60), <2>1, <3>6, <3>7, <3>8, <3>9
  <2> QED
    BY <2>2, <2>3
<1>5. \A u \in Threads : threadsSdk'[u].held \subseteq 1 .. posted[u]
  BY <1>2 DEF ThreadsInv, ThreadRefs
<1>6. \A u \in Threads \ lost' : \A n \in threads!Live(u) :
        n \in threadsSdk[u].held \cup Untold(u) => n \in threadsSdk'[u].held \/ n \in Untold(u)'
  BY <1>2, <1>3
<1>7. ThreadRefs' /\ FetchesInv' /\ CompleteInv'
  <2> DEFINE which == IF asks THEN {t} ELSE {}
  <2>1. which \in SUBSET Threads /\ lost \subseteq lost' /\ UNCHANGED <<posted, deleted, byReason, root>>
        /\ \A u \in which : root[u] # 0 /\ objs'[u][root[u]].set
    BY <1>1, <1>4
  <2>2. threads!Fetching({}, objs', root) = {}
    BY DEF threads!Fetching
  <2>3. threadsFetches' = threadsFetches \cup threads!Fetching(which, objs', root)
    <3>1. CASE asks
      BY <1>1, <3>1
    <3>2. CASE ~asks
      BY <1>1, <2>2, <3>2
    <3> QED
      BY <3>1, <3>2
  <2> HIDE DEF which, asks
  <2> QED
    BY ONLY ThreadsInv, <1>4, <1>5, <1>6, <2>1, <2>3, AskStep
<1>8. ThreadTypes'
  BY <1>1, <1>2, <1>4 DEF ThreadsInv, ThreadTypes
<1>9. ShownInv' /\ PanelInv'
  <2>1. PICK c : c = lengths
    OBVIOUS
  <2>2. c \in [Threads -> Int] /\ (\A u \in Threads : c[u] \in -1 .. posted'[u]) /\ threads!Reread(c)
    BY <1>1, <2>1 DEF ThreadsInv, ShownInv
  <2> QED
    BY ONLY <1>7, <1>8, <2>2, RereadPanel
<1>10. FeedInv'
  BY <1>1 DEF ThreadsInv, FeedInv
<1> QED
  BY <1>7, <1>8, <1>9, <1>10 DEF ThreadsInv


\* What a response of sliding sync tells of each thread: new replies, and
\* deletions that are noticed or not.
LEMMA ResponseTells ==
  ASSUME ThreadsInv, NEW k \in DOMAIN feed, feed' = SubSeq(feed, k + 1, Len(feed)),
         UNCHANGED <<posted, deleted, byReason>>, NEW batch, batch = threads!Batch(k), NEW t \in Threads
  PROVE  /\ feed' \in Seq(ThreadFeed) /\ FeedInv'
         /\ threads!Of(batch, {"reply"}, t) \subseteq 1 .. posted[t]
         /\ threads!Of(batch, {"thread"}, t) \subseteq deleted[t]
         /\ threads!Of(batch, {"thread", "reason"}, t) \subseteq deleted[t]
         /\ \A n \in threads!Of(batch, {"thread", "reason"}, t) : n \in threads!Of(batch, {"thread"}, t) \/ n \in byReason[t]
         /\ (\E i \in (1 .. k) \ batch : feed[i].thread = t) \/
              \A n \in Untold(t) : n \in Untold(t)' \/ n \in threads!Of(batch, {"reply"}, t)
<1>1. feed \in Seq(ThreadFeed) /\ Len(feed) \in Nat /\ DOMAIN feed = 1 .. Len(feed) /\ k \in 1 .. Len(feed)
  BY LenProperties DEF ThreadsInv, ThreadTypes
<1>2. \A i \in 1 .. Len(feed) : feed[i] \in ThreadFeed
  BY <1>1, ElementOfSeq
<1>3. /\ feed' \in Seq(ThreadFeed) /\ Len(feed') = Len(feed) - k
      /\ \A i \in 1 .. Len(feed) - k : feed'[i] = feed[k + i]
  <2>1. k + 1 \in 1 .. Len(feed) + 1 /\ Len(feed) \in k + 1 - 1 .. Len(feed)
    BY <1>1
  <2>2. \A i \in k + 1 .. Len(feed) : feed[i] \in ThreadFeed
    BY <1>1, <1>2
  <2>3. /\ SubSeq(feed, k + 1, Len(feed)) \in Seq(ThreadFeed)
        /\ Len(SubSeq(feed, k + 1, Len(feed))) = IF k + 1 <= Len(feed) THEN Len(feed) - (k + 1) + 1 ELSE 0
        /\ \A i \in 1 .. Len(feed) - (k + 1) + 1 : SubSeq(feed, k + 1, Len(feed))[i] = feed[k + 1 + i - 1]
    BY SMTT(30), <1>1, <2>1, <2>2, SubSeqProperties
  <2>4. Len(feed') = Len(feed) - k
    BY <1>1, <2>3
  <2>5. ASSUME NEW i \in 1 .. Len(feed) - k PROVE feed'[i] = feed[k + i]
    <3>1. i \in 1 .. Len(feed) - (k + 1) + 1 /\ k + 1 + i - 1 = k + i
      BY <1>1
    <3> QED
      BY <2>3, <3>1
  <2> QED
    BY <2>3, <2>4, <2>5
<1>4. DOMAIN feed' = 1 .. Len(feed) - k
  BY <1>3, LenProperties
<1>5. FeedInv'
  <2>1. ASSUME NEW i \in DOMAIN feed' PROVE k + i \in DOMAIN feed /\ feed'[i] = feed[k + i]
    BY SMTT(30), <1>1, <1>3, <1>4
  <2> QED
    BY <2>1 DEF ThreadsInv, FeedInv
<1>6. batch \subseteq 1 .. k /\ \A i \in batch : i \in DOMAIN feed /\ feed[i] \in ThreadFeed
  BY <1>1, <1>2 DEF threads!Batch
<1>7. ASSUME NEW i \in batch, feed[i].thread = t
      PROVE  /\ feed[i].kind = "reply" => feed[i].n \in 1 .. posted[t]
             /\ feed[i].kind = "thread" => feed[i].n \in deleted[t]
             /\ feed[i].kind = "reason" => feed[i].n \in byReason[t] /\ feed[i].n \in deleted[t]
  BY <1>6, <1>7 DEF ThreadsInv, FeedInv, ThreadRefs
<1>8. /\ threads!Of(batch, {"reply"}, t) \subseteq 1 .. posted[t]
      /\ threads!Of(batch, {"thread"}, t) \subseteq deleted[t]
      /\ threads!Of(batch, {"thread", "reason"}, t) \subseteq deleted[t]
      /\ \A n \in threads!Of(batch, {"thread", "reason"}, t) : n \in threads!Of(batch, {"thread"}, t) \/ n \in byReason[t]
  BY <1>7 DEF threads!Of
<1>9. ASSUME ~\E i \in (1 .. k) \ batch : feed[i].thread = t, NEW n \in Untold(t)
      PROVE  n \in Untold(t)' \/ n \in threads!Of(batch, {"reply"}, t)
  <2>1. PICK j \in DOMAIN feed : feed[j].kind = "reply" /\ feed[j].thread = t /\ feed[j].n = n
    BY DEF Untold
  <2>2. CASE j <= k
    <3>1. j \in batch
      BY <1>1, <1>9, <2>1, <2>2
    <3> QED
      BY <2>1, <3>1 DEF threads!Of
  <2>3. CASE j > k
    <3>1. j - k \in DOMAIN feed' /\ k + (j - k) = j /\ j - k \in 1 .. Len(feed) - k
      BY <1>1, <1>4, <2>3
    <3>2. feed'[j - k] = feed[j]
      BY <1>3, <3>1
    <3> QED
      BY <2>1, <3>1, <3>2 DEF Untold
  <2> QED
    BY <1>1, <2>2, <2>3
<1> QED
  BY <1>3, <1>5, <1>8, <1>9

\* The objects of the messages after a response.
Answered(dl, touched, owned) ==
  [t \in Threads |->
    [i \in DOMAIN objs[t] |->
      IF i # root[t] THEN objs[t][i]
      ELSE [objs[t][i] EXCEPT
              !.set = @ \/ t \in touched,
              !.redactedEvents = IF t \in owned THEN @ \cup (dl[t] \cap threadsSdk[t].held) ELSE @]]]

LEMMA ResponseObjects ==
  ASSUME ThreadTypes, ThreadRefs, NEW dl, \A t \in Threads : dl[t] \subseteq deleted[t], NEW touched, NEW owned,
         objs' = Answered(dl, touched, owned)
  PROVE  /\ objs' \in [Threads -> Seq(ThreadObj)]
         /\ \A t \in Threads : DOMAIN objs'[t] = DOMAIN objs[t] /\ Len(objs'[t]) = Len(objs[t])
         /\ \A t \in Threads : \A i \in DOMAIN objs[t] :
              /\ objs'[t][i].eventsFetched = objs[t][i].eventsFetched /\ objs'[t][i].count = objs[t][i].count
              /\ (objs[t][i].set => objs'[t][i].set) /\ objs'[t][i].redactedEvents \subseteq deleted[t]
              /\ (t \notin owned => objs'[t][i].redactedEvents = objs[t][i].redactedEvents)
              /\ (t \in touched /\ i = root[t] => objs'[t][i].set)
<1>1. ASSUME NEW t \in Threads
      PROVE  /\ objs'[t] \in Seq(ThreadObj) /\ DOMAIN objs'[t] = DOMAIN objs[t] /\ Len(objs'[t]) = Len(objs[t])
             /\ \A i \in DOMAIN objs[t] :
              /\ objs'[t][i].eventsFetched = objs[t][i].eventsFetched /\ objs'[t][i].count = objs[t][i].count
              /\ (objs[t][i].set => objs'[t][i].set) /\ objs'[t][i].redactedEvents \subseteq deleted[t]
              /\ (t \notin owned => objs'[t][i].redactedEvents = objs[t][i].redactedEvents)
              /\ (t \in touched /\ i = root[t] => objs'[t][i].set)
  <2>1. objs[t] \in Seq(ThreadObj) /\ Len(objs[t]) \in Nat /\ DOMAIN objs[t] = 1 .. Len(objs[t])
        /\ objs[t] \in [1 .. Len(objs[t]) -> ThreadObj]
    BY LenProperties DEF ThreadTypes
  <2>2. deleted[t] \in SUBSET Nat /\ dl[t] \subseteq deleted[t]
    BY DEF ThreadTypes
  <2>3. PICK was : was = objs[t]
    OBVIOUS
  <2>4. PICK s : s = [i \in DOMAIN was |->
             IF i # root[t] THEN was[i]
             ELSE [was[i] EXCEPT
                     !.set = @ \/ t \in touched,
                     !.redactedEvents = IF t \in owned THEN @ \cup (dl[t] \cap threadsSdk[t].held) ELSE @]]
    OBVIOUS
  <2>5. objs'[t] = s
    BY <2>3, <2>4 DEF Answered
  <2>6. ASSUME NEW i \in DOMAIN was
        PROVE  /\ s[i] \in ThreadObj
               /\ s[i].eventsFetched = was[i].eventsFetched /\ s[i].count = was[i].count
               /\ (was[i].set => s[i].set) /\ s[i].redactedEvents \subseteq deleted[t]
               /\ (t \notin owned => s[i].redactedEvents = was[i].redactedEvents)
               /\ (t \in touched /\ i = root[t] => s[i].set)
    <3>1. was[i] \in ThreadObj /\ was[i].redactedEvents \subseteq deleted[t]
      BY <2>1, <2>3 DEF ThreadRefs
    <3>2. CASE i # root[t]
      BY <2>4, <3>1, <3>2
    <3>3. CASE i = root[t]
      <4>1. s[i] = [was[i] EXCEPT
                     !.set = was[i].set \/ t \in touched,
                     !.redactedEvents = IF t \in owned THEN was[i].redactedEvents \cup (dl[t] \cap threadsSdk[t].held) ELSE was[i].redactedEvents]
        BY <2>4, <3>3
      <4>2. PICK b, rs : b = (was[i].set \/ t \in touched) /\ rs = (IF t \in owned THEN was[i].redactedEvents \cup (dl[t] \cap threadsSdk[t].held) ELSE was[i].redactedEvents)
        OBVIOUS
      <4>3. s[i] = [was[i] EXCEPT !.set = b, !.redactedEvents = rs]
        BY <4>1, <4>2
      <4>4. b \in BOOLEAN /\ rs \in SUBSET Nat /\ rs \subseteq deleted[t]
        BY <2>2, <3>1, <4>2 DEF ThreadObj
      <4>5. s[i] \in ThreadObj /\ s[i].eventsFetched = was[i].eventsFetched /\ s[i].count = was[i].count /\ s[i].set = b
            /\ s[i].redactedEvents = rs
        BY ONLY <3>1, <4>3, <4>4 DEF ThreadObj
      <4>6. (was[i].set => s[i].set) /\ (t \in touched => s[i].set)
        BY <4>2, <4>5
      <4> QED
        BY <4>2, <4>4, <4>5, <4>6
    <3> QED
      BY <3>2, <3>3
  <2>7. DOMAIN was = 1 .. Len(objs[t]) /\ s \in [1 .. Len(objs[t]) -> ThreadObj]
    BY <2>1, <2>3, <2>4, <2>6
  <2>8. s \in Seq(ThreadObj) /\ Len(s) = Len(objs[t]) /\ DOMAIN s = 1 .. Len(objs[t])
    BY SMTT(30), <2>1, <2>7, FunSeq
  <2> QED
    BY ONLY <2>1, <2>3, <2>5, <2>6, <2>8
<1>2. objs' \in [Threads -> Seq(ThreadObj)]
  BY <1>1 DEF Answered
<1> QED
  BY <1>1, <1>2


\* A response of sliding sync.
LEMMA ResponseStep ==
  ASSUME ThreadsInv, NEW k \in DOMAIN feed, threads!LoadFromSlidingSync(k) PROVE ThreadsInv'
<1>0. PICK batch : batch = threads!Batch(k)
  OBVIOUS
<1>1. PICK rp, dl, gn :
        /\ rp = [t \in Threads |-> threads!Replies(batch, t)]
        /\ dl = [t \in Threads |-> threads!Of(batch, {"thread"}, t)]
        /\ gn = [t \in Threads |-> threads!Of(batch, {"thread", "reason"}, t)]
  OBVIOUS
<1>2. PICK touched, owned, asking :
        /\ touched = {t \in Threads : root[t] # 0 /\ rp[t] # {}}
        /\ owned = {t \in Threads : root[t] # 0 /\ objs[t][root[t]].set /\ dl[t] \cap threadsSdk[t].held # {}}
        /\ asking = {t \in touched : t # currentThreadId \/ ~objs[t][root[t]].set}
  OBVIOUS
<1>2a. /\ touched = {t \in Threads : root[t] # 0 /\ threads!Replies(batch, t) # {}}
       /\ owned = {t \in Threads : /\ root[t] # 0 /\ objs[t][root[t]].set
                                   /\ threads!Of(batch, {"thread"}, t) \cap threadsSdk[t].held # {}}
  BY <1>1, <1>2
<1>3. PICK counted : counted = threads!Counted(touched \cup owned, threadsSdk', objs', root)
  OBVIOUS
<1>4. PICK seeded : seeded = [t \in Threads |-> IF counted[t] = -1 /\ root[t] # 0 /\ objs[t][root[t]].count > 0
                                   THEN objs[t][root[t]].count ELSE counted[t]]
  OBVIOUS
<1> DEFINE toggles == \E t \in Threads : rp[t] # {} \/ dl[t] # {}
<1>5. /\ feed' = SubSeq(feed, k + 1, Len(feed))
      /\ lost' = lost \cup {feed[i].thread : i \in (1 .. k) \ batch}
      /\ UNCHANGED <<posted, deleted, byReason, root, currentThreadId>>
  BY <1>0 DEF threads!LoadFromSlidingSync, threads!hubVars
<1>6. objs' = Answered(dl, touched, owned)
  <2>1. objs' = [t \in Threads |->
           [i \in DOMAIN objs[t] |->
             IF i # root[t] THEN objs[t][i]
             ELSE [objs[t][i] EXCEPT
                     !.set = @ \/ t \in touched,
                     !.redactedEvents = IF t \in owned THEN @ \cup (threads!Of(batch, {"thread"}, t) \cap threadsSdk[t].held) ELSE @]]]
    BY ZenonT(60), <1>0, <1>2a DEF threads!LoadFromSlidingSync
  <2> QED
    BY ZenonT(60), <1>1, <2>1 DEF Answered
<1>7. threadsSdk' = [t \in Threads |->
        [made |-> threadsSdk[t].made \/ rp[t] # {}, held |-> (threadsSdk[t].held \cup rp[t]) \ gn[t]]]
  <2>1. threadsSdk' = [t \in Threads |->
        [made |-> threadsSdk[t].made \/ threads!Replies(batch, t) # {},
         held |-> (threadsSdk[t].held \cup threads!Replies(batch, t)) \ threads!Of(batch, {"thread", "reason"}, t)]]
    BY ZenonT(60), <1>0 DEF threads!LoadFromSlidingSync
  <2> QED
    BY <1>1, <2>1
<1>8. threadsFetches' = threadsFetches \cup threads!Fetching(asking, objs', root)
  <2>1. asking = {t \in touched : t # currentThreadId \/ ~objs[t][root[t]].set}
    BY <1>2
  <2> QED
    BY <1>0, <1>2a, <2>1 DEF threads!LoadFromSlidingSync
<1>9. /\ toggles => threads!Reread(seeded)
      /\ ~toggles => lengths' = seeded /\ UNCHANGED panel
  <2> DEFINE T == {t \in Threads : root[t] # 0 /\ threads!Replies(threads!Batch(k), t) # {}}
             O == {t \in Threads : /\ root[t] # 0 /\ objs[t][root[t]].set
                                   /\ threads!Of(threads!Batch(k), {"thread"}, t) \cap threadsSdk[t].held # {}}
             C == threads!Counted(T \cup O, threadsSdk', objs', root)
             S == [t \in Threads |-> IF C[t] = -1 /\ root[t] # 0 /\ objs[t][root[t]].count > 0
                                     THEN objs[t][root[t]].count ELSE C[t]]
             G == \E t \in Threads : threads!Replies(threads!Batch(k), t) # {} \/ threads!Of(threads!Batch(k), {"thread"}, t) # {}
  <2>1. (G => threads!Reread(S)) /\ (~G => lengths' = S /\ UNCHANGED panel)
    BY ONLY threads!LoadFromSlidingSync(k), Zenon DEF threads!LoadFromSlidingSync
  <2>2. T = touched /\ O = owned
    BY <1>0, <1>2a
  <2>3. G = toggles
    BY <1>0, <1>1
  <2> HIDE DEF G, toggles, T, O
  <2>4. C = counted
    BY <1>3, <2>2
  <2> HIDE DEF C
  <2>5. S = seeded
    BY <1>4, <2>4
  <2> HIDE DEF S
  <2> QED
    BY <2>1, <2>3, <2>5
<1>10. ASSUME NEW t \in Threads
       PROVE  /\ feed' \in Seq(ThreadFeed) /\ FeedInv'
              /\ rp[t] \subseteq 1 .. posted[t] /\ dl[t] \subseteq deleted[t] /\ gn[t] \subseteq deleted[t]
              /\ \A n \in gn[t] : n \in dl[t] \/ n \in byReason[t]
              /\ t \notin lost' => \A n \in Untold(t) : n \in Untold(t)' \/ n \in rp[t] \/ n \in deleted[t]
  <2>1. /\ rp[t] = threads!Of(batch, {"reply"}, t) \ gn[t] /\ dl[t] = threads!Of(batch, {"thread"}, t)
        /\ gn[t] = threads!Of(batch, {"thread", "reason"}, t)
    BY <1>1 DEF threads!Replies
  <2>2. t \notin lost' => ~\E i \in (1 .. k) \ batch : feed[i].thread = t
    BY <1>5
  <2>3. /\ feed' \in Seq(ThreadFeed) /\ FeedInv'
        /\ threads!Of(batch, {"reply"}, t) \subseteq 1 .. posted[t]
        /\ threads!Of(batch, {"thread"}, t) \subseteq deleted[t]
        /\ threads!Of(batch, {"thread", "reason"}, t) \subseteq deleted[t]
        /\ \A n \in threads!Of(batch, {"thread", "reason"}, t) : n \in threads!Of(batch, {"thread"}, t) \/ n \in byReason[t]
        /\ (\E i \in (1 .. k) \ batch : feed[i].thread = t) \/
             \A n \in Untold(t) : n \in Untold(t)' \/ n \in threads!Of(batch, {"reply"}, t)
    BY <1>0, <1>5, ResponseTells
  <2> HIDE DEF toggles
  <2> QED
    BY ONLY <2>1, <2>2, <2>3
<1>11. ThreadTypes /\ ThreadRefs /\ posted \in [Threads -> Nat]
  BY DEF ThreadsInv, ThreadTypes
<1>12. /\ objs' \in [Threads -> Seq(ThreadObj)]
       /\ \A t \in Threads : DOMAIN objs'[t] = DOMAIN objs[t] /\ Len(objs'[t]) = Len(objs[t])
       /\ \A t \in Threads : \A i \in DOMAIN objs[t] :
            /\ objs'[t][i].eventsFetched = objs[t][i].eventsFetched /\ objs'[t][i].count = objs[t][i].count
            /\ (objs[t][i].set => objs'[t][i].set) /\ objs'[t][i].redactedEvents \subseteq deleted[t]
            /\ (t \notin owned => objs'[t][i].redactedEvents = objs[t][i].redactedEvents)
            /\ (t \in touched /\ i = root[t] => objs'[t][i].set)
  <2>1. \A t \in Threads : dl[t] \subseteq deleted[t]
    BY <1>10
  <2> HIDE DEF toggles
  <2> QED
    BY ONLY <1>6, <1>11, <2>1, ResponseObjects
<1>13. /\ threadsSdk' \in [Threads -> SdkThread]
       /\ \A t \in Threads : threadsSdk'[t].held = (threadsSdk[t].held \cup rp[t]) \ gn[t] /\ threadsSdk'[t].held \subseteq 1 .. posted[t]
  <2>1. ASSUME NEW t \in Threads
        PROVE  /\ threadsSdk'[t] \in SdkThread
               /\ threadsSdk'[t].held = (threadsSdk[t].held \cup rp[t]) \ gn[t] /\ threadsSdk'[t].held \subseteq 1 .. posted[t]
    <3>1. threadsSdk'[t] = [made |-> threadsSdk[t].made \/ rp[t] # {}, held |-> (threadsSdk[t].held \cup rp[t]) \ gn[t]]
      BY <1>7
    <3>2. threadsSdk[t].held \subseteq 1 .. posted[t] /\ rp[t] \subseteq 1 .. posted[t] /\ posted[t] \in Nat /\ threadsSdk[t].made \in BOOLEAN
      BY <1>10, <1>11 DEF ThreadTypes, ThreadRefs, SdkThread
    <3>3. PICK b, h : b = (threadsSdk[t].made \/ rp[t] # {}) /\ h = (threadsSdk[t].held \cup rp[t]) \ gn[t]
      OBVIOUS
    <3>4. b \in BOOLEAN /\ h \subseteq 1 .. posted[t] /\ h \in SUBSET Nat
      BY <3>2, <3>3
    <3>5. threadsSdk'[t] = [made |-> b, held |-> h]
      BY <3>1, <3>3
    <3> QED
      BY <3>3, <3>4, <3>5 DEF SdkThread
  <2>2. threadsSdk' \in [Threads -> SdkThread]
    <3> HIDE DEF toggles
    <3> QED
      BY <1>7, <2>1
  <2> QED
    BY <2>1, <2>2
<1>14. lost \subseteq lost' /\ lost' \in SUBSET Threads /\ feed' \in Seq(ThreadFeed) /\ FeedInv'
  <2>0. feed \in Seq(ThreadFeed) /\ Len(feed) \in Nat /\ DOMAIN feed = 1 .. Len(feed) /\ lost \in SUBSET Threads
    BY LenProperties DEF ThreadsInv, ThreadTypes
  <2>1. \A i \in 1 .. Len(feed) : feed[i] \in ThreadFeed
    BY <2>0, ElementOfSeq
  <2>1a. k \in 1 .. Len(feed)
    BY <2>0
  <2>2. \A i \in 1 .. k : feed[i].thread \in Threads
    BY <2>0, <2>1, <2>1a DEF ThreadFeed
  <2>3. lost \subseteq lost' /\ lost' \in SUBSET Threads
    BY <1>5, <2>0, <2>2
  <2>4. feed[k].thread \in Threads
    BY <2>1, <2>1a DEF ThreadFeed
  <2>5. feed' \in Seq(ThreadFeed) /\ FeedInv'
    BY <1>10, <2>4
  <2> QED
    BY <2>3, <2>5
<1>15. \A t \in Threads : \A n \in threads!Live(t) : n \notin deleted[t] /\ n \notin gn[t] /\ n \notin dl[t]
  BY <1>10 DEF threads!Live
<1>16. ThreadTypes'
  BY <1>5, <1>11, <1>12, <1>13, <1>14 DEF ThreadTypes
<1>17. ThreadRefs' /\ FetchesInv' /\ CompleteInv'
  <2>1. asking \in SUBSET Threads /\ asking \subseteq touched
    BY <1>2
  <2>2. \A t \in asking : root[t] # 0 /\ objs'[t][root[t]].set
    <3>1. \A t \in touched : t \in Threads /\ root[t] # 0
      BY <1>2
    <3>2. ASSUME NEW t \in Threads, root[t] # 0 PROVE root[t] \in DOMAIN objs[t]
      BY <1>11, <3>2, LenProperties DEF ThreadTypes, ThreadRefs
    <3> QED
      BY <1>12, <2>1, <3>1, <3>2
  <2>3. \A t \in Threads \ lost' : \A n \in threads!Live(t) :
          n \in threadsSdk[t].held \cup Untold(t) => n \in threadsSdk'[t].held \/ n \in Untold(t)'
    BY <1>10, <1>13, <1>15
  <2>4. /\ \A t \in Threads : threadsSdk'[t].held \subseteq 1 .. posted[t]
        /\ UNCHANGED <<posted, deleted, byReason, root>>
    BY <1>5, <1>13
  <2> HIDE DEF toggles
  <2> QED
    BY ONLY ThreadsInv, <1>8, <1>12, <1>14, <2>1, <2>2, <2>3, <2>4, AskStep
<1>18. counted \in [Threads -> Int] /\ (\A t \in Threads : counted[t] \in -1 .. posted[t])
       /\ \A t \in Threads : t \notin touched \cup owned => counted[t] = lengths[t]
  <2>1. ASSUME NEW t \in Threads
        PROVE  /\ counted[t] \in -1 .. posted[t] /\ counted[t] \in Int
               /\ t \notin touched \cup owned => counted[t] = lengths[t]
    <3>1. counted[t] = IF t \in touched \cup owned THEN threads!Cardinality(threadsSdk'[t].held \ objs'[t][root[t]].redactedEvents)
                       ELSE lengths[t]
      BY <1>3 DEF threads!Counted, threads!Events
    <3>2. posted[t] \in Nat /\ (threadsSdk'[t].held \ objs'[t][root[t]].redactedEvents) \in SUBSET (1 .. posted[t])
      BY <1>11, <1>13
    <3>3. threads!Cardinality(threadsSdk'[t].held \ objs'[t][root[t]].redactedEvents) \in 0 .. posted[t]
      BY <3>2, Counting
    <3>4. lengths[t] \in -1 .. posted[t] /\ lengths[t] \in Int
      BY DEF ThreadsInv, ShownInv
    <3> QED
      BY <3>1, <3>2, <3>3, <3>4
  <2>2. counted \in [Threads -> Int]
    BY <1>3, <2>1 DEF threads!Counted
  <2> QED
    BY <2>1, <2>2
<1>19. /\ seeded \in [Threads -> Int] /\ (\A t \in Threads : seeded[t] \in -1 .. posted[t])
       /\ \A t \in Threads : t \notin touched \cup owned /\ lengths[t] # -1 => seeded[t] = lengths[t]
  <2>1. ASSUME NEW t \in Threads
        PROVE  /\ seeded[t] \in -1 .. posted[t] /\ seeded[t] \in Int
               /\ t \notin touched \cup owned /\ lengths[t] # -1 => seeded[t] = lengths[t]
    <3>1. posted[t] \in Nat /\ counted[t] \in -1 .. posted[t] /\ counted[t] \in Int
      BY <1>11, <1>18
    <3>2. root[t] # 0 => objs[t][root[t]].count \in Nat /\ objs[t][root[t]].count <= posted[t]
      <4>1. SUFFICES ASSUME root[t] # 0 PROVE objs[t][root[t]].count \in Nat /\ objs[t][root[t]].count <= posted[t]
        OBVIOUS
      <4>2. root[t] \in DOMAIN objs[t] /\ objs[t] \in [1 .. Len(objs[t]) -> ThreadObj] /\ root[t] \in 1 .. Len(objs[t])
        BY <1>11, <4>1, LenProperties DEF ThreadTypes, ThreadRefs
      <4>3. objs[t][root[t]] \in ThreadObj
        BY <4>2
      <4> QED
        BY <1>11, <4>2, <4>3 DEF ThreadRefs, ThreadObj
    <3>3. seeded[t] = IF counted[t] = -1 /\ root[t] # 0 /\ objs[t][root[t]].count > 0
                      THEN objs[t][root[t]].count ELSE counted[t]
      BY <1>4
    <3> QED
      BY <1>18, <3>1, <3>2, <3>3
  <2>2. seeded \in [Threads -> Int]
    BY <1>4, <2>1
  <2> QED
    BY <2>1, <2>2
<1>20. CASE toggles
  <2>1. \A t \in Threads : seeded[t] \in -1 .. posted'[t]
    BY <1>5, <1>19
  <2>2. threads!Reread(seeded)
    BY <1>9, <1>20
  <2>3. ShownInv' /\ PanelInv'
    BY ONLY <1>16, <1>17, <1>19, <2>1, <2>2, RereadPanel
  <2> QED
    BY <1>14, <1>16, <1>17, <2>3 DEF ThreadsInv
<1>21. CASE ~toggles
  <2>1. lengths' = seeded /\ UNCHANGED panel /\ \A t \in Threads : rp[t] = {} /\ dl[t] = {}
    BY <1>9, <1>21
  <2>2. touched = {} /\ owned = {}
    BY <1>2, <2>1
  <2>3. ShownInv'
    BY <1>5, <1>19, <2>1 DEF ThreadsInv, ShownInv
  <2>4. ASSUME NEW t \in Threads, currentThreadId = t
        PROVE  /\ \A n \in panel : n \in byReason[t] \/ n \in threadsSdk'[t].held
               /\ \A n \in panel : root[t] # 0 /\ n \notin byReason[t] => n \notin objs'[t][root[t]].redactedEvents
               /\ root[t] # 0 /\ objs'[t][root[t]].eventsFetched =>
                    /\ seeded[t] = Cardinality(panel)
                    /\ t \notin lost' => \A n \in threads!Live(t) \cap threadsSdk'[t].held : n \in panel \/ n \in Untold(t)'
    <3>1. \A n \in panel : n \in byReason[t] \/ n \in threadsSdk'[t].held
      BY <1>10, <1>13, <2>1, <2>4 DEF ThreadsInv, PanelInv
    <3>2. ASSUME root[t] # 0
          PROVE  /\ root[t] \in DOMAIN objs[t]
                 /\ objs'[t][root[t]].redactedEvents = objs[t][root[t]].redactedEvents
                 /\ objs'[t][root[t]].eventsFetched = objs[t][root[t]].eventsFetched
      <4>1. root[t] \in DOMAIN objs[t]
        BY <1>11, <3>2, LenProperties DEF ThreadTypes, ThreadRefs
      <4> QED
        BY <1>12, <2>2, <4>1
    <3>3. \A n \in panel : root[t] # 0 /\ n \notin byReason[t] => n \notin objs'[t][root[t]].redactedEvents
      BY <2>4, <3>2 DEF ThreadsInv, PanelInv
    <3>4. ASSUME root[t] # 0, objs'[t][root[t]].eventsFetched
          PROVE  /\ seeded[t] = Cardinality(panel)
                 /\ t \notin lost' => \A n \in threads!Live(t) \cap threadsSdk'[t].held : n \in panel \/ n \in Untold(t)'
      <4>1. /\ lengths[t] = Cardinality(panel)
            /\ t \notin lost => \A n \in threads!Live(t) \cap threadsSdk[t].held : n \in panel \/ n \in Untold(t)
        BY <2>4, <3>2, <3>4 DEF ThreadsInv, PanelInv
      <4>2. root[t] \in DOMAIN objs[t] /\ objs[t][root[t]].eventsFetched
        BY <3>2, <3>4
      <4>3. Cardinality(panel) # -1
        <5>1. \A n \in panel : n \in 1 .. posted[t]
          BY <1>11, <2>4 DEF ThreadsInv, PanelInv, ThreadRefs
        <5>2. Cardinality(panel) \in 0 .. posted[t]
          BY <1>11, <5>1, Counting
        <5> QED
          BY <5>2
      <4>4. seeded[t] = lengths[t]
        BY <1>19, <2>2, <4>1, <4>3
      <4>5. ASSUME t \notin lost', NEW n \in threads!Live(t) \cap threadsSdk'[t].held PROVE n \in panel \/ n \in Untold(t)'
        <5>1. t \notin lost /\ n \in threadsSdk[t].held /\ n \notin deleted[t]
          BY <1>13, <1>14, <1>15, <2>1, <4>5
        <5>2. n \in panel \/ n \in Untold(t)
          BY <4>1, <4>5, <5>1
        <5> QED
          BY <1>10, <2>1, <4>5, <5>1, <5>2
      <4> QED
        BY <4>1, <4>4, <4>5
    <3> QED
      BY <3>1, <3>3, <3>4
  <2>5. \A u : UNCHANGED threads!Live(u)
    BY <1>5 DEF threads!Live
  <2>6. PanelInv'
    BY <1>5, <2>1, <2>4, <2>5 DEF PanelInv
  <2> QED
    BY <1>14, <1>16, <1>17, <2>3, <2>6 DEF ThreadsInv
<1> QED
  BY <1>20, <1>21


LEMMA ThreadsStep == ThreadsInv /\ (threads!ThreadsNext \/ UNCHANGED threadsVars) => ThreadsInv'
<1> SUFFICES ASSUME ThreadsInv, threads!ThreadsNext \/ UNCHANGED threadsVars PROVE ThreadsInv'
  OBVIOUS
<1>1. CASE UNCHANGED threadsVars
  <2>1. \A u : UNCHANGED threads!Live(u) /\ UNCHANGED Untold(u)
    BY <1>1 DEF threads!Live, Untold, threadsVars
  <2>2. ThreadTypes' /\ ThreadRefs' /\ ShownInv' /\ FeedInv' /\ PanelInv'
    BY <1>1, <2>1 DEF threadsVars, ThreadsInv, ThreadTypes, ThreadRefs, ShownInv, FeedInv, PanelInv
  <2>3. FetchesInv' /\ CompleteInv'
    BY <1>1, <2>1 DEF threadsVars, ThreadsInv, FetchesInv, CompleteInv
  <2> QED
    BY <2>2, <2>3 DEF ThreadsInv
<1>2. CASE \E t \in Threads : threads!Post(t) \/ threads!SetCurrentThreadId(t) \/ threads!LoadThread(t)
  BY <1>2, ReplyStep, ThreadOpenStep, LoadStep
<1>3. CASE (\E t \in Threads : threads!LeavesTimeline(t)) \/ threads!CloseThread \/ \E f \in threadsFetches : threads!FetchFails(f)
  BY <1>3, PanelLeaveStep
<1>4. CASE \E t \in Threads : \E n \in 1 .. posted[t] : threads!DeleteThreadMessage(t, n)
  BY <1>4, DeleteStep
<1>5. CASE \E k \in DOMAIN feed : threads!LoadFromSlidingSync(k)
  BY <1>5, ResponseStep
<1>6. CASE \E f \in threadsFetches : threads!FetchEvents(f)
  BY <1>6, NextPageStep, LastPageStep
<1> QED
  BY <1>1, <1>2, <1>3, <1>4, <1>5, <1>6 DEF threads!ThreadsNext

LEMMA ThreadsStart == threads!ThreadsInit => ThreadsInv
<1> SUFFICES ASSUME threads!ThreadsInit PROVE ThreadsInv
  OBVIOUS
<1>1. /\ posted = [t \in Threads |-> Earlier] /\ Earlier \in Nat
      /\ deleted = [t \in Threads |-> {}] /\ byReason = [t \in Threads |-> {}]
      /\ feed = <<>> /\ lost = {} /\ threadsSdk = [t \in Threads |-> [made |-> FALSE, held |-> {}]]
      /\ objs = [t \in Threads |-> <<>>] /\ root = [t \in Threads |-> 0]
      /\ threadsFetches = {} /\ lengths = [t \in Threads |-> -1]
      /\ currentThreadId = threads!NoThread /\ panel = {}
  BY ThreadsAssumption DEF threads!ThreadsInit
<1>2. feed \in Seq(ThreadFeed) /\ DOMAIN feed = {} /\ <<>> \in Seq(ThreadObj) /\ Len(<<>>) = 0 /\ DOMAIN <<>> = {}
  <2>1. <<>> \in Seq(ThreadFeed) /\ <<>> \in Seq(ThreadObj) /\ Len(<<>>) = 0
    BY EmptySeq
  <2>2. DOMAIN <<>> = {}
    OBVIOUS
  <2> QED
    BY <1>1, <2>1, <2>2
<1>3. ThreadTypes
  BY <1>1, <1>2 DEF ThreadTypes, SdkThread
<1>4. ThreadRefs
  <2>1. \A t \in Threads : /\ byReason[t] = {} /\ deleted[t] = {} /\ threadsSdk[t].held = {} /\ root[t] = 0
                           /\ Len(objs[t]) = 0 /\ DOMAIN objs[t] = {}
    BY <1>1, <1>2
  <2> QED
    BY <2>1 DEF ThreadRefs
<1>5. ShownInv
  BY <1>1 DEF ShownInv
<1>6. FeedInv /\ FetchesInv
  BY <1>1, <1>2 DEF FeedInv, FetchesInv
<1>7. CompleteInv
  <2>1. \A t \in Threads : DOMAIN objs[t] = {}
    BY <1>1, <1>2
  <2> QED
    BY <1>1, <2>1 DEF CompleteInv
<1>8. PanelInv
  BY <1>1, ThreadsAssumption DEF PanelInv, threads!NoThread
<1> QED
  BY <1>3, <1>4, <1>5, <1>6, <1>7, <1>8 DEF ThreadsInv

LEMMA ThreadsWhole == ThreadsInv => threads!ThreadIsWhole /\ threads!ThreadsTypeOK
<1> SUFFICES ASSUME ThreadsInv PROVE threads!ThreadIsWhole /\ threads!ThreadsTypeOK
  OBVIOUS
<1>1. ASSUME NEW t \in Threads, threads!Settled(t)
      PROVE  threads!Live(t) \subseteq panel /\ panel \ threads!Live(t) \subseteq byReason[t]
             /\ lengths[t] = threads!Cardinality(panel)
  <2>1. /\ currentThreadId = t /\ root[t] # 0 /\ objs[t][root[t]].eventsFetched /\ t \notin lost
        /\ \A k \in DOMAIN feed : feed[k].thread # t
        /\ threadsSdk[t].held \cap deleted[t] \subseteq objs[t][root[t]].redactedEvents
    BY <1>1 DEF threads!Settled
  <2>2. root[t] \in DOMAIN objs[t]
    BY <2>1, LenProperties DEF ThreadsInv, ThreadTypes, ThreadRefs
  <2>3. Untold(t) = {}
    BY <2>1 DEF Untold
  <2>4. \A n \in threads!Live(t) : n \in threadsSdk[t].held
    BY <2>1, <2>2, <2>3 DEF ThreadsInv, CompleteInv
  <2>5. threads!Live(t) \subseteq panel /\ lengths[t] = Cardinality(panel)
    BY <2>1, <2>3, <2>4 DEF ThreadsInv, PanelInv
  <2>6. ASSUME NEW n \in panel, n \notin threads!Live(t), n \notin byReason[t] PROVE FALSE
    <3>1. n \in threadsSdk[t].held /\ n \notin objs[t][root[t]].redactedEvents
      BY <2>1, <2>6 DEF ThreadsInv, PanelInv
    <3>2. n \in 1 .. posted[t]
      BY <3>1 DEF ThreadsInv, ThreadRefs
    <3>3. n \in deleted[t]
      BY <2>6, <3>2 DEF threads!Live
    <3> QED
      BY <2>1, <3>1, <3>3
  <2> QED
    BY <2>5, <2>6, ThreadsCardinality
<1>2. threads!ThreadIsWhole
  BY <1>1 DEF threads!ThreadIsWhole
<1>3. \A t \in Threads :
       /\ posted[t] \in Nat /\ byReason[t] \subseteq deleted[t] /\ deleted[t] \subseteq 1 .. posted[t]
       /\ threadsSdk[t].made \in BOOLEAN /\ threadsSdk[t].held \subseteq 1 .. posted[t]
       /\ root[t] \in 0 .. Len(objs[t]) /\ lengths[t] \in -1 .. posted[t]
       /\ \A i \in DOMAIN objs[t] : objs[t][i].redactedEvents \subseteq deleted[t]
  <2>1. \A t \in Threads : posted[t] \in Nat /\ threadsSdk[t].made \in BOOLEAN /\ root[t] \in Nat
    BY DEF ThreadsInv, ThreadTypes, SdkThread
  <2>2. \A t \in Threads : Len(objs[t]) \in Nat
    BY LenProperties DEF ThreadsInv, ThreadTypes
  <2>3. \A t \in Threads : root[t] \in 0 .. Len(objs[t])
    BY <2>1, <2>2 DEF ThreadsInv, ThreadRefs
  <2> QED
    BY <2>1, <2>3 DEF ThreadsInv, ThreadRefs, ShownInv
<1>4. \A k \in DOMAIN feed : feed[k].thread \in Threads /\ feed[k].kind \in {"reply", "thread", "reason"}
  <2>1. \A k \in DOMAIN feed : feed[k] \in ThreadFeed
    BY ElementOfSeq, LenProperties DEF ThreadsInv, ThreadTypes
  <2> QED
    BY <2>1 DEF ThreadFeed
<1>5. \A f \in threadsFetches : f.thread \in Threads /\ f.obj \in DOMAIN objs[f.thread] /\ f.more \in BOOLEAN
  BY DEF ThreadsInv, FetchesInv
<1>6. /\ lost \subseteq Threads /\ currentThreadId \in Threads \cup {threads!NoThread}
      /\ currentThreadId = threads!NoThread => panel = {}
  BY DEF ThreadsInv, ThreadTypes, ShownInv
<1>7. threads!ThreadsTypeOK
  BY <1>3, <1>4, <1>5, <1>6 DEF threads!ThreadsTypeOK
<1> QED
  BY <1>2, <1>7

-----------------------------------------------------------------------------
(* Experts: the last word of each counts.                                  *)

LEMMA InductionTo ==
  ASSUME NEW n \in Nat, NEW G, 0 \in G, \A k \in 1 .. n : k - 1 \in G => k \in G
  PROVE  \A k \in 0 .. n : k \in G
<1> DEFINE R == OpToRel(<, Nat)  B == {k \in 0 .. n : k \notin G}
<1>1. IsWellFoundedOn(R, Nat) /\ \A x, y \in Nat : y < x => <<y, x>> \in R
  BY NatLessThanWellFounded DEF OpToRel
<1> HIDE DEF R
<1>2. SUFFICES ASSUME B # {} PROVE FALSE
  OBVIOUS
<1>3. B \in SUBSET Nat
  OBVIOUS
<1>4. PICK k \in B : \A y \in B : <<y, k>> \notin R
  <2> HIDE DEF B
  <2> QED
    BY <1>1, <1>2, <1>3, WFMin
<1>5. k \in 0 .. n /\ k \notin G
  OBVIOUS
<1>6. k \in 1 .. n /\ k - 1 \in 0 .. n /\ k - 1 \in Nat /\ k \in Nat /\ k - 1 < k
  BY <1>5
<1>7. k - 1 \notin B
  BY <1>1, <1>4, <1>6
<1> QED
  BY <1>5, <1>6, <1>7

\* What is kept after each of the events of an order.
LEMMA Prepares ==
  ASSUME NEW order, Len(order) \in Nat
  PROVE  experts!Prepared(order) =
           [k \in 0 .. Len(order) |->
              IF k = 0 THEN record
              ELSE experts!UpdateExpertVerificationEvent(experts!Prepared(order)[k - 1], order[k])]
<1> DEFINE After(f, k) == IF k = 0 THEN record ELSE experts!UpdateExpertVerificationEvent(f[k - 1], order[k])
           P(f) == f = [k \in 0 .. Len(order) |-> After(f, k)]
           Q(f, n) == DOMAIN f = 0 .. n /\ \A k \in 0 .. n : f[k] = After(f, k)
           G == {n \in 0 .. Len(order) : \E f : Q(f, n)}
<1>1. 0 \in G
  <2>1. PICK f : f = [k \in 0 .. 0 |-> record]
    OBVIOUS
  <2>2. Q(f, 0)
    BY <2>1
  <2> HIDE DEF After
  <2> QED
    BY <2>2
<1>2. ASSUME NEW n \in 1 .. Len(order), n - 1 \in G PROVE n \in G
  <2>1. PICK f : Q(f, n - 1)
    BY <1>2
  <2>2. PICK g : g = [k \in 0 .. n |-> IF k = n THEN After(f, n) ELSE f[k]]
    OBVIOUS
  <2>3. DOMAIN g = 0 .. n /\ g[n] = After(f, n) /\ \A k \in 0 .. n - 1 : g[k] = f[k]
    BY <2>2
  <2>4. \A k \in 0 .. n : k # 0 => k - 1 \in 0 .. n - 1
    OBVIOUS
  <2>5. \A k \in 0 .. n : After(g, k) = After(f, k)
    BY <2>3, <2>4
  <2>6. \A k \in 0 .. n - 1 : g[k] = After(f, k)
    BY <2>1, <2>3
  <2> HIDE DEF After
  <2>7. \A k \in 0 .. n : g[k] = After(g, k)
    BY <2>3, <2>5, <2>6
  <2>8. Q(g, n)
    BY <2>3, <2>7
  <2> QED
    BY <2>8
<1>3. \A k \in 0 .. Len(order) : k \in G
  <2> HIDE DEF G
  <2> QED
    BY <1>1, <1>2, InductionTo
<1>4. PICK f : Q(f, Len(order))
  BY <1>3
<1>5. P(f)
  <2> HIDE DEF After
  <2> QED
    BY SMTT(30), <1>4
<1>6. experts!Prepared(order) = CHOOSE h : P(h)
  BY DEF experts!Prepared
<1> HIDE DEF P
<1>7. P(experts!Prepared(order))
  BY <1>5, <1>6
<1> QED
  BY <1>7 DEF P

\* The last of the events K about a message, if it is none of the withdrawals w.
IsLast(K, w, r) ==
  IF r = 0 THEN K = {} \/ \E x \in K : x \in w /\ \A j \in K : j <= x
  ELSE r \in K /\ r \notin w /\ \A j \in K : j <= r

\* One more event, unless it is an assessment that was withdrawn before it came.
LEMMA OneMore ==
  ASSUME NEW K \in SUBSET (Nat \ {0}), NEW w, NEW i \in Nat \ {0}, NEW r \in Nat, IsLast(K, w, r),
         i \notin w => \A x \in K : x \in w => ~(x > i)
  PROVE  IsLast(K \cup {i}, w, IF r = 0 \/ i > r THEN IF i \notin w THEN i ELSE 0 ELSE r)
<1>0. \A j \in K : j \in Nat \ {0}
  OBVIOUS
<1>1. CASE r # 0 /\ ~(i > r)
  <2>1. i <= r /\ r \in K /\ r \notin w /\ \A j \in K : j <= r
    BY <1>1 DEF IsLast
  <2> QED
    BY <1>1, <2>1 DEF IsLast
<1>2. CASE r # 0 /\ i > r
  <2>1. \A j \in K \cup {i} : j <= i
    <3>1. \A j \in K : j <= r
      BY <1>2 DEF IsLast
    <3>2. \A j \in K : j <= i
      BY <1>0, <1>2, <3>1
    <3> QED
      BY <3>2
  <2> QED
    BY <1>2, <2>1 DEF IsLast
<1>3. CASE r = 0 /\ K = {}
  BY <1>3 DEF IsLast
<1>4. CASE r = 0 /\ K # {}
  <2>1. PICK x \in K : x \in w /\ \A j \in K : j <= x
    BY <1>4 DEF IsLast
  <2>2. CASE i \notin w
    <3>1. x <= i
      BY <1>0, <2>1, <2>2
    <3>2. \A j \in K \cup {i} : j <= i
      BY <1>0, <2>1, <3>1
    <3> QED
      BY <1>4, <2>2, <3>2 DEF IsLast
  <2>3. CASE i \in w
    <3>1. CASE x <= i
      <4>1. \A j \in K \cup {i} : j <= i
        BY <1>0, <2>1, <3>1
      <4> QED
        BY <1>4, <2>3, <4>1 DEF IsLast
    <3>2. CASE ~(x <= i)
      <4>1. \A j \in K \cup {i} : j <= x
        BY <1>0, <2>1, <3>2
      <4> QED
        BY <1>4, <2>1, <2>3, <4>1 DEF IsLast
    <3> QED
      BY <3>1, <3>2
  <2> QED
    BY <2>2, <2>3
<1> QED
  BY <1>1, <1>2, <1>3, <1>4


ExpertsEvent == [kind : {"text", "verify", "unverify"}, by : ExpertsUsers \cup {experts!Author}, on : Nat]
IsFrom(i, m, u) == expertsLog[i].kind # "text" /\ expertsLog[i].on = m /\ expertsLog[i].by = u
Withdrawals == {i \in DOMAIN expertsLog : expertsLog[i].kind = "unverify"}
Records == [experts!Places -> [ExpertsUsers -> Nat]]

ExpertsLogInv ==
  /\ expertsLog \in Seq(ExpertsEvent) /\ Len(expertsLog) \in 1 .. MaxEvents /\ expertsTold \in 0 .. Len(expertsLog)
  /\ \A i \in DOMAIN expertsLog : expertsLog[i].kind # "text" =>
       expertsLog[i].by \in ExpertsUsers /\ expertsLog[i].on \in experts!Texts(expertsLog)
  /\ loaded \subseteq experts!Texts(expertsLog) /\ record \in Records
  /\ since \in [experts!Places -> SUBSET (DOMAIN expertsLog)]
  /\ \A m \in experts!Places : \A i \in since[m] : expertsLog[i].kind # "text" /\ expertsLog[i].on = m

\* What is kept of an expert on a message is an assessment that came in, and the
\* last word unless it was revived.
WordsInv ==
  \A m \in experts!Places, u \in ExpertsUsers :
    /\ record[m][u] # 0 => record[m][u] \in experts!Known(m, u) /\ record[m][u] \notin Withdrawals
    /\ <<m, u>> \notin revived => IsLast(experts!Known(m, u), Withdrawals, record[m][u])

\* What the user has before him.
DialogsInv ==
  /\ menu \in [on : Nat, items : SUBSET {"verify", "edit", "remove"}]
  /\ menu # experts!NoMenu => menu.on \in experts!Texts(expertsLog)
  /\ verifyDialog \in [on : {0} \cup experts!Texts(expertsLog), edit : BOOLEAN, error : BOOLEAN]
  /\ \A o \in expertsOps : \/ o.kind = "profile"
                           \/ o.kind \in {"verify", "unverify"} /\ o.on \in experts!Texts(expertsLog)
  /\ verifyDialog # experts!Closed => verifyDialog.on # 0

ExpertsInv == ExpertsLogInv /\ WordsInv /\ DialogsInv

\* The events of an order, from the k first of which it is known what u said of m.
Heard(order, k, m, u) == experts!Known(m, u) \cup {order[n] : n \in {a \in 1 .. k : IsFrom(order[a], m, u)}}

\* One event of an order.
LEMMA PrepareOne ==
  ASSUME ExpertsLogInv, NEW i \in DOMAIN expertsLog, NEW rec \in Records, NEW m \in experts!Places, NEW u \in ExpertsUsers
  PROVE  LET new == experts!UpdateExpertVerificationEvent(rec, i) IN
         /\ new \in Records
         /\ ~IsFrom(i, m, u) => new[m][u] = rec[m][u]
         /\ IsFrom(i, m, u) =>
              new[m][u] = IF rec[m][u] = 0 \/ i > rec[m][u] THEN IF i \notin Withdrawals THEN i ELSE 0 ELSE rec[m][u]
<1> DEFINE new == experts!UpdateExpertVerificationEvent(rec, i)
           e == expertsLog[i]
<1>1. i \in Nat /\ e \in ExpertsEvent /\ (e.kind # "text" => e.by \in ExpertsUsers /\ e.on \in experts!Places)
  <2>1. DOMAIN expertsLog = 1 .. Len(expertsLog) /\ Len(expertsLog) \in Nat /\ Len(expertsLog) <= MaxEvents /\ MaxEvents \in Nat
    BY LenProperties, ExpertsAssumption DEF ExpertsLogInv
  <2>2. i \in 1 .. Len(expertsLog) /\ e \in ExpertsEvent
    BY <2>1, ElementOfSeq DEF ExpertsLogInv
  <2>3. experts!Texts(expertsLog) \subseteq experts!Places
    BY <2>1 DEF experts!Texts, experts!Places
  <2> QED
    BY <2>1, <2>2, <2>3 DEF ExpertsLogInv
<1>2. CASE e.kind = "text" \/ ~(rec[e.on][e.by] = 0 \/ i > rec[e.on][e.by])
  <2>1. new = rec
    BY <1>2 DEF experts!UpdateExpertVerificationEvent, experts!Supersedes
  <2>2. IsFrom(i, m, u) => ~(rec[m][u] = 0 \/ i > rec[m][u])
    BY <1>2 DEF IsFrom
  <2> QED
    BY <2>1, <2>2
<1>3. CASE e.kind # "text" /\ (rec[e.on][e.by] = 0 \/ i > rec[e.on][e.by])
  <2>1. PICK v : v = IF e.kind = "verify" THEN i ELSE 0
    OBVIOUS
  <2>2. new = [rec EXCEPT ![e.on][e.by] = v] /\ v \in Nat
    BY <1>1, <1>3, <2>1 DEF experts!UpdateExpertVerificationEvent, experts!Supersedes
  <2>3. e.on \in experts!Places /\ e.by \in ExpertsUsers
    BY <1>1, <1>3
  <2>4. PICK row : row = [rec[e.on] EXCEPT ![e.by] = v]
    OBVIOUS
  <2>5. rec \in [experts!Places -> [ExpertsUsers -> Nat]] /\ rec[e.on] \in [ExpertsUsers -> Nat]
    BY <2>3 DEF Records
  <2>6. row \in [ExpertsUsers -> Nat] /\ row[e.by] = v /\ \A w \in ExpertsUsers : w # e.by => row[w] = rec[e.on][w]
    BY <2>2, <2>3, <2>4, <2>5
  <2>7. new = [rec EXCEPT ![e.on] = row]
    BY <2>2, <2>4
  <2> HIDE DEF new, e
  <2>8. new \in Records /\ new[e.on] = row /\ \A p \in experts!Places : p # e.on => new[p] = rec[p]
    BY <2>3, <2>5, <2>6, <2>7 DEF Records
  <2>9. ~IsFrom(i, m, u) => new[m][u] = rec[m][u]
    <3>1. ~IsFrom(i, m, u) => m # e.on \/ u # e.by
      BY <1>3 DEF IsFrom, e
    <3> QED
      BY <2>6, <2>8, <3>1
  <2>10. IsFrom(i, m, u) => new[m][u] = v /\ m = e.on /\ u = e.by
    BY <2>6, <2>8 DEF IsFrom, e
  <2>11. v = IF i \notin Withdrawals THEN i ELSE 0
    BY <1>1, <1>3, <2>1 DEF Withdrawals, ExpertsEvent, e
  <2> QED
    BY <1>3, <2>8, <2>9, <2>10, <2>11 DEF new
<1> QED
  BY <1>2, <1>3


\* Not late: no withdrawal that came before is newer.
LEMMA NotLate ==
  ASSUME ExpertsLogInv, NEW order \in Seq(DOMAIN expertsLog), NEW k \in 1 .. Len(order),
         NEW m \in experts!Places, NEW u \in ExpertsUsers, IsFrom(order[k], m, u), order[k] \notin Withdrawals,
         <<m, u>> \notin experts!Late(order),
         NEW x \in Heard(order, k - 1, m, u), x \in Withdrawals
  PROVE  ~(x > order[k])
<1> SUFFICES ASSUME x > order[k] PROVE FALSE
  OBVIOUS
<1>1. Len(order) \in Nat /\ DOMAIN order = 1 .. Len(order) /\ \A n \in 1 .. Len(order) : order[n] \in DOMAIN expertsLog
  BY LenProperties, ElementOfSeq
<1>2. \A n \in DOMAIN expertsLog : expertsLog[n] \in ExpertsEvent
  BY ElementOfSeq, LenProperties DEF ExpertsLogInv
<1>3. expertsLog[order[k]] = [kind |-> "verify", by |-> u, on |-> m]
  <2>1. order[k] \in DOMAIN expertsLog /\ expertsLog[order[k]] \in ExpertsEvent
    BY <1>1, <1>2
  <2> QED
    BY <2>1 DEF IsFrom, Withdrawals, ExpertsEvent
<1>4. x \in since[m] \cup {order[n] : n \in 1 .. k} /\ IsFrom(x, m, u)
  <2>1. CASE x \in experts!Known(m, u)
    BY <2>1 DEF experts!Known, ExpertsLogInv, IsFrom
  <2>2. CASE x \in {order[n] : n \in {a \in 1 .. k - 1 : IsFrom(order[a], m, u)}}
    <3>1. \A a \in 1 .. k - 1 : a \in 1 .. k
      BY <1>1
    <3> QED
      BY <2>2, <3>1
  <2> QED
    BY <2>1, <2>2 DEF Heard
<1>5. expertsLog[x] = [kind |-> "unverify", by |-> u, on |-> m]
  <2>1. expertsLog[x] \in ExpertsEvent /\ expertsLog[x].kind = "unverify"
    BY <1>2 DEF Withdrawals
  <2> QED
    BY <1>4, <2>1 DEF IsFrom, ExpertsEvent
<1>6. expertsLog[x] = [expertsLog[order[k]] EXCEPT !.kind = "unverify"]
  BY <1>3, <1>5
<1>7. /\ k \in DOMAIN order /\ expertsLog[order[k]].kind = "verify" /\ expertsLog[order[k]].on = m
      /\ expertsLog[order[k]].by = u
  BY <1>1, <1>3
<1>8. <<m, u>> \in experts!Late(order)
  <2>1. k \in {j \in DOMAIN order :
          /\ expertsLog[order[j]].kind = "verify"
          /\ \E i \in since[expertsLog[order[j]].on] \cup {order[n] : n \in 1 .. j} :
               expertsLog[i] = [expertsLog[order[j]] EXCEPT !.kind = "unverify"] /\ i > order[j]}
    BY <1>4, <1>6, <1>7
  <2> QED
    BY <1>7, <2>1 DEF experts!Late
<1> QED
  BY <1>8

\* An order takes what is kept from one last word to the next.
LEMMA PrepareKeeps ==
  ASSUME ExpertsLogInv, WordsInv, NEW order \in Seq(DOMAIN expertsLog), NEW m \in experts!Places, NEW u \in ExpertsUsers
  PROVE  LET K == Heard(order, Len(order), m, u)
             r == experts!PrepareEvents(order)[m][u] IN
         /\ experts!PrepareEvents(order) \in Records
         /\ r # 0 => r \in K /\ r \notin Withdrawals
         /\ <<m, u>> \notin revived \cup experts!Late(order) => IsLast(K, Withdrawals, r)
<1> DEFINE H(k) == Heard(order, k, m, u)
           Good(rec, k) == /\ rec \in Records
                           /\ rec[m][u] # 0 => rec[m][u] \in H(k) /\ rec[m][u] \notin Withdrawals
                           /\ <<m, u>> \notin revived \cup experts!Late(order) => IsLast(H(k), Withdrawals, rec[m][u])
           G == {k \in 0 .. Len(order) : Good(experts!Prepared(order)[k], k)}
<1>1. /\ Len(order) \in Nat /\ DOMAIN order = 1 .. Len(order) /\ \A n \in 1 .. Len(order) : order[n] \in DOMAIN expertsLog
      /\ Len(expertsLog) \in Nat /\ DOMAIN expertsLog = 1 .. Len(expertsLog)
  BY LenProperties, ElementOfSeq DEF ExpertsLogInv
<1>2. PICK s : s = experts!Prepared(order)
  OBVIOUS
<1>3. /\ s[0] = record
      /\ \A k \in 1 .. Len(order) : s[k] = experts!UpdateExpertVerificationEvent(s[k - 1], order[k])
  <2>1. s = [k \in 0 .. Len(order) |->
              IF k = 0 THEN record ELSE experts!UpdateExpertVerificationEvent(s[k - 1], order[k])]
    BY <1>1, <1>2, Prepares
  <2>2. 0 \in 0 .. Len(order) /\ \A k \in 1 .. Len(order) : k \in 0 .. Len(order) /\ k # 0
    BY <1>1
  <2>3. s[0] = record
    BY <2>1, <2>2
  <2>4. ASSUME NEW k \in 1 .. Len(order) PROVE s[k] = experts!UpdateExpertVerificationEvent(s[k - 1], order[k])
    BY <2>1, <2>2
  <2> QED
    BY <2>3, <2>4
<1>4. \A k \in 0 .. Len(order) : H(k) \in SUBSET (Nat \ {0})
  <2>1. experts!Known(m, u) \subseteq DOMAIN expertsLog
    BY DEF experts!Known, ExpertsLogInv
  <2>2. ASSUME NEW k \in 0 .. Len(order) PROVE H(k) \subseteq DOMAIN expertsLog
    <3>1. \A a \in 1 .. k : order[a] \in DOMAIN expertsLog
      BY <1>1
    <3> QED
      BY <2>1, <3>1 DEF Heard
  <2>3. DOMAIN expertsLog \subseteq Nat \ {0}
    BY <1>1
  <2> HIDE DEF H
  <2> QED
    BY <2>2, <2>3
<1>5. 0 \in G
  <2>1. H(0) = experts!Known(m, u)
    BY DEF Heard
  <2> HIDE DEF H
  <2>2. Good(record, 0)
    BY <2>1 DEF WordsInv, ExpertsLogInv
  <2>3. 0 \in 0 .. Len(order)
    BY <1>1
  <2> HIDE DEF Good
  <2> QED
    BY <1>2, <1>3, <2>2, <2>3
<1>6. ASSUME NEW k \in 1 .. Len(order), k - 1 \in G PROVE k \in G
  <2>1. PICK rec, i : rec = s[k - 1] /\ i = order[k]
    OBVIOUS
  <2>2. Good(rec, k - 1) /\ i \in DOMAIN expertsLog /\ i \in Nat \ {0} /\ k \in Nat /\ k - 1 \in 0 .. Len(order)
    BY <1>1, <1>2, <1>6, <2>1
  <2>3. PICK new : new = experts!UpdateExpertVerificationEvent(rec, i)
    OBVIOUS
  <2>4. s[k] = new
    BY <1>3, <2>1, <2>3
  <2>5. /\ new \in Records
        /\ ~IsFrom(i, m, u) => new[m][u] = rec[m][u]
        /\ IsFrom(i, m, u) =>
              new[m][u] = IF rec[m][u] = 0 \/ i > rec[m][u] THEN IF i \notin Withdrawals THEN i ELSE 0 ELSE rec[m][u]
    <3>1. rec \in Records /\ i \in DOMAIN expertsLog /\ m \in experts!Places /\ u \in ExpertsUsers
      BY <2>2
    <3> HIDE DEF Good, G, H
    <3> QED
      BY ONLY ExpertsLogInv, <2>3, <3>1, PrepareOne
  <2>6. rec[m][u] \in Nat /\ H(k - 1) \in SUBSET (Nat \ {0})
    BY <1>4, <2>2 DEF Records
  <2>7. H(k) = IF IsFrom(i, m, u) THEN H(k - 1) \cup {i} ELSE H(k - 1)
    <3>1. 1 .. k = (1 .. k - 1) \cup {k}
      BY <2>2
    <3> QED
      BY <2>1, <3>1 DEF Heard
  <2>8. CASE ~IsFrom(i, m, u)
    <3>1. H(k) = H(k - 1) /\ new[m][u] = rec[m][u]
      BY <2>5, <2>7, <2>8
    <3> HIDE DEF H
    <3>2. Good(new, k)
      BY <2>2, <2>5, <3>1
    <3> HIDE DEF Good
    <3> QED
      BY <1>2, <2>4, <3>2
  <2>9. CASE IsFrom(i, m, u)
    <3>1. H(k) = H(k - 1) \cup {i}
      BY <2>7, <2>9
    <3>2. <<m, u>> \notin experts!Late(order) /\ i \notin Withdrawals => \A x \in H(k - 1) : x \in Withdrawals => ~(x > i)
      <4>1. ASSUME <<m, u>> \notin experts!Late(order), i \notin Withdrawals, NEW x \in H(k - 1), x \in Withdrawals
            PROVE  ~(x > i)
        <5>1. IsFrom(order[k], m, u) /\ order[k] \notin Withdrawals /\ k \in 1 .. Len(order) /\ x \in Heard(order, k - 1, m, u)
          BY <2>1, <2>9, <4>1
        <5>2. ~(x > order[k])
          BY <4>1, <5>1, NotLate
        <5> QED
          BY <2>1, <5>2
      <4> QED
        BY <4>1
    <3> HIDE DEF H
    <3>3. <<m, u>> \notin revived \cup experts!Late(order) => IsLast(H(k), Withdrawals, new[m][u])
      <4>1. SUFFICES ASSUME <<m, u>> \notin revived \cup experts!Late(order) PROVE IsLast(H(k), Withdrawals, new[m][u])
        OBVIOUS
      <4>2. IsLast(H(k - 1), Withdrawals, rec[m][u]) /\ (i \notin Withdrawals => \A x \in H(k - 1) : x \in Withdrawals => ~(x > i))
        BY <2>2, <3>2, <4>1
      <4>3. new[m][u] = IF rec[m][u] = 0 \/ i > rec[m][u] THEN IF i \notin Withdrawals THEN i ELSE 0 ELSE rec[m][u]
        BY <2>5, <2>9
      <4>4. IsLast(H(k - 1) \cup {i}, Withdrawals,
              IF rec[m][u] = 0 \/ i > rec[m][u] THEN IF i \notin Withdrawals THEN i ELSE 0 ELSE rec[m][u])
        BY <2>2, <2>6, <4>2, OneMore
      <4> QED
        BY <3>1, <4>3, <4>4
    <3>4. new[m][u] # 0 => new[m][u] \in H(k) /\ new[m][u] \notin Withdrawals
      BY <2>2, <2>5, <2>9, <3>1
    <3>5. Good(new, k)
      BY <2>5, <3>3, <3>4
    <3> HIDE DEF Good
    <3> QED
      BY <1>2, <2>4, <3>5
  <2> QED
    BY <2>8, <2>9
<1>7. Len(order) \in G
  <2>1. Len(order) \in 0 .. Len(order)
    BY <1>1
  <2> HIDE DEF G
  <2> QED
    BY <1>1, <1>5, <1>6, <2>1, InductionTo
<1> HIDE DEF H
<1> QED
  BY <1>7 DEF experts!PrepareEvents, H


\* Events come in.
LEMMA ReceiveStep ==
  ASSUME ExpertsInv, NEW order \in Seq(DOMAIN expertsLog), NEW shelf, shelf \subseteq experts!Texts(expertsLog),
         NEW clean, experts!Receive(order, shelf, clean), expertsTold' \in 0 .. Len(expertsLog)
  PROVE  ExpertsInv'
<1>1. PICK prepared : prepared = experts!PrepareEvents(order)
  OBVIOUS
<1> DEFINE kept(m) == ~clean \/ m \in shelf
<1>2. /\ loaded' = shelf
      /\ record' = [m \in experts!Places |-> IF kept(m) THEN prepared[m] ELSE [u \in ExpertsUsers |-> 0]]
      /\ since' = [m \in experts!Places |-> IF kept(m) THEN since[m] \cup experts!About(m, order) ELSE {}]
      /\ revived' = {p \in revived \cup experts!Late(order) : kept(p[1])}
      /\ UNCHANGED <<expertsLog, menu, verifyDialog, expertsOps>>
  BY <1>1 DEF experts!Receive, experts!userVars
<1>3. Len(order) \in Nat /\ DOMAIN order = 1 .. Len(order) /\ \A n \in 1 .. Len(order) : order[n] \in DOMAIN expertsLog
  BY LenProperties, ElementOfSeq
<1>4. /\ experts!Texts(expertsLog)' = experts!Texts(expertsLog) /\ Withdrawals' = Withdrawals
      /\ ExpertsLogInv /\ WordsInv /\ DialogsInv
  BY <1>2 DEF ExpertsInv, experts!Texts, Withdrawals
<1>5. ASSUME NEW m \in experts!Places
      PROVE  experts!About(m, order) \subseteq DOMAIN expertsLog
             /\ \A i \in experts!About(m, order) : expertsLog[i].kind # "text" /\ expertsLog[i].on = m
  BY <1>3 DEF experts!About, experts!ToSet
<1>6. ASSUME NEW m \in experts!Places, NEW u \in ExpertsUsers
      PROVE  /\ prepared \in Records
             /\ prepared[m][u] # 0 => prepared[m][u] \in Heard(order, Len(order), m, u) /\ prepared[m][u] \notin Withdrawals
             /\ <<m, u>> \notin revived \cup experts!Late(order) =>
                  IsLast(Heard(order, Len(order), m, u), Withdrawals, prepared[m][u])
  BY <1>1, <1>4, PrepareKeeps
<1>7. ASSUME NEW m \in experts!Places, NEW u \in ExpertsUsers, kept(m)
      PROVE  Heard(order, Len(order), m, u) = {i \in since'[m] : expertsLog[i].by = u}
  <2>1. since'[m] = since[m] \cup experts!About(m, order)
    BY <1>2, <1>7
  <2>2. {order[n] : n \in {a \in 1 .. Len(order) : IsFrom(order[a], m, u)}}
        = {i \in experts!About(m, order) : expertsLog[i].by = u}
    BY <1>3 DEF experts!About, experts!ToSet, IsFrom
  <2> QED
    BY <2>1, <2>2 DEF Heard, experts!Known
<1>8. \A m \in experts!Places, u \in ExpertsUsers : experts!Known(m, u)' = {i \in since'[m] : expertsLog[i].by = u}
  BY <1>2 DEF experts!Known
<1>9. WordsInv'
  <2>1. ASSUME NEW m \in experts!Places, NEW u \in ExpertsUsers
        PROVE  /\ record'[m][u] # 0 => record'[m][u] \in experts!Known(m, u)' /\ record'[m][u] \notin Withdrawals
               /\ <<m, u>> \notin revived' => IsLast(experts!Known(m, u)', Withdrawals, record'[m][u])
    <3>1. CASE kept(m)
      <4>1. record'[m] = prepared[m] /\ experts!Known(m, u)' = Heard(order, Len(order), m, u)
        <5>1. record'[m] = prepared[m]
          BY ONLY <1>2, <2>1, <3>1
        <5>2. experts!Known(m, u)' = {i \in since'[m] : expertsLog[i].by = u}
          BY ONLY <1>8, <2>1
        <5>3. Heard(order, Len(order), m, u) = {i \in since'[m] : expertsLog[i].by = u}
          BY <1>7, <3>1
        <5> QED
          BY ONLY <5>1, <5>2, <5>3
      <4>2. <<m, u>> \notin revived' => <<m, u>> \notin revived \cup experts!Late(order)
        <5>1. <<m, u>>[1] = m
          OBVIOUS
        <5> QED
          BY <1>2, <3>1, <5>1
      <4> HIDE DEF kept
      <4> QED
        BY <1>6, <4>1, <4>2
    <3>2. CASE ~kept(m)
      <4>1. record'[m][u] = 0 /\ experts!Known(m, u)' = {}
        <5>1. since'[m] = {} /\ record'[m] = [v \in ExpertsUsers |-> 0]
          BY <1>2, <3>2
        <5> QED
          BY <1>8, <5>1
      <4> QED
        BY <4>1 DEF IsLast
    <3> QED
      BY <3>1, <3>2
  <2> HIDE DEF kept
  <2> QED
    BY <1>4, <2>1 DEF WordsInv
<1>10. ExpertsLogInv'
  <2>1. record' \in Records
    <3>1. ASSUME NEW m \in experts!Places PROVE record'[m] \in [ExpertsUsers -> Nat]
      <4>0. PICK u \in ExpertsUsers : TRUE
        BY ExpertsAssumption
      <4>1. prepared \in Records
        BY <1>6, <4>0
      <4>2. prepared[m] \in [ExpertsUsers -> Nat] /\ [v \in ExpertsUsers |-> 0] \in [ExpertsUsers -> Nat]
        BY <4>1 DEF Records
      <4> QED
        BY <1>2, <4>2
    <3> QED
      BY <1>2, <3>1 DEF Records
  <2>2. ASSUME NEW m \in experts!Places
        PROVE  since'[m] \in SUBSET (DOMAIN expertsLog) /\ \A i \in since'[m] : expertsLog[i].kind # "text" /\ expertsLog[i].on = m
    <3>1. since'[m] = {} \/ since'[m] = since[m] \cup experts!About(m, order)
      BY <1>2
    <3> QED
      BY <1>4, <1>5, <3>1 DEF ExpertsLogInv
  <2>3. since' \in [experts!Places -> SUBSET (DOMAIN expertsLog)]
    BY <1>2, <2>2
  <2> HIDE DEF kept
  <2> QED
    BY <1>2, <1>4, <2>1, <2>2, <2>3 DEF ExpertsLogInv
<1>11. DialogsInv'
  BY <1>2, <1>4 DEF DialogsInv
<1> QED
  BY <1>9, <1>10, <1>11 DEF ExpertsInv

\* Pages and sliding sync.
LEMMA ComesIn ==
  ASSUME ExpertsInv,
         \/ \E a, b \in experts!Places : experts!Paginate(a, b)
         \/ \E n \in experts!Places : experts!LoadFromSlidingSync(n)
  PROVE  ExpertsInv'
<1>0. /\ Len(expertsLog) \in Nat /\ DOMAIN expertsLog = 1 .. Len(expertsLog) /\ MaxEvents \in Nat
      /\ expertsTold \in 0 .. Len(expertsLog) /\ loaded \subseteq experts!Texts(expertsLog)
  BY LenProperties, ExpertsAssumption DEF ExpertsInv, ExpertsLogInv
<1>1. ASSUME NEW a \in Nat \ {0}, NEW b \in Nat, a <= b, b <= Len(expertsLog)
      PROVE  experts!Forth(a, b) \in Seq(DOMAIN expertsLog) /\ experts!Back(a, b) \in Seq(DOMAIN expertsLog)
  <2>1. b - a + 1 \in Nat /\ \A k \in 1 .. b - a + 1 : a + k - 1 \in 1 .. Len(expertsLog)
    BY <1>0, <1>1
  <2>2. experts!Forth(a, b) \in [1 .. b - a + 1 -> DOMAIN expertsLog]
    BY <1>0, <2>1 DEF experts!Forth
  <2>3. experts!Forth(a, b) \in Seq(DOMAIN expertsLog) /\ Len(experts!Forth(a, b)) = b - a + 1
    BY <2>1, <2>2, FunSeq
  <2>4. PICK f, n : f = experts!Forth(a, b) /\ n = b - a + 1
    OBVIOUS
  <2>5. experts!Back(a, b) = [i \in 1 .. Len(f) |-> f[(Len(f) - i) + 1]]
    BY <2>4 DEF experts!Back, experts!Reverse
  <2>6. n \in Nat /\ Len(f) = n /\ f \in [1 .. n -> DOMAIN expertsLog] /\ \A i \in 1 .. n : (n - i) + 1 \in 1 .. n
    BY <2>1, <2>2, <2>3, <2>4
  <2>7. experts!Back(a, b) \in [1 .. n -> DOMAIN expertsLog]
    BY <2>5, <2>6
  <2>8. experts!Back(a, b) \in Seq(DOMAIN expertsLog)
    BY <2>6, <2>7, FunSeq
  <2> QED
    BY <2>3, <2>8
<1>2. CASE \E a, b \in experts!Places : experts!Paginate(a, b)
  <2>1. PICK a, b \in experts!Places : experts!Paginate(a, b)
    BY <1>2
  <2>2. a \in Nat \ {0} /\ b \in Nat /\ a <= b /\ b <= Len(expertsLog) /\ UNCHANGED expertsTold
    BY <1>0, <2>1 DEF experts!Paginate, experts!Places
  <2>3. PICK order \in {experts!Forth(a, b), experts!Back(a, b)} :
          \/ experts!Receive(order, loaded, FALSE)
          \/ \E stay \in SUBSET loaded : experts!Receive(order, stay \cup (experts!Texts(expertsLog) \cap a .. b), TRUE)
    BY <2>1 DEF experts!Paginate
  <2>4. order \in Seq(DOMAIN expertsLog) /\ expertsTold' \in 0 .. Len(expertsLog)
    BY <1>0, <1>1, <2>2, <2>3
  <2>5. CASE experts!Receive(order, loaded, FALSE)
    <3>1. PICK l : l = loaded
      OBVIOUS
    <3>2. l \subseteq experts!Texts(expertsLog) /\ experts!Receive(order, l, FALSE)
      BY <1>0, <2>5, <3>1
    <3> QED
      BY ONLY ExpertsInv, <2>4, <3>2, ReceiveStep
  <2>6. CASE \E stay \in SUBSET loaded : experts!Receive(order, stay \cup (experts!Texts(expertsLog) \cap a .. b), TRUE)
    <3>1. PICK stay \in SUBSET loaded : experts!Receive(order, stay \cup (experts!Texts(expertsLog) \cap a .. b), TRUE)
      BY <2>6
    <3>0. PICK shelf : shelf = stay \cup (experts!Texts(expertsLog) \cap a .. b)
      OBVIOUS
    <3>2. shelf \subseteq experts!Texts(expertsLog) /\ experts!Receive(order, shelf, TRUE)
      BY <1>0, <3>0, <3>1
    <3> QED
      BY ONLY ExpertsInv, <2>4, <3>2, ReceiveStep
  <2> QED
    BY <2>3, <2>5, <2>6
<1>3. CASE \E n \in experts!Places : experts!LoadFromSlidingSync(n)
  <2>1. PICK n \in experts!Places : experts!LoadFromSlidingSync(n)
    BY <1>3
  <2>2. n \in Nat /\ expertsTold < n /\ n <= Len(expertsLog) /\ expertsTold' = n /\ expertsTold \in Nat
    BY <1>0, <2>1 DEF experts!LoadFromSlidingSync, experts!Places
  <2>3. PICK order : order = experts!Forth(expertsTold + 1, n)
    OBVIOUS
  <2>4. \/ experts!Receive(order, loaded, FALSE)
        \/ \E stay \in SUBSET loaded : experts!Receive(order, stay \cup (experts!Texts(expertsLog) \cap expertsTold + 1 .. n), TRUE)
    BY <2>1, <2>3 DEF experts!LoadFromSlidingSync
  <2>5. order \in Seq(DOMAIN expertsLog) /\ expertsTold' \in 0 .. Len(expertsLog)
    <3>1. expertsTold + 1 \in Nat \ {0} /\ expertsTold + 1 <= n
      BY <2>2
    <3>2. PICK a : a = expertsTold + 1
      OBVIOUS
    <3>3. experts!Forth(a, n) \in Seq(DOMAIN expertsLog)
      BY <1>1, <2>2, <3>1, <3>2
    <3> QED
      BY <1>0, <2>2, <2>3, <3>2, <3>3
  <2>6. CASE experts!Receive(order, loaded, FALSE)
    <3>1. PICK l : l = loaded
      OBVIOUS
    <3>2. l \subseteq experts!Texts(expertsLog) /\ experts!Receive(order, l, FALSE)
      BY <1>0, <2>6, <3>1
    <3> QED
      BY ONLY ExpertsInv, <2>5, <3>2, ReceiveStep
  <2>7. CASE \E stay \in SUBSET loaded : experts!Receive(order, stay \cup (experts!Texts(expertsLog) \cap expertsTold + 1 .. n), TRUE)
    <3>1. PICK stay \in SUBSET loaded : experts!Receive(order, stay \cup (experts!Texts(expertsLog) \cap expertsTold + 1 .. n), TRUE)
      BY <2>7
    <3>0. PICK shelf : shelf = stay \cup (experts!Texts(expertsLog) \cap expertsTold + 1 .. n)
      OBVIOUS
    <3>2. shelf \subseteq experts!Texts(expertsLog) /\ experts!Receive(order, shelf, TRUE)
      BY <1>0, <3>0, <3>1
    <3> QED
      BY ONLY ExpertsInv, <2>5, <3>2, ReceiveStep
  <2> QED
    BY <2>4, <2>6, <2>7
<1> QED
  BY <1>2, <1>3


\* Something is sent to the room.
LEMMA SendStep ==
  ASSUME ExpertsLogInv, WordsInv, NEW what \in {"text", "verify", "unverify"}, NEW u, NEW m, experts!Send(what, u, m),
         Len(expertsLog) < MaxEvents, what = "text" => u = experts!Author /\ m = 0,
         what # "text" => u \in ExpertsUsers /\ m \in experts!Texts(expertsLog),
         UNCHANGED <<expertsTold, loaded, record, since, revived>>
  PROVE  ExpertsLogInv' /\ WordsInv' /\ experts!Texts(expertsLog) \subseteq experts!Texts(expertsLog)'
<1> DEFINE e == [kind |-> what, by |-> u, on |-> m]
<1>1. /\ Len(expertsLog) \in Nat /\ DOMAIN expertsLog = 1 .. Len(expertsLog) /\ MaxEvents \in Nat
      /\ Len(expertsLog) \in 1 .. MaxEvents /\ expertsTold \in 0 .. Len(expertsLog)
  BY LenProperties, ExpertsAssumption DEF ExpertsLogInv
<1>2. e \in ExpertsEvent
  <2>1. m \in Nat
    BY <1>1 DEF experts!Texts
  <2> QED
    BY <2>1 DEF ExpertsEvent
<1>3. /\ expertsLog' \in Seq(ExpertsEvent) /\ Len(expertsLog') = Len(expertsLog) + 1
      /\ DOMAIN expertsLog' = 1 .. Len(expertsLog) + 1
      /\ expertsLog'[Len(expertsLog) + 1] = e /\ \A i \in 1 .. Len(expertsLog) : expertsLog'[i] = expertsLog[i]
  <2>1. expertsLog' = Append(expertsLog, e) /\ expertsLog \in Seq(ExpertsEvent)
    BY DEF experts!Send, ExpertsLogInv
  <2> HIDE DEF e
  <2>2. /\ Append(expertsLog, e) \in Seq(ExpertsEvent) /\ Len(Append(expertsLog, e)) = Len(expertsLog) + 1
        /\ \A i \in 1 .. Len(expertsLog) : Append(expertsLog, e)[i] = expertsLog[i]
        /\ Append(expertsLog, e)[Len(expertsLog) + 1] = e
    BY <1>2, <2>1, AppendProperties
  <2> QED
    BY <2>1, <2>2, LenProperties
<1>4. \A i \in DOMAIN expertsLog : i \in DOMAIN expertsLog' /\ expertsLog'[i] = expertsLog[i]
  BY <1>1, <1>3
<1>5. experts!Texts(expertsLog) \subseteq experts!Texts(expertsLog)'
  BY <1>4 DEF experts!Texts
<1>6. \A i \in DOMAIN expertsLog' : i \in DOMAIN expertsLog \/ expertsLog'[i] = e
  BY <1>1, <1>3
<1>7. ASSUME NEW i \in DOMAIN expertsLog', expertsLog'[i].kind # "text"
      PROVE  expertsLog'[i].by \in ExpertsUsers /\ expertsLog'[i].on \in experts!Texts(expertsLog)'
  <2>1. CASE i \in DOMAIN expertsLog
    BY <1>4, <1>5, <1>7, <2>1 DEF ExpertsLogInv
  <2>2. CASE expertsLog'[i] = e
    BY <1>5, <1>7, <2>2
  <2> QED
    BY <1>6, <2>1, <2>2
<1>8. ExpertsLogInv'
  <2>1. Len(expertsLog') \in 1 .. MaxEvents /\ expertsTold' \in 0 .. Len(expertsLog')
    BY <1>1, <1>3
  <2>2. loaded' \subseteq experts!Texts(expertsLog)' /\ record' \in Records
    BY <1>5 DEF ExpertsLogInv
  <2>3. since' \in [experts!Places -> SUBSET (DOMAIN expertsLog')]
    BY <1>4 DEF ExpertsLogInv
  <2>4. \A p \in experts!Places : \A i \in since'[p] : expertsLog'[i].kind # "text" /\ expertsLog'[i].on = p
    BY <1>4 DEF ExpertsLogInv
  <2> HIDE DEF e
  <2> QED
    BY <1>3, <1>7, <2>1, <2>2, <2>3, <2>4 DEF ExpertsLogInv
<1>9. ASSUME NEW p \in experts!Places, NEW w \in ExpertsUsers
      PROVE  /\ experts!Known(p, w)' = experts!Known(p, w)
             /\ \A i \in experts!Known(p, w) : i \in Withdrawals' <=> i \in Withdrawals
  <2>1. since'[p] = since[p] /\ \A i \in since[p] : i \in DOMAIN expertsLog /\ i \in DOMAIN expertsLog' /\ expertsLog'[i] = expertsLog[i]
    BY <1>4 DEF ExpertsLogInv
  <2> QED
    BY <2>1 DEF experts!Known, Withdrawals
<1>10. WordsInv'
  <2>1. ASSUME NEW p \in experts!Places, NEW w \in ExpertsUsers
        PROVE  /\ record[p][w] # 0 => record[p][w] \in experts!Known(p, w) /\ record[p][w] \notin Withdrawals'
               /\ <<p, w>> \notin revived => IsLast(experts!Known(p, w), Withdrawals', record[p][w])
    <3>1. /\ record[p][w] # 0 => record[p][w] \in experts!Known(p, w) /\ record[p][w] \notin Withdrawals
          /\ <<p, w>> \notin revived => IsLast(experts!Known(p, w), Withdrawals, record[p][w])
      BY DEF WordsInv
    <3> QED
      BY <1>9, <3>1 DEF IsLast
  <2> QED
    BY ZenonT(60), <1>9, <2>1 DEF WordsInv
<1> QED
  BY <1>5, <1>8, <1>10

LEMMA ExpertsStep == ExpertsInv /\ (experts!ExpertsNext \/ UNCHANGED expertsVars) => ExpertsInv'
<1> SUFFICES ASSUME ExpertsInv, experts!ExpertsNext \/ UNCHANGED expertsVars PROVE ExpertsInv'
  OBVIOUS
<1>0. ExpertsLogInv /\ WordsInv /\ DialogsInv /\ ExpertsMe \in ExpertsUsers
  BY ExpertsAssumption DEF ExpertsInv
<1>1. ASSUME UNCHANGED <<expertsLog, expertsTold, loaded, record, since, revived>> PROVE ExpertsLogInv' /\ WordsInv'
  <2>1. /\ experts!Texts(expertsLog)' = experts!Texts(expertsLog) /\ Withdrawals' = Withdrawals
        /\ \A p \in experts!Places, w \in ExpertsUsers : experts!Known(p, w)' = experts!Known(p, w)
    BY <1>1 DEF experts!Texts, Withdrawals, experts!Known
  <2> QED
    BY <1>0, <1>1, <2>1 DEF ExpertsLogInv, WordsInv
<1>2. ASSUME experts!Texts(expertsLog) \subseteq experts!Texts(expertsLog)', UNCHANGED <<menu, verifyDialog>>, expertsOps' \subseteq expertsOps
      PROVE  DialogsInv'
  BY <1>0, <1>2 DEF DialogsInv
<1>3. UNCHANGED expertsLog => experts!Texts(expertsLog)' = experts!Texts(expertsLog)
  BY DEF experts!Texts
<1>4. CASE UNCHANGED expertsVars
  BY <1>1, <1>2, <1>3, <1>4 DEF expertsVars, ExpertsInv
<1>5. CASE experts!ChangeRole \/ experts!LearnRole
  BY <1>1, <1>2, <1>3, <1>5 DEF experts!ChangeRole, experts!LearnRole, experts!shownVars, experts!userVars, experts!roomVars, ExpertsInv
<1>6. CASE experts!Post
  <2>1. /\ Len(expertsLog) < MaxEvents /\ UNCHANGED <<expertsTold, loaded, record, since, revived, menu, verifyDialog, expertsOps>>
        /\ \/ experts!Send("text", experts!Author, 0)
           \/ \E u \in ExpertsUsers, m \in experts!Texts(expertsLog), what \in {"verify", "unverify"} : experts!Send(what, u, m)
    BY <1>6 DEF experts!Post, experts!shownVars, experts!userVars
  <2>2. ExpertsLogInv' /\ WordsInv' /\ experts!Texts(expertsLog) \subseteq experts!Texts(expertsLog)'
    <3>1. CASE experts!Send("text", experts!Author, 0)
      BY <1>0, <2>1, <3>1, SendStep
    <3>2. CASE \E u \in ExpertsUsers, m \in experts!Texts(expertsLog), what \in {"verify", "unverify"} : experts!Send(what, u, m)
      <4>1. PICK u \in ExpertsUsers, m \in experts!Texts(expertsLog), what \in {"verify", "unverify"} : experts!Send(what, u, m)
        BY <3>2
      <4> QED
        BY <1>0, <2>1, <4>1, SendStep
    <3> QED
      BY <2>1, <3>1, <3>2
  <2> QED
    BY <1>2, <2>1, <2>2 DEF ExpertsInv
<1>7. CASE experts!CloseDialogs
  <2>1. /\ menu' = experts!NoMenu /\ verifyDialog' = experts!Closed
        /\ UNCHANGED <<expertsLog, expertsTold, loaded, record, since, revived, expertsOps>>
    BY <1>7 DEF experts!CloseDialogs, experts!shownVars, experts!roomVars
  <2>2. DialogsInv'
    BY <1>0, <1>3, <2>1 DEF DialogsInv, experts!NoMenu, experts!Closed
  <2> QED
    BY <1>1, <2>1, <2>2 DEF ExpertsInv
<1>8. CASE (\E a, b \in experts!Places : experts!Paginate(a, b)) \/ \E n \in experts!Places : experts!LoadFromSlidingSync(n)
  BY <1>8, ComesIn
<1>9. CASE \E n \in experts!Places : experts!OpenMenu(n)
  <2>1. PICK n \in experts!Places : experts!OpenMenu(n)
    BY <1>9
  <2>2. /\ n \in loaded /\ menu' = [on |-> n, items |-> experts!Items(n)]
        /\ UNCHANGED <<expertsLog, expertsTold, loaded, record, since, revived, expertsOps, verifyDialog>>
    BY <2>1 DEF experts!OpenMenu, experts!shownVars, experts!roomVars
  <2>3. n \in experts!Texts(expertsLog) /\ n \in Nat /\ experts!Items(n) \subseteq {"verify", "edit", "remove"}
    BY <1>0, <2>2 DEF ExpertsLogInv, experts!Items, experts!Places
  <2>4. DialogsInv'
    BY <1>0, <1>3, <2>2, <2>3 DEF DialogsInv
  <2> QED
    BY <1>1, <2>2, <2>4 DEF ExpertsInv
<1>10. CASE \E item \in {"verify", "edit", "remove"} : experts!Select(item)
  <2>1. PICK item \in {"verify", "edit", "remove"} : experts!Select(item)
    BY <1>10
  <2>2. /\ item \in menu.items /\ menu' = experts!NoMenu
        /\ UNCHANGED <<expertsLog, expertsTold, loaded, record, since, revived>>
        /\ \/ verifyDialog' = verifyDialog
           \/ \E b \in BOOLEAN : verifyDialog' = [on |-> menu.on, edit |-> b, error |-> FALSE]
        /\ \A o \in expertsOps' : o \in expertsOps \/ o = [kind |-> "unverify", on |-> menu.on]
    BY <2>1 DEF experts!Select, experts!shownVars, experts!roomVars
  <2>3. menu.on \in experts!Texts(expertsLog) /\ menu.on # 0
    <3>1. menu # experts!NoMenu
      BY <2>2 DEF experts!NoMenu
    <3>2. DOMAIN expertsLog = 1 .. Len(expertsLog)
      BY <1>0, LenProperties DEF ExpertsLogInv
    <3> QED
      BY <1>0, <3>1, <3>2 DEF DialogsInv, experts!Texts
  <2>4. verifyDialog' \in [on : {0} \cup experts!Texts(expertsLog), edit : BOOLEAN, error : BOOLEAN]
        /\ (verifyDialog' # experts!Closed => verifyDialog'.on # 0)
    <3>1. CASE verifyDialog' = verifyDialog
      BY <1>0, <3>1 DEF DialogsInv
    <3>2. CASE \E b \in BOOLEAN : verifyDialog' = [on |-> menu.on, edit |-> b, error |-> FALSE]
      BY <2>3, <3>2
    <3> QED
      BY <2>2, <3>1, <3>2
  <2>5. \A o \in expertsOps' : o.kind = "profile" \/ (o.kind \in {"verify", "unverify"} /\ o.on \in experts!Texts(expertsLog))
    <3>1. \A o \in expertsOps : o.kind = "profile" \/ (o.kind \in {"verify", "unverify"} /\ o.on \in experts!Texts(expertsLog))
      BY <1>0 DEF DialogsInv
    <3>2. ASSUME NEW o, o = [kind |-> "unverify", on |-> menu.on] PROVE o.kind = "unverify" /\ o.on \in experts!Texts(expertsLog)
      BY <2>3, <3>2
    <3> QED
      BY <2>2, <3>1, <3>2
  <2>6. menu' \in [on : Nat, items : SUBSET {"verify", "edit", "remove"}] /\ menu' = experts!NoMenu
    BY <2>2 DEF experts!NoMenu
  <2>7. DialogsInv'
    BY <1>3, <2>2, <2>4, <2>5, <2>6 DEF DialogsInv
  <2> QED
    BY <1>1, <2>2, <2>7 DEF ExpertsInv
<1>11. CASE experts!OnVerifyDialogSubmit
  <2>1. /\ verifyDialog # experts!Closed /\ verifyDialog' = [verifyDialog EXCEPT !.error = FALSE]
        /\ expertsOps' = expertsOps \cup {[kind |-> "verify", on |-> verifyDialog.on]}
        /\ UNCHANGED <<expertsLog, expertsTold, loaded, record, since, revived, menu>>
    BY <1>11 DEF experts!OnVerifyDialogSubmit, experts!Shown, experts!shownVars, experts!roomVars
  <2>3. verifyDialog \in [on : {0} \cup experts!Texts(expertsLog), edit : BOOLEAN, error : BOOLEAN] /\ verifyDialog.on # 0
    BY <1>0, <2>1 DEF DialogsInv
  <2>4. /\ verifyDialog' \in [on : {0} \cup experts!Texts(expertsLog), edit : BOOLEAN, error : BOOLEAN]
        /\ verifyDialog'.on # 0 /\ verifyDialog.on \in experts!Texts(expertsLog)
    BY <2>1, <2>3
  <2>5. \A o \in expertsOps' : o.kind = "profile" \/ (o.kind \in {"verify", "unverify"} /\ o.on \in experts!Texts(expertsLog))
    <3>1. \A o \in expertsOps : o.kind = "profile" \/ (o.kind \in {"verify", "unverify"} /\ o.on \in experts!Texts(expertsLog))
      BY <1>0 DEF DialogsInv
    <3>2. ASSUME NEW o, o = [kind |-> "verify", on |-> verifyDialog.on] PROVE o.kind = "verify" /\ o.on \in experts!Texts(expertsLog)
      BY <2>4, <3>2
    <3> QED
      BY <2>1, <3>1, <3>2
  <2>6. menu' = menu /\ menu \in [on : Nat, items : SUBSET {"verify", "edit", "remove"}]
        /\ (menu # experts!NoMenu => menu.on \in experts!Texts(expertsLog))
    BY <1>0, <2>1 DEF DialogsInv
  <2>2. DialogsInv'
    BY <1>3, <2>1, <2>4, <2>5, <2>6 DEF DialogsInv
  <2> QED
    BY <1>1, <2>1, <2>2 DEF ExpertsInv
<1>12. CASE experts!OpenProfile
  <2>1. verifyDialog' = experts!Closed /\ UNCHANGED <<expertsLog, expertsTold, loaded, record, since, revived, menu, expertsOps>>
    BY <1>12 DEF experts!OpenProfile, experts!shownVars, experts!roomVars
  <2>2. DialogsInv'
    BY <1>0, <1>3, <2>1 DEF DialogsInv, experts!Closed
  <2> QED
    BY <1>1, <2>1, <2>2 DEF ExpertsInv
<1>13. CASE experts!OnExpertProfileDialogSubmit
  <2>1. /\ expertsOps' = expertsOps \cup {[kind |-> "profile", on |-> 0]}
        /\ UNCHANGED <<expertsLog, expertsTold, loaded, record, since, revived, menu, verifyDialog>>
    BY <1>13 DEF experts!OnExpertProfileDialogSubmit, experts!shownVars, experts!roomVars, experts!userVars
  <2>2. DialogsInv'
    BY <1>0, <1>3, <2>1 DEF DialogsInv
  <2> QED
    BY <1>1, <2>1, <2>2 DEF ExpertsInv
<1>14. CASE \E o \in expertsOps, ok \in BOOLEAN : experts!Answer(o, ok)
  <2>1. PICK o \in expertsOps, ok \in BOOLEAN : experts!Answer(o, ok)
    BY <1>14
  <2>2. /\ expertsOps' \subseteq expertsOps /\ UNCHANGED <<expertsTold, loaded, record, since, revived, menu>>
        /\ \/ verifyDialog' = verifyDialog \/ verifyDialog' = experts!Closed
           \/ o.kind # "profile" /\ verifyDialog.on = o.on /\ verifyDialog' = [verifyDialog EXCEPT !.error = TRUE]
        /\ \/ UNCHANGED expertsLog
           \/ o.kind # "profile" /\ Len(expertsLog) < MaxEvents /\ experts!Send(o.kind, ExpertsMe, o.on)
    BY <2>1 DEF experts!Answer, experts!shownVars
  <2>3. ExpertsLogInv' /\ WordsInv' /\ experts!Texts(expertsLog) \subseteq experts!Texts(expertsLog)'
    <3>1. CASE UNCHANGED expertsLog
      BY <1>1, <1>3, <2>2, <3>1
    <3>2. CASE o.kind # "profile" /\ Len(expertsLog) < MaxEvents /\ experts!Send(o.kind, ExpertsMe, o.on)
      <4>1. o.kind \in {"verify", "unverify"} /\ o.on \in experts!Texts(expertsLog)
        BY <1>0, <3>2 DEF DialogsInv
      <4>2. PICK what, m : what = o.kind /\ m = o.on
        OBVIOUS
      <4> QED
        BY <1>0, <2>2, <3>2, <4>1, <4>2, SendStep
    <3> QED
      BY <2>2, <3>1, <3>2
  <2>4. /\ o.kind # "profile" => o.on \in experts!Texts(expertsLog)
        /\ 0 \notin experts!Texts(expertsLog)
    <3>1. DOMAIN expertsLog = 1 .. Len(expertsLog)
      BY <1>0, LenProperties DEF ExpertsLogInv
    <3> QED
      BY <1>0, <3>1 DEF DialogsInv, experts!Texts
  <2>5. DialogsInv'
    <3>1. CASE verifyDialog' = verifyDialog
      BY <1>0, <2>2, <2>3, <3>1 DEF DialogsInv
    <3>2. CASE verifyDialog' = experts!Closed
      BY <1>0, <2>2, <2>3, <3>2 DEF DialogsInv, experts!Closed
    <3>3. CASE o.kind # "profile" /\ verifyDialog.on = o.on /\ verifyDialog' = [verifyDialog EXCEPT !.error = TRUE]
      <4>1. verifyDialog.on \in experts!Texts(expertsLog) /\ verifyDialog.on # 0
        BY <2>4, <3>3
      <4> QED
        BY <1>0, <2>2, <2>3, <3>3, <4>1 DEF DialogsInv, experts!Closed
    <3> QED
      BY <2>2, <3>1, <3>2, <3>3
  <2> QED
    BY <2>3, <2>5 DEF ExpertsInv
<1> QED
  BY <1>4, <1>5, <1>6, <1>7, <1>8, <1>9, <1>10, <1>11, <1>12, <1>13, <1>14 DEF experts!ExpertsNext

LEMMA ExpertsStart == experts!ExpertsInit => ExpertsInv
<1> SUFFICES ASSUME experts!ExpertsInit PROVE ExpertsInv
  OBVIOUS
<1> DEFINE e == [kind |-> "text", by |-> experts!Author, on |-> 0]
<1>1. /\ expertsLog = <<e>> /\ expertsTold = 0 /\ loaded = {} /\ revived = {}
      /\ record = [m \in experts!Places |-> [u \in ExpertsUsers |-> 0]] /\ since = [m \in experts!Places |-> {}]
      /\ menu = experts!NoMenu /\ verifyDialog = experts!Closed /\ expertsOps = {}
  BY DEF experts!ExpertsInit
<1>2. e \in ExpertsEvent /\ e.kind = "text"
  BY DEF ExpertsEvent
<1> HIDE DEF e
<1>3. expertsLog \in Seq(ExpertsEvent) /\ Len(expertsLog) = 1 /\ DOMAIN expertsLog = 1 .. 1 /\ expertsLog[1] = e
  BY <1>1, <1>2
<1>4. \A i \in DOMAIN expertsLog : expertsLog[i].kind = "text"
  BY <1>2, <1>3
<1>5. ExpertsLogInv
  <2>1. Len(expertsLog) \in 1 .. MaxEvents /\ expertsTold \in 0 .. Len(expertsLog)
    BY <1>1, <1>3, ExpertsAssumption
  <2>2. record \in Records /\ since \in [experts!Places -> SUBSET (DOMAIN expertsLog)] /\ \A m \in experts!Places : since[m] = {}
    BY <1>1 DEF Records
  <2> QED
    BY SMTT(30), <1>1, <1>3, <1>4, <2>1, <2>2 DEF ExpertsLogInv
<1>6. WordsInv
  <2>1. \A m \in experts!Places, u \in ExpertsUsers : experts!Known(m, u) = {} /\ record[m][u] = 0
    BY <1>1 DEF experts!Known
  <2> QED
    BY <2>1 DEF WordsInv, IsLast
<1>7. DialogsInv
  BY <1>1 DEF DialogsInv, experts!NoMenu, experts!Closed
<1> QED
  BY <1>5, <1>6, <1>7 DEF ExpertsInv

LEMMA ExpertsWords == ExpertsInv => experts!LastWordShows /\ experts!ExpertsTypeOK
<1> SUFFICES ASSUME ExpertsInv PROVE experts!LastWordShows /\ experts!ExpertsTypeOK
  OBVIOUS
<1>0. /\ Len(expertsLog) \in Nat /\ DOMAIN expertsLog = 1 .. Len(expertsLog) /\ ExpertsLogInv /\ WordsInv /\ DialogsInv
      /\ \A i \in DOMAIN expertsLog : expertsLog[i] \in ExpertsEvent
  BY LenProperties, ElementOfSeq DEF ExpertsInv, ExpertsLogInv
<1>1. ASSUME NEW m \in experts!Places, NEW u \in ExpertsUsers, <<m, u>> \notin revived
      PROVE  record[m][u] = experts!Latest(m, u)
  <2>1. PICK K, r : K = experts!Known(m, u) /\ r = record[m][u]
    OBVIOUS
  <2>2. IsLast(K, Withdrawals, r) /\ K \subseteq DOMAIN expertsLog /\ \A i \in K : i \in Nat
    <3>1. K \subseteq since[m] /\ since[m] \subseteq DOMAIN expertsLog
      BY <1>0, <2>1 DEF experts!Known, ExpertsLogInv
    <3> QED
      BY <1>0, <1>1, <2>1, <3>1 DEF WordsInv
  <2>3. experts!Latest(m, u) =
          IF K = {} \/ expertsLog[CHOOSE i \in K : \A j \in K : j <= i].kind = "unverify" THEN 0
          ELSE CHOOSE i \in K : \A j \in K : j <= i
    BY <2>1 DEF experts!Latest
  <2>4. \A x, y \in K : (\A j \in K : j <= x) /\ (\A j \in K : j <= y) => x = y
    BY <2>2
  <2>5. ASSUME NEW x \in K, \A j \in K : j <= x PROVE x = CHOOSE i \in K : \A j \in K : j <= i
    BY <2>4, <2>5
  <2>6. CASE K = {}
    BY <2>1, <2>2, <2>3, <2>6 DEF IsLast
  <2>7. CASE K # {} /\ r = 0
    <3>1. PICK x \in K : x \in Withdrawals /\ \A j \in K : j <= x
      BY <2>2, <2>7 DEF IsLast
    <3> QED
      BY <2>1, <2>3, <2>5, <2>7, <3>1 DEF Withdrawals
  <2>8. CASE K # {} /\ r # 0
    <3>1. r \in K /\ r \notin Withdrawals /\ (\A j \in K : j <= r) /\ r \in DOMAIN expertsLog
      BY <2>2, <2>8 DEF IsLast
    <3>2. expertsLog[r].kind # "unverify"
      BY <3>1 DEF Withdrawals
    <3> QED
      BY <2>1, <2>3, <2>5, <2>8, <3>1, <3>2
  <2> QED
    BY <2>6, <2>7, <2>8
<1>2. experts!LastWordShows
  BY <1>1 DEF experts!LastWordShows
<1>3. ASSUME NEW m \in experts!Places, NEW u \in ExpertsUsers
      PROVE  /\ record[m][u] \in 0 .. Len(expertsLog)
             /\ record[m][u] # 0 =>
                  /\ expertsLog[record[m][u]] = [kind |-> "verify", by |-> u, on |-> m]
                  /\ record[m][u] \in since[m]
  <2>1. CASE record[m][u] = 0
    BY <1>0, <2>1
  <2>2. CASE record[m][u] # 0
    <3>1. PICK r : r = record[m][u]
      OBVIOUS
    <3>2. r \in since[m] /\ expertsLog[r].by = u /\ r \notin Withdrawals
      BY <1>0, <2>2, <3>1 DEF WordsInv, experts!Known
    <3>3. r \in DOMAIN expertsLog /\ expertsLog[r].kind # "text" /\ expertsLog[r].on = m
      BY <1>0, <3>2 DEF ExpertsLogInv
    <3>4. expertsLog[r] = [kind |-> "verify", by |-> u, on |-> m]
      BY <1>0, <3>2, <3>3 DEF Withdrawals, ExpertsEvent
    <3>5. r \in 0 .. Len(expertsLog)
      BY <1>0, <3>3
    <3> QED
      BY <3>1, <3>2, <3>4, <3>5
  <2> QED
    BY <2>1, <2>2
<1>4. record \in [experts!Places -> [ExpertsUsers -> 0 .. Len(expertsLog)]]
  <2>1. record \in [experts!Places -> [ExpertsUsers -> Nat]]
    BY <1>0 DEF ExpertsLogInv, Records
  <2> QED
    BY <1>3, <2>1
<1>5. /\ expertsTold \in 0 .. Len(expertsLog) /\ Len(expertsLog) <= MaxEvents
      /\ \A i \in DOMAIN expertsLog : expertsLog[i].kind # "text" =>
           expertsLog[i].by \in ExpertsUsers /\ expertsLog[i].on \in experts!Texts(expertsLog)
      /\ loaded \subseteq experts!Texts(expertsLog)
  BY <1>0, ExpertsAssumption DEF ExpertsLogInv
<1>6. /\ menu.items \subseteq {"verify", "edit", "remove"}
      /\ menu # experts!NoMenu => menu.on \in experts!Texts(expertsLog)
      /\ verifyDialog.on \in {0} \cup experts!Texts(expertsLog)
      /\ \A o \in expertsOps : o.kind \in {"verify", "unverify", "profile"}
  BY <1>0 DEF DialogsInv
<1>7. experts!ExpertsTypeOK
  BY <1>3, <1>4, <1>5, <1>6 DEF experts!ExpertsTypeOK
<1> QED
  BY <1>2, <1>7

-----------------------------------------------------------------------------
(* What is said below a message. *)

\* A thread is shown whole, the last word of each expert counts, a post of a
\* forum gets its order, and clients agree on the votes, however pages, sync and
\* failures overtake one another: the theorem is about MessagesAgree, for any
\* threads, pages, clients, comments, experts and numbers of events.
THEOREM MessagesSettle == Spec => []MessagesAgree
<1> DEFINE I == /\ part = "threads" => ThreadsInv
                /\ part = "forum" => ForumInv
                /\ part = "experts" => ExpertsInv
<1>1. Init => I
  BY Parts, ThreadsStart, ForumStart, ExpertsStart
<1>2. I /\ [Next]_vars => I'
  BY Parts, ThreadsStep, ForumStep, ExpertsStep
<1>3. I => MessagesAgree
  BY ThreadsWhole, ForumAgrees, ExpertsWords DEF MessagesAgree
<1> QED
  BY <1>1, <1>2, <1>3, PTL DEF Spec

LEMMA EntryTypes == EntryInv => entry!TypeOK
<1> SUFFICES ASSUME EntryInv PROVE entry!TypeOK
  OBVIOUS
<1>1. HubInv /\ AskedInv /\ ListsInv /\ TasksInv /\ LastInv
  BY DEF EntryInv
<1>2. MaxVisits \in Nat /\ MaxMoves \in Nat /\ MaxAnswers \in Nat /\ Secured \in SUBSET EntryRooms
  BY EntryAssumption
<1>3. /\ member \in [EntryRooms -> {"out", "join", "kicked", "ban"}]
      /\ lastSent \in [EntryRooms -> {"out", "join", "kicked", "ban"}]
      /\ response \in [EntryRooms -> {"absent", "quiet", "out", "join", "kicked", "ban"}]
      /\ sdk \in [EntryRooms -> {"absent", "out", "join", "kicked", "ban"}]
  <2>1. /\ Memberships = {"out", "join", "kicked", "ban"}
        /\ Memberships \cup {"absent", "quiet"} = {"absent", "quiet", "out", "join", "kicked", "ban"}
        /\ Memberships \cup {"absent"} = {"absent", "out", "join", "kicked", "ban"}
    BY DEF Memberships
  <2> QED
    BY <1>1, <2>1 DEF HubInv
<1>4. removals \in 0 .. MaxMoves /\ asked \in SUBSET EntryRooms
  <2>1. Cardinality(asked) \in Nat
    BY <1>1, FS_CardinalityType DEF HubInv
  <2> QED
    BY <1>1, <1>2, <2>1 DEF HubInv
<1>5. \A k \in 1 .. Len(tasks) : tasks[k] \in Task /\ tasks[k].inst \in 1 .. MaxVisits
  <2>1. Len(tasks) \in Nat /\ DOMAIN tasks = 1 .. Len(tasks) /\ \A k \in 1 .. Len(tasks) : tasks[k] \in Task
    BY <1>1, LenProperties DEF TasksInv
  <2>2. Cardinality(Insts) \in Nat /\ Cardinality(Insts) <= MaxVisits /\ Insts \in SUBSET (1 .. Cardinality(Insts))
    BY <1>1, <1>2, <2>1, FS_CardinalityType DEF TasksInv
  <2>3. ASSUME NEW k \in 1 .. Len(tasks) PROVE tasks[k].inst \in Insts
    BY <2>1 DEF Insts
  <2> QED
    BY <1>2, <2>1, <2>2, <2>3
<1>6. ASSUME NEW t \in Task, t.inst \in 1 .. MaxVisits
      PROVE  t \in [inst : 1 .. MaxVisits, room : EntryRooms,
                    pc : {"loaded", "member", "list", "join", "names", "listed", "public",
                          "join public", "names public", "end", "done", "stopped"}]
  BY <1>6 DEF Task, TaskPcs
<1>7. tasks \in Seq([inst : 1 .. MaxVisits, room : EntryRooms,
        pc : {"loaded", "member", "list", "join", "names", "listed", "public",
              "join public", "names public", "end", "done", "stopped"}])
  <2> DEFINE T == [inst : 1 .. MaxVisits, room : EntryRooms,
        pc : {"loaded", "member", "list", "join", "names", "listed", "public",
              "join public", "names public", "end", "done", "stopped"}]
  <2>1. \A k \in 1 .. Len(tasks) : tasks[k] \in T
    BY <1>5, <1>6
  <2>2. Len(tasks) \in Nat /\ tasks \in [1 .. Len(tasks) -> Task]
    BY <1>1, LenProperties DEF TasksInv
  <2> HIDE DEF T
  <2>3. tasks \in [1 .. Len(tasks) -> T]
    BY <2>1, <2>2
  <2>4. tasks \in Seq(T)
    BY <2>2, <2>3, SeqDef
  <2> QED
    BY <2>4 DEF T
<1>8. page \in [inst : 0 .. MaxVisits, loading : BOOLEAN, joinDialog : EntryRooms \cup {NoRoom}]
  <2>1. page \in EntryPage /\ page.inst \in 0 .. MaxVisits
    <3>1. page \in EntryPage /\ page.inst \in Nat /\ Len(tasks) \in Nat
      BY <1>1, LenProperties DEF TasksInv, EntryPage
    <3>2. CASE page.inst # 0
      BY <1>1, <1>2, <1>5, <3>1, <3>2 DEF LastInv, LastTask
    <3> QED
      BY <1>2, <3>1, <3>2
  <2> QED
    BY <1>2, <2>1 DEF EntryPage
<1>9. /\ (page.inst # 0) = (route \in EntryRooms)
      /\ route \in EntryRooms \cup {NoRoom, "error"} /\ current \in EntryRooms \cup {NoRoom}
      /\ list \subseteq EntryRooms /\ entryStore \subseteq EntryRooms
  BY <1>1 DEF TasksInv, ListsInv
<1>10. /\ admitted \subseteq Secured /\ entryRoomsLoaded \in BOOLEAN /\ answers \in 0 .. MaxAnswers
       /\ ops \subseteq [kind : {"join", "leave"}, room : EntryRooms, pc : {"call", "after"}]
       /\ dialog \in [what : {"none", "kick", "leave"}, room : EntryRooms \cup {NoRoom}]
       /\ callback \in EntryRooms \cup {NoRoom}
  BY <1>1 DEF HubInv, AskedInv, EntryOp
<1> QED
  BY <1>3, <1>4, <1>7, <1>8, <1>9, <1>10 DEF entry!TypeOK

\* The variables of the component that is looked at keep their types: the theorem
\* is about TypeOK, for any values of the constants.
THEOREM RoomsTypes == Spec => []TypeOK
<1> DEFINE I == /\ part = "unread" => UnreadInv
                /\ part = "entry" => EntryInv
                /\ part = "catalogue" => CatalogueInv
                /\ part = "contacts" => ContactsInv
                /\ part = "threads" => ThreadsInv
                /\ part = "forum" => ForumInv
                /\ part = "experts" => ExpertsInv
<1>1. Init => I
  BY Parts, UnreadStart, EntryStart, CatalogueStart, ContactsStart, ThreadsStart, ForumStart, ExpertsStart
<1>2. I /\ [Next]_vars => I'
  BY Parts, UnreadStep, EntryStep, CatalogueStep, ContactsStep, ThreadsStep, ForumStep, ExpertsStep
<1>3. I => TypeOK
  BY UnreadTypes, EntryTypes, CatalogueTypes, ContactsTypes, ThreadsWhole, ForumAgrees, ExpertsWords DEF TypeOK
<1> QED
  BY <1>1, <1>2, <1>3, PTL DEF Spec
=============================================================================
