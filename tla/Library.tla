-------------------------------- MODULE Library --------------------------------
(***************************************************************************)
(* The file library of a room (RoomLibrary.vue, useRoomLibrary.ts, the      *)
(* library events of TimelineManager.ts).  Files and signatures of files    *)
(* are events; a client gets them from sliding sync, and asks for all of    *)
(* them whenever the library is opened.  An administrator deletes files one *)
(* by one or a selection of them: media first, then the event, then what    *)
(* was signed.  Requests are handled by the server at one moment and        *)
(* answered at a later one.                                                 *)
(***************************************************************************)
EXTENDS Integers, Sequences, FiniteSets, SequencesExt

CONSTANTS Files,
          MaxOpens, MaxFaults, MaxSeals, MaxDeletes   \* bounds

NoFile == "nothing"
Asked == {"one", "all"}   \* deletions of a single file, and of the selection

VARIABLES
  sent, redacted, lost,  \* at the server: files, those redacted, those without media
  sealed,                \* signatures: the file each is attached to, and the one whose hash was signed
  news,                  \* what sliding sync still has to tell this client
  library, flagged,      \* libraryEvents: files, and those with isDeleted
  seals,                 \* libraryEvents: signatures
  redactions,            \* redactedEvents
  load,                  \* answer to initFileLibrary that is under way
  filter,                \* whether the list is searched
  selection,             \* the files that are ticked
  batch,                 \* deleteSelected: the array that is walked through, and where it is
  late,                  \* history: files an answer brought back after their redaction was known
  doing,                 \* handleDeletion under way, of one file and of the selection
  spoilt,                \* history: files a deletion of which failed
  signing, active, hash, \* signingMessage, activeEventId, showFileHash
  hashing, sessions,     \* files being hashed, and hashes being signed
  mixed,                 \* history: a file was signed before the last signing was over
  opens, faults, deletes

serverVars == <<sent, redacted, lost, sealed, news>>
listVars == <<library, flagged, seals, redactions, load, filter, late>>
deletionVars == <<selection, batch, doing, spoilt, deletes>>
signVars == <<signing, active, hash, hashing, sessions, mixed>>
libraryVars == <<serverVars, listVars, deletionVars, signVars, opens, faults>>

Seals == [on : Files \cup {NoFile}, of : Files]
NoBatch == [array |-> <<>>, own |-> FALSE, i |-> 0]   \* own: the array is still that of selection
Idle == [file |-> NoFile, seals |-> {}, at |-> "idle"]
NoLoad == [asked |-> FALSE, files |-> {}, seals |-> {}]

LibraryTypeOK ==
  /\ redacted \subseteq sent /\ lost \subseteq sent /\ sent \subseteq Files
  /\ library \subseteq sent /\ flagged \subseteq library /\ sealed \subseteq Seals /\ seals \subseteq Seals
  /\ redactions \subseteq redacted /\ load.files \subseteq sent
  /\ ToSet(selection) \subseteq Files /\ batch.i \in Nat
  /\ \A a \in Asked : doing[a].at \in {"idle", "media", "redact", "clean"}
  /\ active \in Files \cup {NoFile} /\ hash \in Files \cup {NoFile}
  /\ hashing \subseteq Files /\ sessions \subseteq Files

LibraryInit ==
  /\ sent \in SUBSET Files /\ redacted = {} /\ lost = {} /\ sealed = {} /\ news = <<>>
  /\ library = {} /\ flagged = {} /\ seals = {} /\ redactions = {} /\ load = NoLoad /\ filter = FALSE /\ late = {}
  /\ selection = <<>> /\ batch = NoBatch /\ doing = [a \in Asked |-> Idle] /\ spoilt = {} /\ deletes = 0
  /\ signing = FALSE /\ active = NoFile /\ hash = NoFile /\ hashing = {} /\ sessions = {} /\ mixed = FALSE
  /\ opens = 0 /\ faults = 0

-----------------------------------------------------------------------------
(* The list.                                                               *)

\* slip: the answer replaces what sliding sync brought meanwhile
FileLibrarySet(files, signatures) == library' = files /\ seals' = signatures
FileLibraryAddEvents(files, signatures) == library' = library \cup files /\ seals' = seals \cup signatures

\* A search finds files, not signatures: those have no name.
RoomTimeLine == [files |-> library \ flagged, seals |-> IF filter THEN {} ELSE seals]

\* The rows of the list.
Shown == RoomTimeLine.files
SealsOf(f) == {s \in RoomTimeLine.seals : s.on = f}

\* Opening the library asks for its files; the component is a new one.  It is opened
\* when what the one before it began is over.
InitFileLibrary ==
  /\ opens < MaxOpens /\ ~load.asked /\ (\A a \in Asked : doing[a] = Idle) /\ hashing \cup sessions = {} /\ opens' = opens + 1
  /\ load' = [asked |-> TRUE, files |-> sent \ redacted, seals |-> sealed]
  /\ selection' = <<>> /\ batch' = NoBatch /\ filter' = FALSE /\ signing' = FALSE /\ active' = NoFile
  /\ UNCHANGED <<serverVars, library, flagged, seals, redactions, late, doing, spoilt, deletes, hash, hashing, sessions, mixed, faults>>

LibraryLoaded ==
  /\ load.asked /\ load' = NoLoad /\ FileLibraryAddEvents(load.files, load.seals)
  /\ late' = late \cup (load.files \cap redactions)
  /\ UNCHANGED <<serverVars, flagged, redactions, filter, deletionVars, signVars, opens, faults>>

SetFilter ==
  /\ ~signing /\ filter' = ~filter
  /\ UNCHANGED <<serverVars, library, flagged, seals, redactions, load, late, deletionVars, signVars, opens, faults>>

\* Someone, perhaps this user, adds a file.
Upload(f) ==
  /\ f \notin sent /\ sent' = sent \cup {f} /\ news' = Append(news, [kind |-> "file", file |-> f, of |-> f])
  /\ UNCHANGED <<redacted, lost, sealed, listVars, deletionVars, signVars, opens, faults>>

ApplyIsDeleted(files) == files \cap redactions'

\* A redacted file comes without contents.
LoadFromSlidingSync ==
  /\ news # <<>> /\ news' = Tail(news)
  /\ LET n == Head(news) IN
     /\ redactions' = IF n.kind = "redaction" THEN redactions \cup {n.file} ELSE redactions
     /\ FileLibraryAddEvents({n.file : x \in {n.kind} \cap {"file"}} \ redacted,
                             {[on |-> n.file, of |-> n.of] : x \in {n.kind} \cap {"seal"}})
     /\ flagged' = ApplyIsDeleted(library') /\ late' = {}
  /\ UNCHANGED <<sent, redacted, lost, sealed, load, filter, deletionVars, signVars, opens, faults>>

-----------------------------------------------------------------------------
(* Deleting, with removeLibraryEvent before and after the requests.        *)

RemoveLibraryEvents(files, signatures) ==
  /\ library' = library \ files /\ flagged' = flagged \ files /\ seals' = seals \ signatures

HandleDeletion(a, f) ==
  /\ RemoveLibraryEvents({f}, SealsOf(f))
  /\ doing' = [doing EXCEPT ![a] = [file |-> f, seals |-> SealsOf(f), at |-> "media"]]

\* From the menu of the file, once the question is answered.
ConfirmDeletion(f) ==
  /\ f \in Shown /\ doing["one"] = Idle /\ ~signing /\ deletes < MaxDeletes /\ deletes' = deletes + 1
  /\ HandleDeletion("one", f)
  /\ UNCHANGED <<serverVars, redactions, load, late, filter, selection, batch, spoilt, signVars, opens, faults>>

AddToSelection(f) ==
  /\ f \in Shown /\ f \notin ToSet(selection) /\ ~signing /\ selection' = Append(selection, f)
  /\ batch' = IF batch.own THEN [batch EXCEPT !.array = selection'] ELSE batch
  /\ UNCHANGED <<serverVars, listVars, doing, spoilt, deletes, signVars, opens, faults>>
RemoveFromSelection(f) ==
  /\ f \in Shown /\ ~signing
  /\ \E i \in DOMAIN selection : selection[i] = f /\ selection' = RemoveAt(selection, i)
  /\ batch' = IF batch.own THEN [batch EXCEPT !.array = selection'] ELSE batch
  /\ UNCHANGED <<serverVars, listVars, doing, spoilt, deletes, signVars, opens, faults>>
SelectAll ==
  /\ ~ (Shown \subseteq ToSet(selection)) /\ ~signing
  /\ selection' = selection \o SetToSeq(Shown \ ToSet(selection))
  /\ batch' = IF batch.own THEN [batch EXCEPT !.array = selection'] ELSE batch
  /\ UNCHANGED <<serverVars, listVars, doing, spoilt, deletes, signVars, opens, faults>>
UnselectAll ==
  /\ selection # <<>> /\ ~signing /\ selection' = <<>> /\ batch' = [batch EXCEPT !.own = FALSE]
  /\ UNCHANGED <<serverVars, listVars, doing, spoilt, deletes, signVars, opens, faults>>

DeleteSelected ==
  /\ selection # <<>> /\ doing["all"] = Idle /\ ~signing /\ deletes < MaxDeletes /\ deletes' = deletes + 1
  /\ filter' = FALSE /\ batch' = [array |-> selection, own |-> TRUE, i |-> 1]
  /\ HandleDeletion("all", selection[1])
  /\ UNCHANGED <<serverVars, redactions, load, late, selection, spoilt, signVars, opens, faults>>

Fault == faults < MaxFaults /\ faults' = faults + 1

\* The media are deleted, or were already; the event is redacted next.
DeleteMedia(a) ==
  /\ doing[a].at = "media" /\ lost' = lost \cup {doing[a].file} /\ doing' = [doing EXCEPT ![a].at = "redact"]
  /\ UNCHANGED <<sent, redacted, sealed, news, listVars, selection, batch, spoilt, deletes, signVars, opens, faults>>
\* Refused, or asked too often too many times: the event is not redacted here.
DeleteMediaFails(a) ==
  /\ doing[a].at = "media" /\ Fault /\ doing' = [doing EXCEPT ![a].at = "clean"]
  /\ UNCHANGED <<serverVars, listVars, selection, batch, spoilt, deletes, signVars, opens>>

Redact(files, signatures) ==
  /\ redacted' = redacted \cup files /\ sealed' = sealed \ signatures
  /\ news' = news \o SetToSeq({[kind |-> "redaction", file |-> f, of |-> f] : f \in files \ redacted})

DeleteMessage(a) ==
  /\ doing[a].at = "redact" /\ Redact({doing[a].file}, {}) /\ doing' = [doing EXCEPT ![a].at = "clean"]
  /\ UNCHANGED <<sent, lost, listVars, selection, batch, spoilt, deletes, signVars, opens, faults>>

\* An error that nobody catches ends the deletion, and that of what else is selected.
DeleteMessageFails(a) ==
  /\ doing[a].at = "redact" /\ Fault /\ doing' = [doing EXCEPT ![a] = Idle] /\ spoilt' = spoilt \cup {doing[a].file}
  /\ batch' = IF a = "all" THEN NoBatch ELSE batch
  /\ UNCHANGED <<serverVars, listVars, selection, deletes, signVars, opens>>

\* The next of the selection follows at once, of the array as it is by now; after
\* the last the selection is given up.
RemoveFromTimeline(a, ok) ==
  LET d == doing[a]
      more == a = "all" /\ batch.i < Len(batch.array)
      f == IF more THEN batch.array[batch.i + 1] ELSE NoFile
  IN
  /\ d.at = "clean"
  /\ IF ok THEN Redact({d.file}, d.seals) /\ UNCHANGED <<spoilt, faults>>
     ELSE Fault /\ spoilt' = spoilt \cup {d.file} /\ UNCHANGED <<redacted, sealed, news>>
  /\ doing' = [doing EXCEPT ![a] = IF more THEN [file |-> f, seals |-> SealsOf(f), at |-> "media"] ELSE Idle]
  /\ batch' = IF more THEN [batch EXCEPT !.i = @ + 1] ELSE IF a = "all" THEN NoBatch ELSE batch
  /\ selection' = IF a = "all" /\ ~more THEN <<>> ELSE selection
  /\ RemoveLibraryEvents({d.file, f}, d.seals \cup SealsOf(f))
  /\ UNCHANGED <<sent, lost, redactions, load, filter, late, deletes, signVars, opens>>

-----------------------------------------------------------------------------
(* Signing.                                                                *)

IsSigned(f) == SealsOf(f) # {}

HandleSigning(f) ==
  /\ f \in Shown /\ ~IsSigned(f) /\ ~signing /\ f \notin hashing \cup sessions
  /\ Cardinality(sealed) + Cardinality(hashing \cup sessions) < MaxSeals
  /\ signing' = TRUE /\ active' = f /\ hashing' = hashing \cup {f}
  /\ mixed' = (mixed \/ hashing # {} \/ sessions # {})
  /\ UNCHANGED <<serverVars, listVars, deletionVars, hash, sessions, opens, faults>>

\* Whatever dialog is shown by now, it gets this hash, and a session is begun for it.
MakeHash(f) ==
  /\ f \in hashing /\ hashing' = hashing \ {f} /\ hash' = f /\ sessions' = sessions \cup {f}
  /\ UNCHANGED <<serverVars, listVars, deletionVars, signing, active, mixed, opens, faults>>

\* Neither way to leave the dialog ends the session.
Cancel ==
  /\ signing /\ signing' = FALSE
  /\ UNCHANGED <<serverVars, listVars, deletionVars, active, hash, hashing, sessions, mixed, opens, faults>>
HandleEsc ==
  /\ signing /\ signing' = FALSE /\ active' = NoFile
  /\ UNCHANGED <<serverVars, listVars, deletionVars, hash, hashing, sessions, mixed, opens, faults>>

FinishedSigningMessage(f) ==
  /\ f \in sessions /\ sessions' = sessions \ {f} /\ signing' = FALSE
  /\ LET s == [on |-> active, of |-> f] IN
     /\ sealed' = sealed \cup {s} /\ news' = Append(news, [kind |-> "seal", file |-> s.on, of |-> s.of])
  /\ UNCHANGED <<sent, redacted, lost, listVars, deletionVars, active, hash, hashing, mixed, opens, faults>>
YiviSessionError(f) ==
  /\ f \in sessions /\ sessions' = sessions \ {f}
  /\ UNCHANGED <<serverVars, listVars, deletionVars, signing, active, hash, hashing, mixed, opens, faults>>

LibraryNext ==
  \/ InitFileLibrary \/ LibraryLoaded \/ SetFilter \/ LoadFromSlidingSync
  \/ \E f \in Files : Upload(f) \/ ConfirmDeletion(f) \/ AddToSelection(f) \/ RemoveFromSelection(f)
  \/ SelectAll \/ UnselectAll \/ DeleteSelected
  \/ \E a \in Asked : \/ DeleteMedia(a) \/ DeleteMediaFails(a) \/ DeleteMessage(a) \/ DeleteMessageFails(a)
                      \/ \E ok \in BOOLEAN : RemoveFromTimeline(a, ok)
  \/ \E f \in Files : HandleSigning(f) \/ MakeHash(f) \/ FinishedSigningMessage(f) \/ YiviSessionError(f)
  \/ Cancel \/ HandleEsc

LibrarySpec == LibraryInit /\ [][LibraryNext]_libraryVars

-----------------------------------------------------------------------------
\* When all requests are answered and sliding sync is up to date, the library that
\* was opened shows the files the room has: none is missing but what this client
\* took away in a deletion that failed (spoilt), and none is too many but what an old
\* answer brought back since the last news (late).
LibraryAgrees ==
  opens > 0 /\ ~load.asked /\ news = <<>> /\ (\A a \in Asked : doing[a] = Idle) =>
    sent \ redacted \subseteq Shown \cup spoilt /\ Shown \cap redacted \subseteq late

\* A signature is attached to the file whose hash was signed, if one file is signed
\* after another (mixed).
SealsMatch == ~mixed => \A s \in sealed : s.on \in {s.of, NoFile}
=============================================================================
