-------------------------------- MODULE Compose --------------------------------
(***************************************************************************)
(* Writing messages in a room (MessageInput.vue, messageInput.ts,          *)
(* FilePicker.vue, fileUpload.ts, message-actions.ts and the methods of    *)
(* pubhubs.ts that send).  The timeline of a room and the thread that is   *)
(* open have a composer each.  They share the store of the message         *)
(* actions, the drafts and the thread that is open according to the room;  *)
(* each fetches the root of its thread, the message replied to, previews   *)
(* of files and the answers of the server in the background.               *)
(***************************************************************************)
EXTENDS Integers, Sequences, FiniteSets

CONSTANTS Threads, None,
          TextMessages, FileMessages,  \* messages of the user that can be edited
          MaxTyped,                    \* bound on texts
          MaxActs                      \* bound on what the user asks for besides

VARIABLES
  opened,     \* currentThreadId of the room
  box,        \* box[c]: the state of composer c
  drafts,     \* the local store: the draft of each thread and of the timeline
  replyingTo, \* of message-actions: the thread of the message, or Nothing
  whispering, \* whisperingToUserId is set
  waits,      \* what the composers wait for
  posted,     \* the messages sent: what, in which thread, as a reply to what
  typed,      \* history: for each text the place of the composer it was typed in
  acts,
  shared,     \* history: files that were shared, and how often each was sent
  swapped     \* history: file messages that lost their file unasked

composeVars == <<opened, box, drafts, replyingTo, whispering, waits, posted, typed, acts, shared, swapped>>

Places == Threads \cup {None}         \* None is the timeline
Nothing == "nothing"
Composers == {"timeline", "thread"}
Editable == TextMessages \cup FileMessages
Body == MaxTyped + 1                  \* the text of a message that is edited
Texts == 0..Body                      \* 0 is the empty one

Blank == [text |-> 0, save |-> -1, root |-> None, reply |-> Nothing, send |-> FALSE, mention |-> TRUE,
          announce |-> FALSE, sign |-> FALSE, poll |-> FALSE, file |-> FALSE, share |-> 0,
          edit |-> Nothing, original |-> Nothing, existing |-> Nothing, dropped |-> Nothing]

ComposeTypeOK ==
  /\ opened \in Places /\ drafts \in [Places -> Texts] /\ replyingTo \in Places \cup {Nothing}
  /\ \A c \in Composers : LET k == box[c] IN
       /\ k.text \in Texts /\ k.save \in Texts \cup {-1} /\ k.root \in Places /\ k.reply \in Places \cup {Nothing}
       /\ k.edit \in Editable \cup {Nothing} /\ k.original \in Editable \cup {Nothing}
       /\ k.existing \in FileMessages \cup {Nothing}
       /\ ~(k.file /\ k.share # 0) /\ ~(k.poll /\ k.sign)
       /\ (c = "timeline" => k.reply \in {None, Nothing}) /\ (c = "thread" => k.reply # None)
  /\ \A w \in waits : w.c \in Composers \cup {"gone"} /\ w.text \in Texts
  /\ Len(typed) <= MaxTyped /\ acts \in 0..MaxActs

ComposeInit ==
  /\ opened = None /\ box = [c \in Composers |-> Blank] /\ drafts = [p \in Places |-> 0]
  /\ replyingTo = Nothing /\ whispering = FALSE /\ waits = {} /\ posted = {} /\ typed = <<>> /\ acts = 0 /\ shared = <<>> /\ swapped = {}

-----------------------------------------------------------------------------
(* The state of a composer.                                                *)

Shown(c) == c = "timeline" \/ opened # None

\* isValidMessage
Valid(k) == k.text # 0 \/ (k.poll /\ k.send) \/ k.file \/ k.existing # Nothing \/ k.share # 0
Recheck(k) == [k EXCEPT !.send = Valid(k)]

\* resetAll: the event that is being edited is not part of that state.
ResetAll(k) == [k EXCEPT !.send = FALSE, !.mention = TRUE, !.sign = FALSE, !.poll = FALSE, !.file = FALSE, !.share = 0,
                         !.edit = Nothing, !.existing = Nothing]

\* The watchers of value: the button, and the draft after half a second.
SetText(k, t) == IF t = k.text THEN k ELSE Recheck([k EXCEPT !.text = t, !.save = t])

\* handleKeydown: every composer hears every key.
Hears(k, escape) == IF k.sign \/ (~escape /\ (k.mention \/ k.poll)) THEN k ELSE Recheck(ResetAll(k))
CancelEdit(k) == Recheck(ResetAll([SetText(k, 0) EXCEPT !.original = Nothing, !.dropped = Nothing]))

Wait(c, op, at, text) == [c |-> c, op |-> op, at |-> at, text |-> text, reply |-> Nothing, n |-> acts]
Act == acts < MaxActs /\ acts' = acts + 1
Box(c) == IF c \in Composers THEN box[c] ELSE Blank
With(b, c, k) == [d \in Composers |-> IF d = c THEN k ELSE b[d]]
Only(c, k) == box' = With(box, c, k)

\* A change of message-actions and the subscription of the composers to it, up
\* to the answer of getEvent: what b becomes, and what is waited for.
Subscribed(b, r, w) ==
  [c \in Composers |->
     IF ~Shown(c) \/ <<r, w>> = <<replyingTo, whispering>> THEN b[c]
     ELSE IF r = Nothing THEN Recheck([b[c] EXCEPT !.reply = Nothing]) ELSE [b[c] EXCEPT !.reply = Nothing]]
Replies(r) == {Wait(c, "reply", r, 0) : c \in {d \in Composers : Shown(d)}}

\* The user types something else: the focus makes the mentions possible.
Type(c) ==
  /\ Shown(c) /\ ~box[c].poll /\ Len(typed) < MaxTyped
  /\ typed' = Append(typed, IF c = "thread" THEN opened ELSE None)
  /\ box' = [d \in Composers |-> IF d = c THEN SetText([box[c] EXCEPT !.mention = TRUE], Len(typed'))
                                ELSE Hears(box[d], FALSE)]
  /\ UNCHANGED <<opened, drafts, replyingTo, whispering, waits, acts, posted, shared, swapped>>

Blur(c) ==
  /\ Shown(c) /\ box[c].mention /\ Only(c, [box[c] EXCEPT !.mention = FALSE])
  /\ UNCHANGED <<opened, drafts, replyingTo, whispering, waits, typed, acts, posted, shared, swapped>>

Escape ==
  /\ Act /\ box' = [c \in Composers |-> IF Shown(c) THEN Hears(box[c], TRUE) ELSE box[c]]
  /\ UNCHANGED <<opened, drafts, replyingTo, whispering, waits, typed, posted, shared, swapped>>

-----------------------------------------------------------------------------
(* Drafts and threads.                                                     *)

\* saveDraft: the key is that of the thread that is open when the time is up,
\* for either composer, and even when the composer is gone.
SaveDraft(c) ==
  /\ box[c].save # -1
  /\ drafts' = [drafts EXCEPT ![opened] = box[c].save] /\ Only(c, [box[c] EXCEPT !.save = -1])
  /\ UNCHANGED <<opened, replyingTo, whispering, waits, typed, acts, posted, shared, swapped>>

\* clearDraft
Cleared == [drafts EXCEPT ![opened] = 0]

\* What is left of the composers C when they are gone: timers of drafts and
\* requests that have been made.
Orphans(C) ==
  {w \in waits : w.c \notin C}
  \cup {[w EXCEPT !.c = "gone", !.at = IF w.op = "upload" THEN box[w.c].root ELSE w.at] : w \in {v \in waits : v.c \in C /\ v.op \in {"announce", "whisper", "sign", "upload"}}}
  \cup {Wait("gone", "save", Nothing, box[c].save) : c \in {d \in C : box[d].save # -1}}

\* replyInThread.  A composer that is new forgets the reply and the whisper of
\* all; one that was there for another thread keeps its text until the draft
\* has come.
OpenThread(t) ==
  /\ Act /\ opened # t /\ opened' = t
  /\ IF opened = None
     THEN /\ replyingTo' = Nothing /\ whispering' = FALSE /\ box' = Subscribed(box, Nothing, FALSE)
          /\ waits' = waits \cup {Wait("thread", "mount", t, 0)}
     ELSE waits' = waits \cup {Wait("thread", "root", t, 0)} /\ UNCHANGED <<box, replyingTo, whispering>>
  /\ UNCHANGED <<drafts, typed, posted, shared, swapped>>

\* closeThread
CloseThread ==
  /\ opened # None /\ opened' = None
  /\ waits' = Orphans({"thread"}) /\ Only("thread", Blank)
  /\ UNCHANGED <<drafts, replyingTo, whispering, typed, acts, posted, shared, swapped>>

\* The user leaves the room and comes back (watch of the route, Room.vue; the
\* timeline of a room has the room as its key).
Reenter ==
  /\ Act /\ opened' = None /\ replyingTo' = Nothing /\ whispering' = FALSE
  /\ box' = [c \in Composers |-> Blank]
  /\ waits' = Orphans(Composers) \cup {Wait("timeline", "mount", None, 0)}
  /\ UNCHANGED <<drafts, typed, posted, shared, swapped>>

\* The watchers of the room and of the thread, after getEvent: the draft is
\* that of the thread which is open by now.
RootArrives(w) ==
  /\ LET k == [box[w.c] EXCEPT !.root = w.at] IN
     Only(w.c, IF w.op = "mount" /\ drafts[opened] = 0 THEN k ELSE SetText(k, drafts[opened]))
  /\ UNCHANGED <<opened, drafts, replyingTo, whispering, posted, shared, swapped>>

-----------------------------------------------------------------------------
(* The modes.                                                              *)

\* reply() of a message bubble, of the timeline or of the open thread.
Reply(p) ==
  /\ Act /\ p \in {None, opened} /\ <<p, FALSE>> # <<replyingTo, whispering>>
  /\ replyingTo' = p /\ whispering' = FALSE
  /\ box' = Subscribed(box, p, FALSE) /\ waits' = waits \cup Replies(p)
  /\ UNCHANGED <<opened, drafts, typed, posted, shared, swapped>>

\* A message of a thread can only be replied to there.
ReplyArrives(w) ==
  /\ Only(w.c, IF (w.c = "thread") = (w.at # None) THEN Recheck([box[w.c] EXCEPT !.reply = w.at]) ELSE Recheck(box[w.c]))
  /\ UNCHANGED <<opened, drafts, replyingTo, whispering, posted, shared, swapped>>

CancelReply ==
  /\ replyingTo # Nothing /\ replyingTo' = Nothing /\ box' = Subscribed(box, Nothing, whispering)
  /\ UNCHANGED <<opened, drafts, whispering, waits, typed, acts, posted, shared, swapped>>

\* startWhisperToMember
Whisper ==
  /\ Act /\ ~whispering /\ whispering' = TRUE /\ replyingTo' = Nothing
  /\ box' = Subscribed(box, Nothing, TRUE)
  /\ UNCHANGED <<opened, drafts, waits, typed, posted, shared, swapped>>

Announce ==
  /\ Act /\ Only("timeline", [box["timeline"] EXCEPT !.announce = ~@])
  /\ UNCHANGED <<opened, drafts, replyingTo, whispering, waits, typed, posted, shared, swapped>>

\* uploadFileTemporary, handlePaste
Attach(c) ==
  /\ Act /\ Shown(c) /\ ~box[c].poll
  /\ Only(c, [box[c] EXCEPT !.file = TRUE, !.share = 0, !.send = TRUE])
  /\ UNCHANGED <<opened, drafts, replyingTo, whispering, waits, typed, posted, shared, swapped>>

\* removeFile, removeExistingFile or removeSharedFile: the one that is shown.
Detach(c) ==
  /\ Shown(c) /\ Valid([box[c] EXCEPT !.text = 0, !.poll = FALSE])
  /\ LET k == box[c] IN
     Only(c, Recheck(IF k.file THEN [k EXCEPT !.file = FALSE]
                     ELSE IF k.existing # Nothing THEN [k EXCEPT !.existing = Nothing, !.dropped = k.existing]
                     ELSE [k EXCEPT !.share = 0]))
  /\ UNCHANGED <<opened, drafts, replyingTo, whispering, waits, typed, acts, posted, shared, swapped>>

\* The watcher of sharingFile: the library is only there without a thread.
Share ==
  /\ Act /\ opened = None
  /\ shared' = Append(shared, 0)
  /\ LET k == IF box["timeline"].edit # Nothing THEN CancelEdit(box["timeline"]) ELSE box["timeline"] IN
     Only("timeline", [ResetAll(k) EXCEPT !.share = Len(shared'), !.send = TRUE, !.reply = Nothing])
  /\ waits' = waits \cup (IF replyingTo = Nothing THEN {} ELSE Replies(replyingTo))
  /\ UNCHANGED <<opened, drafts, replyingTo, whispering, typed, posted, swapped>>

OpenSign(c) ==
  /\ Act /\ Shown(c) /\ ~box[c].sign
  /\ Only(c, [ResetAll(box[c]) EXCEPT !.send = box[c].send, !.file = box[c].file, !.sign = TRUE])
  /\ UNCHANGED <<opened, drafts, replyingTo, whispering, waits, typed, posted, shared, swapped>>

CloseSign(c) ==
  /\ Shown(c) /\ box[c].sign /\ Only(c, [box[c] EXCEPT !.sign = FALSE])
  /\ UNCHANGED <<opened, drafts, replyingTo, whispering, waits, typed, acts, posted, shared, swapped>>

\* openPoll and openScheduler; the object can be sent as soon as it is complete.
OpenPoll ==
  /\ Act /\ box["timeline"].reply = Nothing
  /\ \E complete \in BOOLEAN : Only("timeline", [ResetAll(box["timeline"]) EXCEPT !.poll = TRUE, !.send = complete])
  /\ UNCHANGED <<opened, drafts, replyingTo, whispering, waits, typed, posted, shared, swapped>>

\* The watcher of editingMessage: the state becomes that of an edit at once for
\* a text, and after the preview has come for a file.
Edit(c, m, t) ==
  /\ Act /\ Shown(c) /\ whispering' = FALSE /\ replyingTo' = Nothing
  /\ t \in IF m \in FileMessages THEN {0, Body} ELSE {Body}
  /\ LET b == Subscribed(box, Nothing, FALSE)
         k == [SetText(b[c], t) EXCEPT !.original = m, !.dropped = Nothing] IN
     IF m \in FileMessages
     THEN box' = With(b, c, k) /\ waits' = waits \cup {Wait(c, "preview", m, 0)}
     ELSE box' = With(b, c, Recheck([ResetAll(k) EXCEPT !.edit = m])) /\ UNCHANGED waits
  /\ UNCHANGED <<opened, drafts, typed, posted, shared, swapped>>

PreviewArrives(w) ==
  /\ Only(w.c, Recheck([ResetAll(box[w.c]) EXCEPT !.edit = w.at, !.existing = w.at]))
  /\ UNCHANGED <<opened, drafts, replyingTo, whispering, posted, shared, swapped>>

StopEdit(c) ==
  /\ Shown(c) /\ box[c].edit # Nothing /\ Only(c, CancelEdit(box[c]))
  /\ UNCHANGED <<opened, drafts, replyingTo, whispering, waits, typed, acts, posted, shared, swapped>>

-----------------------------------------------------------------------------
(* What is sent: a text, an announcement, a whisper, a signed message, a file *)
(* or an edit, in a thread or in the timeline.                             *)

Message(what, root, reply) == [what |-> what, root |-> root, reply |-> reply]
Post(m) == posted' = posted \cup {m}

-----------------------------------------------------------------------------
(* Sending.  submitMessage tries the modes in this order.                  *)

Editing(k) == k.edit # Nothing /\ k.original # Nothing
Ready(c) == Shown(c) /\ box[c].send /\ Valid(box[c])
Starts(c, op) == waits' = waits \cup {[Wait(c, op, box[c].root, 0) EXCEPT !.reply = IF op = "upload" THEN box[c].reply ELSE Nothing]}

\* An edit: a new file, the caption of a file, a file that was removed or a text.
SubmitEdit(c) ==
  /\ Ready(c) /\ Editing(box[c])
  /\ LET k == box[c] IN
     swapped' = IF k.original \in FileMessages /\ ~k.file /\ k.existing # k.original /\ k.dropped # k.original
                THEN swapped \cup {k.original} ELSE swapped
  /\ waits' = waits \cup {Wait(c, "edit", box[c].original, 0)}
  /\ UNCHANGED <<opened, box, drafts, replyingTo, whispering, typed, acts, posted, shared>>

\* The QR code is shown until the user has signed, or closes it.
SubmitSign(c) ==
  /\ Ready(c) /\ ~Editing(box[c]) /\ box[c].sign /\ Act /\ Starts(c, "sign")
  /\ UNCHANGED <<opened, box, drafts, replyingTo, whispering, typed, posted, shared, swapped>>

\* An announcement and a whisper are sent before the text is cleared.
SubmitAwaited(c) ==
  /\ Ready(c) /\ ~Editing(box[c]) /\ ~box[c].sign /\ (box[c].announce \/ whispering)
  /\ Act /\ Starts(c, IF box[c].announce THEN "announce" ELSE "whisper")
  /\ UNCHANGED <<opened, box, drafts, replyingTo, whispering, typed, posted, shared, swapped>>

Ordinary(c) == Ready(c) /\ ~Editing(box[c]) /\ ~box[c].sign /\ ~box[c].announce /\ ~whispering

SubmitPoll(c) ==
  /\ Ordinary(c) /\ box[c].poll /\ drafts' = Cleared
  /\ Only(c, SetText(ResetAll(box[c]), 0))
  /\ UNCHANGED <<opened, replyingTo, whispering, waits, typed, acts, posted, shared, swapped>>

\* The input is only emptied when the server has answered.
EmptiedLater(k) == k

\* The input is emptied before the request.
Emptied(k) == SetText([k EXCEPT !.share = 0], 0)

\* A shared file, at once.
SubmitShared(c) ==
  /\ Ordinary(c) /\ ~box[c].poll /\ box[c].share # 0
  /\ box' = With(Subscribed(box, Nothing, whispering), c, Recheck(Emptied(Subscribed(box, Nothing, whispering)[c])))
  /\ drafts' = Cleared /\ replyingTo' = Nothing
  /\ waits' = waits \cup {Wait(c, "file", box[c].root, 0)}
  /\ shared' = [shared EXCEPT ![box[c].share] = @ + 1]
  /\ Post(Message("file", box[c].root, box[c].reply))
  /\ UNCHANGED <<opened, whispering, typed, acts, swapped>>

\* An upload keeps the file and the text until it has ended.
SubmitFile(c) ==
  /\ Ordinary(c) /\ ~box[c].poll /\ box[c].share = 0 /\ box[c].file /\ Act /\ Starts(c, "upload")
  /\ IF box[c].reply # Nothing THEN replyingTo' = Nothing /\ box' = Subscribed(box, Nothing, whispering)
     ELSE UNCHANGED <<replyingTo, box>>
  /\ UNCHANGED <<opened, drafts, whispering, typed, posted, shared, swapped>>

\* A reply or a text.
SubmitText(c) ==
  /\ Ordinary(c) /\ ~box[c].poll /\ box[c].share = 0 /\ ~box[c].file
  /\ Post(Message("text", box[c].root, box[c].reply)) /\ replyingTo' = Nothing /\ drafts' = Cleared
  /\ LET b == Subscribed(box, Nothing, whispering) IN box' = With(b, c, SetText(b[c], 0))
  /\ UNCHANGED <<opened, whispering, waits, typed, acts, shared, swapped>>

\* What is done after the server has answered; a composer that is gone still
\* writes to the stores.
Done(w) ==
  LET k == Box(w.c) IN
  /\ \/ w.op = "announce" /\ Only(w.c, [SetText(k, 0) EXCEPT !.announce = FALSE]) /\ drafts' = Cleared /\ UNCHANGED whispering
     \/ w.op = "whisper" /\ box' = With(Subscribed(box, replyingTo, FALSE), w.c, SetText([k EXCEPT !.reply = Nothing], 0))
        /\ drafts' = Cleared /\ whispering' = FALSE
     \/ w.op = "sign" /\ Only(w.c, SetText([k EXCEPT !.sign = FALSE], 0)) /\ drafts' = Cleared /\ UNCHANGED whispering
     \/ w.op = "upload" /\ Only(w.c, Recheck(SetText([k EXCEPT !.file = FALSE], 0))) /\ drafts' = Cleared /\ UNCHANGED whispering
     \/ w.op = "edit" /\ Only(w.c, CancelEdit(k)) /\ UNCHANGED <<drafts, whispering>>
     \/ w.op = "save" /\ drafts' = [drafts EXCEPT ![opened] = w.text] /\ UNCHANGED <<box, whispering>>
     \/ w.op = "file" /\ UNCHANGED <<box, drafts, whispering>>
  /\ IF w.op \in {"save", "file"} THEN UNCHANGED posted
     ELSE Post(Message(w.op, IF w.op = "upload" /\ w.c # "gone" THEN k.root ELSE w.at, w.reply))
  /\ UNCHANGED <<opened, replyingTo, shared, swapped>>

\* A request or an upload fails, or the user does not sign.
Fails(w) ==
  /\ \/ w.op \in {"announce", "whisper", "sign", "file"} /\ UNCHANGED box
     \/ w.op = "upload" /\ Only(w.c, Recheck([Box(w.c) EXCEPT !.file = FALSE]))
     \/ w.op = "edit" /\ Only(w.c, CancelEdit(Box(w.c)))
  /\ UNCHANGED <<opened, drafts, replyingTo, whispering, posted, shared, swapped>>

Answered ==
  \E w \in waits :
    /\ waits' = waits \ {w} /\ UNCHANGED <<typed, acts>>
    /\ \/ w.op \in {"root", "mount"} /\ RootArrives(w)
       \/ w.op = "reply" /\ ReplyArrives(w)
       \/ w.op = "preview" /\ PreviewArrives(w)
       \/ Done(w)
       \/ Fails(w)

ComposeNext ==
  \/ Escape \/ Reenter \/ CloseThread \/ CancelReply \/ Whisper \/ Announce \/ Share \/ OpenPoll \/ Answered
  \/ \E t \in Threads : OpenThread(t)
  \/ \E p \in Places : Reply(p)
  \/ \E c \in Composers :
       \/ Type(c) \/ Blur(c) \/ SaveDraft(c) \/ Attach(c) \/ Detach(c) \/ OpenSign(c) \/ CloseSign(c) \/ StopEdit(c)
       \/ SubmitEdit(c) \/ SubmitSign(c) \/ SubmitAwaited(c) \/ SubmitPoll(c) \/ SubmitShared(c) \/ SubmitFile(c) \/ SubmitText(c)
       \/ \E m \in Editable, t \in {0, Body} : Edit(c, m, t)

ComposeSpec == ComposeInit /\ [][ComposeNext]_composeVars

-----------------------------------------------------------------------------
\* A file that was shared from the library is sent at most once, however often
\* the user presses the button while the request is on its way and whether or
\* not it fails (submitMessage, MessageInput.vue:833-850).
SharedOnce == \A i \in DOMAIN shared : shared[i] <= 1

\* Not so: the comment in submitMessage takes a file message without a file in
\* the input for one of which the user removed the file; the preview of the file
\* may not have come, or that of another message came after it.
FileRemovedByUser == swapped = {}

\* Not so: "Load draft for new thread" (MessageInput.vue:519): the draft of a
\* place is a text that was written there.
DraftOfPlace == \A p \in Places : drafts[p] \in DOMAIN typed => typed[drafts[p]] = p
=============================================================================
